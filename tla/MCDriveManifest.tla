-------------------------- MODULE MCDriveManifest --------------------------
EXTENDS DriveManifest

MCSnap == 1..3
MCOneFile == {1}
MCFiles == {1, 2}
=============================================================================
