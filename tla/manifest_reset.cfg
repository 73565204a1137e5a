\* The folder is emptied under the devices: duplicate files can appear.
SPECIFICATION Spec
CONSTANTS
    Device = {d1, d2}
    Snap <- MCSnap
    FileId <- MCFiles
    ReadAttempts = 2
    MaxFails = 1
    MaxResets = 1
PROPERTY FilesRiseByOne
CHECK_DEADLOCK FALSE
