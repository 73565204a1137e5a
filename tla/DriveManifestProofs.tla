------------------------- MODULE DriveManifestProofs -------------------------
(***************************************************************************)
(* Theorems about DriveManifest, for every set of devices, of snapshots    *)
(* and of file ids and every number of failures.  As long as the user does *)
(* not empty the app-data folder (MaxResets = 0) the manifest stays one    *)
(* file, which the If-Match updates turn into a register (IInv).  When it  *)
(* may be emptied, several files can appear; what a reader knows of each   *)
(* version it has seen (AnyInv) still stops a write over an unread one.    *)
(***************************************************************************)
EXTENDS DriveManifest, FiniteSetTheorems, WellFoundedInduction, TLAPS

-----------------------------------------------------------------------------
(* The inductive invariant.                                                *)

Current == files[1].m

\* The server: one file, whose manifest is the last of an unbroken chain.
ServerInv ==
    /\ \A f \in FileId \ {1} : files[f] = NoFile
    /\ files[1] \in [m : Manifest, etag : Nat \ {0}]
    /\ files[1].etag = clock
    /\ resets = 0
    /\ Current \in log
    /\ \A n \in log : n.gen <= Current.gen
    /\ \A n \in log : n.snap \in used
    /\ \A g \in 1 .. Current.gen : \E n \in log : n.gen = g
    /\ Chain

\* m was derived from a committed manifest of the generation before it.
Based(m) ==
    /\ m \in Manifest
    /\ m.snap # m.parent
    /\ m.snap \in used
    /\ \E p \in log : p.gen = m.gen - 1 /\ p.snap = m.parent

\* c is a version the file has had: the one in force, or an older one.
Version(c) ==
    /\ c \in Candidate
    /\ c.file = 1
    /\ c.m \in log
    /\ c.etag <= clock
    /\ c.etag = clock => c.m = Current
    /\ c.etag < clock => c.m.gen < Current.gen

LateInv ==
    \A r \in late : /\ r \in Late
                    /\ Based(r.m)
                    /\ Version(r.at)
                    /\ r.m.gen = r.at.m.gen + 1

\* How far a device's read has come, and what it knows.
ReadInv(d) ==
    /\ pc[d] # "post"
    /\ pc[d] = "idle" => goal[d] = "none"
    /\ pc[d] = "list" => cand[d] = {}
    /\ pc[d] = "fetch" => \/ todo[d] = {1} /\ cand[d] = {}
                          \/ todo[d] = {} /\ cand[d] # {}
    /\ pc[d] \in {"bytes", "etag"} =>
            /\ todo[d] = {1} /\ cand[d] = {} /\ cur[d] = 1
            /\ pre[d] \in 1 .. clock
    /\ pc[d] = "etag" =>
            /\ buf[d] \in log
            /\ pre[d] = clock => buf[d] = Current
            /\ pre[d] < clock => buf[d].gen <= Current.gen
            /\ buf[d].gen + 1 >= mine[d].gen
    /\ pc[d] = "put" => cand[d] # {} /\ goal[d] = "check"
    /\ cand[d] # {} => \E c \in cand[d] :
            /\ cand[d] = {c}
            /\ Version(c)
            /\ c.m.gen + 1 >= mine[d].gen
            /\ pc[d] = "put" => mine[d].gen = c.m.gen + 1

PublishInv(d) ==
    /\ mine[d] # NoManifest => Based(mine[d])
    /\ staged[d] # NoManifest => Based(staged[d])
    /\ goal[d] \in {"recover", "check", "confirm", "conflict"} =>
            mine[d] # NoManifest
    /\ goal[d] = "load" => mine[d] = NoManifest
    /\ pc[d] # "idle" => outcome[d] = "none"
    /\ goal[d] = "confirm" => mine[d] \in log
    /\ goal[d] = "conflict" => mine[d].gen <= Current.gen
    /\ outcome[d] = "won" => mine[d] \in log
    /\ outcome[d] = "lost" => \E n \in log : n.gen = mine[d].gen

IInv ==
    /\ TypeOK
    /\ ServerInv
    /\ LateInv
    /\ \A d \in Device : ReadInv(d) /\ PublishInv(d)

-----------------------------------------------------------------------------
(* Lemmas about a step.                                                    *)

\* A manifest is not the null manifest.
LEMMA ManifestNotNull ==
    ASSUME NEW m \in Manifest  PROVE  m # NoManifest
  BY DEF Manifest, NoManifest

\* The newest candidate of a completed read is the only one.
LEMMA BestIsOnly ==
    ASSUME NEW d \in Device, ReadInv(d), cand[d] # {}
    PROVE  /\ cand[d] = {Best(d)}
           /\ Version(Best(d))
           /\ Best(d).m.gen + 1 >= mine[d].gen
           /\ pc[d] = "put" => mine[d].gen = Best(d).m.gen + 1
<1>1. PICK c : /\ cand[d] = {c}
               /\ Version(c)
               /\ c.m.gen + 1 >= mine[d].gen
               /\ pc[d] = "put" => mine[d].gen = c.m.gen + 1
  BY DEF ReadInv
<1>2. NotAbove(c, c)
  <2>1. c.file = 1
    BY <1>1 DEF Version
  <2>2. c.file <= c.file
    BY <2>1
  <2> QED BY <2>2 DEF NotAbove
<1>3. Best(d) = c
  <2>1. \A b : b \in {c} /\ (\A a \in {c} : NotAbove(a, b)) <=> b = c
    BY <1>2
  <2>2. (CHOOSE b : b \in {c} /\ \A a \in {c} : NotAbove(a, b)) = c
    BY <2>1
  <2>3. Newest({c}) = c
    BY <2>2 DEF Newest
  <2> QED BY <1>1, <2>3 DEF Best
<1> QED BY <1>1, <1>3

\* What a step may do to the server.
Evolves ==
    /\ log \subseteq log'
    /\ used \subseteq used'
    /\ clock <= clock'
    /\ clock' = clock => files' = files /\ log' = log
    /\ clock' > clock => Current'.gen > Current.gen

Same(e) ==
    /\ pc'[e] = pc[e] /\ goal'[e] = goal[e] /\ todo'[e] = todo[e]
    /\ cand'[e] = cand[e] /\ cur'[e] = cur[e] /\ pre'[e] = pre[e]
    /\ buf'[e] = buf[e] /\ tries'[e] = tries[e] /\ mine'[e] = mine[e]
    /\ staged'[e] = staged[e] /\ outcome'[e] = outcome[e]

\* A publishable manifest stays one, a version stays a version.
LEMMA BasedStable ==
    ASSUME Evolves, NEW m, Based(m)  PROVE  Based(m)'
  BY DEF Evolves, Based

LEMMA VersionStable ==
    ASSUME TypeOK, ServerInv, ServerInv', Evolves, clock' \in Nat,
           NEW c, Version(c)
    PROVE  Version(c)'
<1>1. c.m \in log'
  BY DEF Version, Evolves
<1>2. c.etag \in Nat /\ clock \in Nat /\ c.m.gen \in Nat
  BY DEF Version, Candidate, Manifest, TypeOK
<1>3. Current.gen \in Nat /\ Current'.gen \in Nat
  BY DEF ServerInv, Manifest, Current
<1>4. CASE clock' = clock
  BY <1>1, <1>4 DEF Version, Evolves, Current
<1>5. CASE clock' # clock
  <2>1. c.etag < clock' /\ Current'.gen > Current.gen
    BY <1>2, <1>5 DEF Version, Evolves
  <2>2. c.m.gen <= Current.gen
    BY DEF Version, ServerInv
  <2> QED BY <1>1, <1>2, <1>3, <2>1, <2>2 DEF Version
<1> QED BY <1>4, <1>5

\* A device that does not move keeps its invariant while the server evolves.
LEMMA Bystander ==
    ASSUME IInv, ServerInv', Evolves, clock' \in Nat,
           NEW e \in Device, Same(e)
    PROVE  ReadInv(e)' /\ PublishInv(e)'
<1> USE DEF Same
<1>1. ReadInv(e) /\ PublishInv(e) /\ TypeOK /\ ServerInv
  BY DEF IInv
<1>2. \A c : Version(c) => Version(c)'
  BY <1>1, VersionStable
<1>3. \A m : Based(m) => Based(m)'
  BY BasedStable
<1>4. /\ pre[e] \in Nat /\ clock \in Nat
      /\ Current.gen \in Nat /\ Current'.gen \in Nat
  BY <1>1 DEF TypeOK, ServerInv, Current, Manifest
<1>5. ReadInv(e)'
  <2>1. pc[e] = "etag" => /\ buf[e] \in log'
                          /\ pre[e] = clock' => buf[e] = Current'
                          /\ pre[e] < clock' => buf[e].gen <= Current'.gen
                          /\ buf[e].gen + 1 >= mine[e].gen
    <3>1. CASE clock' = clock
      BY <1>1, <1>4, <3>1 DEF ReadInv, Evolves, Current
    <3>2. CASE clock' # clock
      <4>1. clock' > clock /\ Current'.gen > Current.gen
        BY <1>4, <3>2 DEF Evolves
      <4>2. pc[e] = "etag" => pre[e] \in 1 .. clock /\ buf[e] \in log
        BY <1>1 DEF ReadInv
      <4>3. pc[e] = "etag" => buf[e].gen <= Current.gen /\ buf[e].gen \in Nat
        BY <1>1, <4>2 DEF ServerInv, TypeOK, Manifest
      <4> QED BY <1>1, <1>4, <4>1, <4>2, <4>3 DEF ReadInv, Evolves
    <3> QED BY <3>1, <3>2
  <2>2. pc[e] \in {"bytes", "etag"} => pre[e] \in 1 .. clock'
    BY <1>1, <1>4 DEF ReadInv, Evolves
  <2>3. cand[e] # {} => \E c \in cand[e] :
            /\ cand[e] = {c}
            /\ Version(c)'
            /\ c.m.gen + 1 >= mine[e].gen
            /\ pc[e] = "put" => mine[e].gen = c.m.gen + 1
    BY <1>1, <1>2 DEF ReadInv
  <2> QED BY <1>1, <2>1, <2>2, <2>3 DEF ReadInv
<1>6. PublishInv(e)'
  <2>1. goal[e] = "conflict" => mine[e].gen <= Current'.gen
    <3>1. Current.gen <= Current'.gen
      BY <1>4 DEF Evolves, Current
    <3>2. goal[e] = "conflict" => mine[e].gen \in Nat
      BY <1>1 DEF PublishInv, Based, Manifest
    <3> QED BY <1>1, <1>4, <3>1, <3>2 DEF PublishInv
  <2> QED BY <1>1, <1>3, <2>1 DEF PublishInv, Evolves
<1> QED BY <1>5, <1>6

\* A step that writes nothing leaves the server's invariant alone.
LEMMA NoWrite ==
    ASSUME IInv, UNCHANGED server, used \subseteq used', used' \subseteq Snap
    PROVE  ServerInv' /\ LateInv' /\ Evolves /\ clock' \in Nat
<1> USE DEF server
<1>1. TypeOK /\ ServerInv /\ LateInv
  BY DEF IInv
<1>2. clock \in Nat
  BY <1>1 DEF TypeOK
<1>3. ServerInv'
  BY <1>1 DEF ServerInv, Chain, Current
<1>4. Evolves
  BY <1>2 DEF Evolves
<1>5. \A m : Based(m) => Based(m)'
  BY <1>4, BasedStable
<1>6. \A c : Version(c) => Version(c)'
  BY <1>1, <1>2, <1>3, <1>4, VersionStable
<1>7. LateInv'
  BY <1>1, <1>5, <1>6 DEF LateInv
<1> QED BY <1>2, <1>3, <1>4, <1>7

\* A step of device d that writes nothing: its own part is all there is to show.
LEMMA OwnStep ==
    ASSUME IInv, NEW d \in Device, UNCHANGED server,
           used \subseteq used', used' \subseteq Snap,
           \A e \in Device \ {d} : Same(e),
           TypeOK', ReadInv(d)', PublishInv(d)'
    PROVE  IInv'
<1>1. ServerInv' /\ LateInv' /\ Evolves /\ clock' \in Nat
  BY NoWrite
<1>2. \A e \in Device \ {d} : ReadInv(e)' /\ PublishInv(e)'
  BY <1>1, Bystander
<1> QED BY <1>1, <1>2 DEF IInv

\* An update the server accepts extends the chain: the version its sender read
\* is still in force.
LEMMA AcceptedWrite ==
    ASSUME IInv, NEW c, NEW m, Version(c), Based(m), m.gen = c.m.gen + 1,
           IfMatch(c), Store(c.file, m), used' = used
    PROVE  /\ ServerInv' /\ Evolves /\ clock' \in Nat
           /\ Current' = m /\ m \notin log /\ log' = log \cup {m}
           /\ m.gen = Current.gen + 1 /\ m.parent = Current.snap
           /\ files' \in [FileId -> [m : Manifest, etag : Nat \ {0}] \cup {NoFile}]
           /\ log' \subseteq Manifest
<1>1. TypeOK /\ ServerInv
  BY DEF IInv
<1>2. 1 \in FileId /\ clock \in Nat
  BY <1>1, ConstantsAssumption DEF TypeOK
<1>3. c.file = 1 /\ c.m = Current
  BY <1>1 DEF Version, IfMatch, ServerInv
<1>4. /\ Current \in Manifest /\ m \in Manifest
      /\ Current.gen \in Nat \ {0} /\ m.gen \in Nat \ {0}
  BY <1>1 DEF ServerInv, Current, Based, Manifest
<1>5. m.gen = Current.gen + 1
  BY <1>3
<1>6. m \notin log
  BY <1>1, <1>4, <1>5 DEF ServerInv
<1>7. PICK p : p \in log /\ p.gen = m.gen - 1 /\ p.snap = m.parent
  BY DEF Based
<1>8. p = Current
  BY <1>1, <1>4, <1>5, <1>7 DEF ServerInv, Chain
<1>9. /\ files' = [files EXCEPT ![1] = [m |-> m, etag |-> clock + 1]]
      /\ clock' = clock + 1 /\ log' = log \cup {m} /\ resets' = resets
  BY <1>3 DEF Store
<1>10. /\ files' \in [FileId -> [m : Manifest, etag : Nat \ {0}] \cup {NoFile}]
       /\ files'[1] = [m |-> m, etag |-> clock + 1]
       /\ \A f \in FileId \ {1} : files'[f] = files[f]
  BY <1>1, <1>2, <1>4, <1>9 DEF TypeOK
<1>11. Current' = m
  BY <1>10 DEF Current
<1>12. Chain'
  <2>1. \A a, b \in log' : a.gen = b.gen => a = b
    BY <1>1, <1>4, <1>5, <1>9 DEF ServerInv, Chain, TypeOK, Manifest
  <2>2. \A a \in log' : a.gen > 1 =>
            \E q \in log' : q.gen = a.gen - 1 /\ q.snap = a.parent
    BY <1>1, <1>7, <1>9 DEF ServerInv, Chain
  <2> QED BY <2>1, <2>2 DEF Chain
<1>13. \A g \in 1 .. Current'.gen : \E n \in log' : n.gen = g
  <2>1. \A g \in 1 .. Current'.gen : g \in 1 .. Current.gen \/ g = m.gen
    BY <1>4, <1>5, <1>11
  <2> QED BY <1>1, <1>9, <2>1 DEF ServerInv
<1>14. \A n \in log' : n.gen <= Current'.gen
  BY <1>1, <1>4, <1>5, <1>9, <1>11 DEF ServerInv, TypeOK, Manifest
<1>15. \A n \in log' : n.snap \in used'
  BY <1>1, <1>9 DEF ServerInv, Based
<1>16. ServerInv'
  BY <1>1, <1>2, <1>4, <1>9, <1>10, <1>11, <1>12, <1>13, <1>14, <1>15
     DEF ServerInv
<1>17. Evolves
  BY <1>2, <1>4, <1>5, <1>9, <1>11 DEF Evolves
<1> QED
  BY <1>1, <1>2, <1>4, <1>5, <1>6, <1>7, <1>8, <1>9, <1>10, <1>11, <1>16, <1>17
     DEF TypeOK

-----------------------------------------------------------------------------
(* One lemma per action.                                                   *)

LEMMA InitIInv == ASSUME MaxResets = 0, Init  PROVE IInv
<1>1. PICK s \in Snap :
        /\ files = [f \in FileId |->
              IF f = 1 THEN [m |-> [gen |-> 1, snap |-> s, parent |-> 0], etag |-> 1]
                       ELSE NoFile]
        /\ log = {[gen |-> 1, snap |-> s, parent |-> 0]}
        /\ used = {s}
  BY DEF Init
<1>2. [gen |-> 1, snap |-> s, parent |-> 0] \in Manifest
  BY ConstantsAssumption DEF Manifest
<1>3. files[1] = [m |-> [gen |-> 1, snap |-> s, parent |-> 0], etag |-> 1]
  BY <1>1, ConstantsAssumption
<1>4. TypeOK
  BY <1>1, <1>2, ConstantsAssumption
     DEF Init, TypeOK, NoManifest, NoFile, Pcs, Goals
<1>5. ServerInv
  <2>1. Current = [gen |-> 1, snap |-> s, parent |-> 0]
    BY <1>3 DEF Current
  <2>2. Chain
    BY <1>1 DEF Chain
  <2>3. \A f \in FileId \ {1} : files[f] = NoFile
    BY <1>1
  <2> QED BY <1>1, <1>2, <1>3, <2>1, <2>2, <2>3 DEF Init, ServerInv
<1>6. LateInv
  BY DEF Init, LateInv
<1>7. \A d \in Device : ReadInv(d) /\ PublishInv(d)
  BY DEF Init, ReadInv, PublishInv
<1> QED BY <1>4, <1>5, <1>6, <1>7 DEF IInv

LEMMA LeaveKeeps ==
    ASSUME TypeOK, NEW d \in Device, Leave(d)
    PROVE  /\ pc' \in [Device -> Pcs] /\ goal' \in [Device -> Goals]
           /\ todo' \in [Device -> SUBSET FileId]
           /\ cand' \in [Device -> SUBSET Candidate]
           /\ cur' \in [Device -> FileId \cup {0}]
           /\ pre' \in [Device -> Nat]
           /\ buf' \in [Device -> Manifest \cup {NoManifest}]
           /\ tries' \in [Device -> 0 .. ReadAttempts - 1]
           /\ ReadInv(d)'
           /\ goal'[d] = "none" /\ pc'[d] = "idle"
  BY ConstantsAssumption DEF TypeOK, Leave, ReadInv, Pcs, Goals

LEMMA ReadKeeps ==
    ASSUME TypeOK, NEW d \in Device, NEW g \in Goals, Read(d, g)
    PROVE  /\ pc' \in [Device -> Pcs] /\ goal' \in [Device -> Goals]
           /\ cand' \in [Device -> SUBSET Candidate]
           /\ todo' = todo /\ cur' = cur /\ pre' = pre
           /\ buf' = buf /\ tries' = tries
           /\ ReadInv(d)'
           /\ goal'[d] = g
  BY DEF TypeOK, Read, ReadInv, Pcs, Goals

LEMMA AbortStep ==
    ASSUME IInv, NEW d \in Device, Abort(d), UNCHANGED server,
           fails' \in 0 .. MaxFails
    PROVE  IInv'
<1>1. TypeOK /\ PublishInv(d)
  BY DEF IInv
<1>2. TypeOK' /\ ReadInv(d)' /\ goal'[d] = "none" /\ pc'[d] = "idle"
  BY <1>1, LeaveKeeps DEF Abort, TypeOK, server
<1>3. PublishInv(d)'
  BY <1>1, <1>2 DEF PublishInv, Abort, TypeOK, Based, server
<1>4. \A e \in Device \ {d} : Same(e)
  BY <1>1 DEF Same, Abort, Leave, TypeOK
<1> QED BY <1>1, <1>2, <1>3, <1>4, OwnStep DEF Abort, TypeOK

LEMMA ReportStep ==
    ASSUME IInv, NEW d \in Device, NEW result \in {"clean", "won", "lost"},
           Report(d, result),
           result = "won" => mine[d] \in log,
           result = "lost" => \E n \in log : n.gen = mine[d].gen
    PROVE  IInv'
<1>1. TypeOK /\ PublishInv(d)
  BY DEF IInv
<1>2. TypeOK' /\ ReadInv(d)' /\ goal'[d] = "none" /\ pc'[d] = "idle"
  BY <1>1, LeaveKeeps DEF Report, TypeOK, server
<1>3. PublishInv(d)'
  BY <1>1, <1>2 DEF PublishInv, Report, TypeOK, Based, server
<1>4. \A e \in Device \ {d} : Same(e)
  BY <1>1 DEF Same, Report, Leave, TypeOK
<1> QED BY <1>1, <1>2, <1>3, <1>4, OwnStep DEF Report, TypeOK

\* A step that only reads leaves what the device publishes alone.
LEMMA PublishKeeps ==
    ASSUME NEW d \in Device, PublishInv(d),
           pc[d] # "idle",
           UNCHANGED <<server, used, goal, mine, staged, outcome>>
    PROVE  PublishInv(d)'
  BY DEF PublishInv, Based, Current, server

LEMMA StartStep == ASSUME IInv, NEW d \in Device, Start(d)  PROVE IInv'
<1>1. TypeOK /\ PublishInv(d) /\ ReadInv(d)
  BY DEF IInv
<1>2. PICK g \in {"load", "recover"} :
        /\ Read(d, g)
        /\ g = "load" => mine' = [mine EXCEPT ![d] = NoManifest]
        /\ g = "recover" => /\ staged[d] # NoManifest
                            /\ mine' = [mine EXCEPT ![d] = staged[d]]
  BY DEF Start
<1>3. ReadInv(d)' /\ goal'[d] = g
  BY <1>1, <1>2, ReadKeeps DEF Goals
<1>4. TypeOK'
  BY <1>1, <1>2, ReadKeeps DEF Start, TypeOK, server, Goals
<1>5. PublishInv(d)'
  BY <1>1, <1>2, <1>3 DEF PublishInv, Start, TypeOK, Based, server
<1>6. \A e \in Device \ {d} : Same(e)
  BY <1>1, <1>2 DEF Same, Start, Read, TypeOK
<1> QED BY <1>1, <1>3, <1>4, <1>5, <1>6, OwnStep DEF Start, TypeOK

LEMMA ListStep == ASSUME IInv, NEW d \in Device, List(d)  PROVE IInv'
<1>1. TypeOK /\ PublishInv(d) /\ ReadInv(d) /\ ServerInv
  BY DEF IInv
<1>2. Existing = {1}
  <2>1. files[1] # NoFile
    BY <1>1 DEF ServerInv, NoFile
  <2> QED BY <1>1, <2>1, ConstantsAssumption DEF ServerInv, Existing
<1>3. TypeOK'
  BY <1>1, <1>2, ConstantsAssumption DEF List, TypeOK, server, Pcs
<1>4. ReadInv(d)' /\ PublishInv(d)'
  BY <1>1, <1>2, PublishKeeps DEF List, TypeOK, ReadInv, server
<1>5. \A e \in Device \ {d} : Same(e)
  BY <1>1 DEF Same, List, TypeOK
<1> QED BY <1>1, <1>3, <1>4, <1>5, OwnStep DEF List, TypeOK

LEMMA FetchEtagStep == ASSUME IInv, NEW d \in Device, FetchEtag(d)  PROVE IInv'
<1>1. TypeOK /\ PublishInv(d) /\ ReadInv(d) /\ ServerInv
  BY DEF IInv
<1>2. /\ todo[d] = {1} /\ cand[d] = {} /\ pc' = [pc EXCEPT ![d] = "bytes"]
      /\ cur' = [cur EXCEPT ![d] = 1] /\ pre' = [pre EXCEPT ![d] = clock]
      /\ clock \in Nat \ {0}
  <2>1. todo[d] = {1} /\ cand[d] = {} /\ files[1].etag = clock
    BY <1>1 DEF FetchEtag, ReadInv, ServerInv
  <2> QED BY <1>1, <2>1 DEF FetchEtag, ServerInv
<1>3. TypeOK'
  BY <1>1, <1>2, ConstantsAssumption DEF FetchEtag, TypeOK, server, Pcs
<1>4. ReadInv(d)'
  BY <1>1, <1>2 DEF FetchEtag, TypeOK, ReadInv, server
<1>5. PublishInv(d)'
  BY <1>1, PublishKeeps DEF FetchEtag
<1>6. \A e \in Device \ {d} : Same(e)
  BY <1>1, <1>2 DEF Same, FetchEtag, TypeOK
<1> QED BY <1>1, <1>3, <1>4, <1>5, <1>6, OwnStep DEF FetchEtag, TypeOK

LEMMA FetchBytesStep == ASSUME IInv, NEW d \in Device, FetchBytes(d)  PROVE IInv'
<1>1. TypeOK /\ PublishInv(d) /\ ReadInv(d) /\ ServerInv
  BY DEF IInv
<1>2. /\ todo[d] = {1} /\ cand[d] = {} /\ cur[d] = 1
      /\ pc' = [pc EXCEPT ![d] = "etag"]
      /\ buf' = [buf EXCEPT ![d] = Current]
      /\ Current \in log /\ Current \in Manifest /\ Current.gen \in Nat \ {0}
  BY <1>1 DEF FetchBytes, ReadInv, ServerInv, Current, Manifest
<1>3. Current.gen + 1 >= mine[d].gen
  <2>1. CASE mine[d] = NoManifest
    BY <1>2, <2>1 DEF NoManifest
  <2>2. CASE mine[d] # NoManifest
    <3>1. PICK p : p \in log /\ p.gen = mine[d].gen - 1
      BY <1>1, <2>2 DEF PublishInv, Based
    <3>2. mine[d].gen \in Nat /\ p.gen <= Current.gen
      BY <1>1, <2>2, <3>1 DEF PublishInv, Based, Manifest, ServerInv
    <3> QED BY <1>2, <3>1, <3>2
  <2> QED BY <2>1, <2>2
<1>4. TypeOK'
  BY <1>1, <1>2 DEF FetchBytes, TypeOK, server, Pcs
<1>5. ReadInv(d)'
  BY <1>1, <1>2, <1>3
     DEF FetchBytes, TypeOK, ReadInv, server, Current
<1>6. PublishInv(d)'
  BY <1>1, PublishKeeps DEF FetchBytes
<1>7. \A e \in Device \ {d} : Same(e)
  BY <1>1, <1>2 DEF Same, FetchBytes, TypeOK
<1> QED BY <1>1, <1>4, <1>5, <1>6, <1>7, OwnStep DEF FetchBytes, TypeOK

LEMMA CheckStableStep == ASSUME IInv, NEW d \in Device, CheckStable(d)  PROVE IInv'
<1>1. TypeOK /\ PublishInv(d) /\ ReadInv(d) /\ ServerInv
  BY DEF IInv
<1>2. /\ cur[d] = 1 /\ todo[d] = {1} /\ cand[d] = {} /\ pre[d] = clock
      /\ buf[d] \in log /\ buf[d] = Current /\ clock \in Nat \ {0}
      /\ buf[d] \in Manifest /\ buf[d].gen + 1 >= mine[d].gen
      /\ files[1].etag = clock
  BY <1>1 DEF CheckStable, Stable, ReadInv, ServerInv, TypeOK
<1> PICK c : c = [file |-> 1, m |-> buf[d], etag |-> clock]
  OBVIOUS
<1>3. Version(c)
  BY <1>2, ConstantsAssumption DEF Version, Candidate
<1>4. /\ cand' = [cand EXCEPT ![d] = {c}] /\ todo' = [todo EXCEPT ![d] = {}]
      /\ pc' = [pc EXCEPT ![d] = "fetch"]
  BY <1>1, <1>2 DEF CheckStable, TypeOK
<1>5. TypeOK'
  BY <1>1, <1>3, <1>4, ConstantsAssumption
     DEF CheckStable, TypeOK, server, Pcs, Version
<1>6. ReadInv(d)'
  <2>1. cand'[d] = {c} /\ todo'[d] = {} /\ pc'[d] = "fetch" /\ mine' = mine
    BY <1>1, <1>4 DEF TypeOK, CheckStable
  <2>2. Version(c)'
    BY <1>3 DEF Version, CheckStable, server, Current
  <2>3. c.m.gen + 1 >= mine'[d].gen
    BY <1>2, <2>1
  <2> QED BY <2>1, <2>2, <2>3 DEF ReadInv
<1>7. PublishInv(d)'
  BY <1>1, PublishKeeps DEF CheckStable
<1>8. \A e \in Device \ {d} : Same(e)
  BY <1>1 DEF Same, CheckStable, TypeOK
<1> QED BY <1>1, <1>5, <1>6, <1>7, <1>8, OwnStep DEF CheckStable, TypeOK

LEMMA CheckUnstableStep == ASSUME IInv, NEW d \in Device, CheckUnstable(d)  PROVE IInv'
<1>1. TypeOK /\ PublishInv(d) /\ ReadInv(d) /\ ServerInv
  BY DEF IInv
<1>2. CASE MayRetry(d) /\ pc' = [pc EXCEPT ![d] = "fetch"]
           /\ tries' = [tries EXCEPT ![d] = @ + 1]
           /\ UNCHANGED <<used, goal, todo, cand, cur, pre, buf, mine, staged,
                          outcome>>
  <2>1. TypeOK'
    BY <1>1, <1>2, ConstantsAssumption
       DEF CheckUnstable, MayRetry, TypeOK, server, Pcs
  <2>2. ReadInv(d)'
    BY <1>1, <1>2 DEF CheckUnstable, TypeOK, ReadInv, server
  <2>3. PublishInv(d)'
    BY <1>1, <1>2, PublishKeeps DEF CheckUnstable
  <2>4. \A e \in Device \ {d} : Same(e)
    BY <1>1, <1>2 DEF Same, TypeOK
  <2> QED BY <1>1, <1>2, <2>1, <2>2, <2>3, <2>4, OwnStep DEF CheckUnstable, TypeOK
<1>3. CASE Abort(d)
  BY <1>1, <1>3, AbortStep DEF CheckUnstable, TypeOK
<1> QED BY <1>2, <1>3 DEF CheckUnstable

\* The manifest staged over a version of the file is one to publish.
LEMMA StageBased ==
    ASSUME IInv, NEW d \in Device, NEW c, Version(c),
           Stage(d, c.m.gen, c.m.snap), log' = log
    PROVE  /\ Based(mine[d])'
           /\ mine'[d] \in Manifest /\ mine'[d] # NoManifest
           /\ mine'[d].gen = c.m.gen + 1
           /\ mine' \in [Device -> Manifest \cup {NoManifest}]
           /\ \A e \in Device \ {d} : mine'[e] = mine[e]
           /\ used \subseteq used' /\ used' \subseteq Snap
<1>1. TypeOK /\ ServerInv
  BY DEF IInv
<1>2. PICK new \in Snap \ used :
        /\ mine' = [mine EXCEPT ![d] =
                [gen |-> c.m.gen + 1, snap |-> new, parent |-> c.m.snap]]
        /\ used' = used \cup {new}
  BY DEF Stage
<1>3. /\ c.m \in log /\ c.m \in Manifest /\ c.m.gen \in Nat \ {0}
      /\ c.m.snap \in Snap /\ c.m.snap \in used
  BY <1>1 DEF Version, ServerInv, Candidate, Manifest
<1>4. mine'[d] = [gen |-> c.m.gen + 1, snap |-> new, parent |-> c.m.snap]
  BY <1>1, <1>2 DEF TypeOK
<1>5. mine'[d] \in Manifest
  BY <1>3, <1>4 DEF Manifest
<1>6. Based(mine[d])'
  BY <1>2, <1>3, <1>4, <1>5 DEF Based
<1>7. mine' \in [Device -> Manifest \cup {NoManifest}]
  BY <1>1, <1>2, <1>4, <1>5 DEF TypeOK
<1>8. mine'[d] # NoManifest
  BY <1>5, ManifestNotNull
<1>9. \A e \in Device \ {d} : mine'[e] = mine[e]
  BY <1>1, <1>2 DEF TypeOK
<1>10. used \subseteq used' /\ used' \subseteq Snap
  BY <1>1, <1>2 DEF TypeOK
<1> QED BY <1>4, <1>5, <1>6, <1>7, <1>8, <1>9, <1>10

LEMMA SyncLoadedStep == ASSUME IInv, NEW d \in Device, SyncLoaded(d)  PROVE IInv'
<1>1. TypeOK /\ PublishInv(d) /\ ReadInv(d) /\ ServerInv
  BY DEF IInv
<1>2. PICK c : c = Best(d)
  OBVIOUS
<1>3. Version(c) /\ Stage(d, c.m.gen, c.m.snap) /\ Read(d, "check")
  BY <1>1, <1>2, BestIsOnly DEF SyncLoaded
<1>4. log' = log
  BY DEF SyncLoaded, server
<1>5. /\ mine'[d] # NoManifest /\ Based(mine[d])'
      /\ mine' \in [Device -> Manifest \cup {NoManifest}]
      /\ \A e \in Device \ {d} : mine'[e] = mine[e]
      /\ used \subseteq used' /\ used' \subseteq Snap
  BY <1>3, <1>4, StageBased
<1>6. ReadInv(d)' /\ goal'[d] = "check"
  BY <1>1, <1>3, ReadKeeps DEF Goals
<1>7. TypeOK'
  BY <1>1, <1>3, <1>5, ReadKeeps DEF SyncLoaded, TypeOK, server, Goals
<1>8. PublishInv(d)'
  <2>1. outcome[d] = "none" /\ staged'[d] = staged[d] /\ outcome'[d] = outcome[d]
    BY <1>1 DEF SyncLoaded, HasRead, PublishInv
  <2> QED BY <1>1, <1>4, <1>5, <1>6, <2>1 DEF PublishInv, Based
<1>9. \A e \in Device \ {d} : Same(e)
  BY <1>1, <1>3, <1>5 DEF Same, SyncLoaded, Read, TypeOK
<1> QED BY <1>1, <1>5, <1>6, <1>7, <1>8, <1>9, OwnStep DEF SyncLoaded, TypeOK

LEMMA ForceLoadedStep == ASSUME IInv, NEW d \in Device, ForceLoaded(d)  PROVE IInv'
<1>1. TypeOK /\ PublishInv(d) /\ ReadInv(d) /\ ServerInv
  BY DEF IInv
<1>2. PICK c : c = Best(d)
  OBVIOUS
<1>3. cand[d] # {}
  BY <1>1 DEF ForceLoaded, HasRead, ReadInv
<1>4. Version(c) /\ Stage(d, c.m.gen, c.m.snap) /\ Read(d, "recover")
  BY <1>1, <1>2, <1>3, BestIsOnly DEF ForceLoaded
<1>5. log' = log
  BY DEF ForceLoaded, server
<1>6. /\ mine'[d] # NoManifest /\ Based(mine[d])' /\ mine'[d] \in Manifest
      /\ mine' \in [Device -> Manifest \cup {NoManifest}]
      /\ \A e \in Device \ {d} : mine'[e] = mine[e]
      /\ used \subseteq used' /\ used' \subseteq Snap
  BY <1>4, <1>5, StageBased
<1>7. ReadInv(d)' /\ goal'[d] = "recover"
  BY <1>1, <1>4, ReadKeeps DEF Goals
<1>8. TypeOK'
  BY <1>1, <1>4, <1>6, ReadKeeps DEF ForceLoaded, TypeOK, server, Goals
<1>9. PublishInv(d)'
  <2>1. outcome[d] = "none" /\ staged'[d] = mine'[d] /\ outcome'[d] = outcome[d]
    BY <1>1 DEF ForceLoaded, HasRead, PublishInv, TypeOK
  <2> QED BY <1>1, <1>5, <1>6, <1>7, <2>1 DEF PublishInv, Based
<1>10. \A e \in Device \ {d} : Same(e)
  BY <1>1, <1>4, <1>6 DEF Same, ForceLoaded, Read, TypeOK
<1> QED BY <1>1, <1>6, <1>7, <1>8, <1>9, <1>10, OwnStep DEF ForceLoaded, TypeOK

LEMMA UpToDateStep == ASSUME IInv, NEW d \in Device, UpToDate(d)  PROVE IInv'
  BY ReportStep DEF UpToDate

\* Two manifests of one generation and one snapshot, the one committed and the
\* other derived from a committed one, are the same manifest.
LEMMA SameIsEqual ==
    ASSUME ServerInv, NEW m, NEW b, Based(m), m.gen > 1,
           b \in log, b \in Manifest, SameManifest(m, b)
    PROVE  m = b
<1>1. m \in Manifest /\ m.gen = b.gen /\ m.snap = b.snap /\ m.gen \in Nat
  BY DEF Based, SameManifest, Manifest
<1>2. PICK p : p \in log /\ p.gen = m.gen - 1 /\ p.snap = m.parent
  BY DEF Based
<1>3. PICK q : q \in log /\ q.gen = b.gen - 1 /\ q.snap = b.parent
  BY <1>1 DEF ServerInv, Chain
<1>4. p = q
  BY <1>1, <1>2, <1>3 DEF ServerInv, Chain
<1> QED BY <1>1, <1>2, <1>3, <1>4 DEF Manifest

\* The generation of a publishable manifest is above the first.
LEMMA BasedAboveFirst ==
    ASSUME TypeOK, NEW m, Based(m)  PROVE  m.gen > 1 /\ m.gen \in Nat
<1>1. PICK p : p \in log /\ p.gen = m.gen - 1
  BY DEF Based
<1>2. p.gen \in Nat \ {0} /\ m.gen \in Nat
  BY <1>1 DEF TypeOK, Based, Manifest
<1> QED BY <1>1, <1>2

\* A generation up to the one in force has been committed.
LEMMA Taken ==
    ASSUME ServerInv, NEW g \in Nat \ {0}, g <= Current.gen
    PROVE  \E n \in log : n.gen = g
<1>1. Current.gen \in Nat
  BY DEF ServerInv, Current, Manifest
<1>2. g \in 1 .. Current.gen
  BY <1>1
<1> QED BY <1>2 DEF ServerInv

LEMMA RecoveredStep == ASSUME IInv, NEW d \in Device, Recovered(d)  PROVE IInv'
<1>1. TypeOK /\ PublishInv(d) /\ ReadInv(d) /\ ServerInv
  BY DEF IInv
<1>2. cand[d] # {} /\ pc[d] = "fetch" /\ goal[d] = "recover"
  BY <1>1 DEF Recovered, HasRead, ReadInv
<1>3. PICK b : b = Best(d).m
  OBVIOUS
<1>4. b \in log /\ b \in Manifest /\ b.gen \in Nat /\ b.gen <= Current.gen
  BY <1>1, <1>2, <1>3, BestIsOnly DEF Version, ServerInv, TypeOK, Manifest
<1>5. Based(mine[d]) /\ mine[d].gen > 1 /\ mine[d].gen \in Nat
  BY <1>1, <1>2, BasedAboveFirst DEF PublishInv
<1>6. CASE SameManifest(mine[d], b) /\ Report(d, "won")
  BY <1>1, <1>4, <1>5, <1>6, SameIsEqual, ReportStep
<1>7. CASE b.gen >= mine[d].gen /\ Report(d, "lost")
  <2>1. Current.gen \in Nat
    BY <1>1 DEF ServerInv, Current, Manifest
  <2>2. mine[d].gen <= Current.gen
    BY <1>4, <1>5, <1>7, <2>1
  <2> QED BY <1>1, <1>5, <1>7, <2>2, Taken, ReportStep
<1>8. CASE Read(d, "check")
           /\ UNCHANGED <<server, used, fails, mine, staged, outcome>>
  <2>1. ReadInv(d)' /\ goal'[d] = "check"
    BY <1>1, <1>8, ReadKeeps DEF Goals
  <2>2. TypeOK'
    BY <1>1, <1>8, ReadKeeps DEF TypeOK, server, Goals
  <2>3. PublishInv(d)'
    BY <1>1, <1>2, <1>8, <2>1 DEF PublishInv, Based, server
  <2>4. \A e \in Device \ {d} : Same(e)
    BY <1>1, <1>8 DEF Same, Read, TypeOK
  <2> QED BY <1>1, <1>8, <2>1, <2>2, <2>3, <2>4, OwnStep DEF TypeOK
<1> QED BY <1>2, <1>3, <1>6, <1>7, <1>8 DEF Recovered

LEMMA CheckedStep == ASSUME IInv, NEW d \in Device, Checked(d)  PROVE IInv'
<1>1. TypeOK /\ PublishInv(d) /\ ReadInv(d) /\ ServerInv
  BY DEF IInv
<1>2. cand[d] # {} /\ pc[d] = "fetch" /\ todo[d] = {} /\ goal[d] = "check"
  BY <1>1 DEF Checked, HasRead, ReadInv
<1>3. PICK c : c = Best(d)
  OBVIOUS
<1>4. /\ cand[d] = {c} /\ Version(c) /\ c.m.gen + 1 >= mine[d].gen
      /\ c.m.gen \in Nat /\ c.m.gen <= Current.gen /\ Current.gen \in Nat
  BY <1>1, <1>2, <1>3, BestIsOnly
     DEF Version, ServerInv, TypeOK, Manifest, Candidate, Current
<1>5. Based(mine[d]) /\ mine[d].gen > 1 /\ mine[d].gen \in Nat
  BY <1>1, <1>2, BasedAboveFirst DEF PublishInv
<1>6. CASE ~Extends(mine[d], c.m) /\ OutOfTurn(d)
  <2>1. mine[d].gen <= Current.gen
    BY <1>4, <1>5, <1>6 DEF Extends
  <2> QED BY <1>1, <1>5, <1>6, <2>1, Taken, ReportStep DEF OutOfTurn
<1>7. CASE /\ Extends(mine[d], c.m) /\ pc' = [pc EXCEPT ![d] = "put"]
           /\ UNCHANGED <<server, used, fails, goal, todo, cand, cur, pre, buf,
                          tries, mine, staged, outcome>>
  <2>1. TypeOK'
    BY <1>1, <1>7 DEF TypeOK, server, Pcs
  <2>2. ReadInv(d)'
    <3>1. Version(c)'
      BY <1>4, <1>7 DEF Version, server, Current
    <3>2. cand'[d] = {c} /\ pc'[d] = "put" /\ goal'[d] = "check" /\ mine'[d] = mine[d]
      BY <1>1, <1>2, <1>4, <1>7 DEF TypeOK
    <3> QED BY <1>4, <1>7, <3>1, <3>2 DEF ReadInv, Extends
  <2>3. PublishInv(d)'
    BY <1>1, <1>2, <1>7, PublishKeeps
  <2>4. \A e \in Device \ {d} : Same(e)
    BY <1>1, <1>7 DEF Same, TypeOK
  <2> QED BY <1>1, <1>7, <2>1, <2>2, <2>3, <2>4, OwnStep DEF TypeOK
<1> QED BY <1>2, <1>3, <1>6, <1>7 DEF Checked

LEMMA ConfirmedStep == ASSUME IInv, NEW d \in Device, Confirmed(d)  PROVE IInv'
<1>1. mine[d] \in log
  BY DEF IInv, PublishInv, Confirmed, HasRead
<1> QED BY <1>1, ReportStep DEF Confirmed

LEMMA ConflictedStep == ASSUME IInv, NEW d \in Device, Conflicted(d)  PROVE IInv'
<1>1. TypeOK /\ PublishInv(d) /\ ServerInv /\ goal[d] = "conflict"
  BY DEF IInv, Conflicted, HasRead
<1>2. mine[d].gen > 1 /\ mine[d].gen \in Nat /\ mine[d].gen <= Current.gen
  BY <1>1, BasedAboveFirst DEF PublishInv
<1> QED BY <1>1, <1>2, Taken, ReportStep DEF Conflicted

LEMMA VanishedStep == ASSUME IInv, NEW d \in Device, Vanished(d)  PROVE IInv'
  BY AbortStep DEF Vanished, IInv, TypeOK

LEMMA FailStep == ASSUME IInv, NEW d \in Device, Fail(d)  PROVE IInv'
<1>1. fails' \in 0 .. MaxFails
  BY ConstantsAssumption DEF Fail, IInv, TypeOK
<1> QED BY <1>1, AbortStep DEF Fail

\* What a device about to PUT holds.
LEMMA AboutToPut ==
    ASSUME IInv, NEW d \in Device, pc[d] = "put"
    PROVE  /\ Version(Best(d)) /\ Based(mine[d])
           /\ mine[d].gen = Best(d).m.gen + 1 /\ goal[d] = "check"
<1>1. ReadInv(d) /\ PublishInv(d) /\ cand[d] # {} /\ goal[d] = "check"
  BY DEF IInv, ReadInv
<1> QED BY <1>1, BestIsOnly DEF PublishInv

LEMMA PutAcceptedStep == ASSUME IInv, NEW d \in Device, PutAccepted(d)  PROVE IInv'
<1>1. TypeOK /\ PublishInv(d) /\ ReadInv(d) /\ ServerInv /\ LateInv
  BY DEF IInv
<1>2. PICK c, m : c = Best(d) /\ m = mine[d]
  OBVIOUS
<1>3. Version(c) /\ Based(m) /\ m.gen = c.m.gen + 1
  BY <1>2, AboutToPut DEF PutAccepted
<1>4. /\ ServerInv' /\ Evolves /\ clock' \in Nat /\ log' = log \cup {m}
      /\ files' \in [FileId -> [m : Manifest, etag : Nat \ {0}] \cup {NoFile}]
      /\ log' \subseteq Manifest
  BY <1>2, <1>3, AcceptedWrite DEF PutAccepted
<1>5. ReadInv(d)' /\ goal'[d] = "confirm"
  BY <1>1, ReadKeeps DEF PutAccepted, Goals
<1>6. TypeOK'
  BY <1>1, <1>4, ReadKeeps DEF PutAccepted, Store, TypeOK, Goals
<1>7. \A r : Based(r) => Based(r)'
  BY <1>4, BasedStable
<1>8. PublishInv(d)'
  <2>1. mine'[d] = m /\ staged' = staged /\ outcome'[d] = "none"
    BY <1>1, <1>2 DEF PutAccepted, PublishInv
  <2>2. m # NoManifest
    BY <1>3, ManifestNotNull DEF Based
  <2> QED BY <1>1, <1>2, <1>3, <1>4, <1>5, <1>7, <2>1, <2>2 DEF PublishInv
<1>9. \A e \in Device \ {d} : Same(e)
  BY <1>1 DEF Same, PutAccepted, Read, TypeOK
<1>10. \A e \in Device \ {d} : ReadInv(e)' /\ PublishInv(e)'
  BY <1>4, <1>9, Bystander
<1>11. LateInv'
  <2>1. \A v : Version(v) => Version(v)'
    BY <1>1, <1>4, VersionStable
  <2> QED BY <1>1, <1>7, <2>1 DEF LateInv, PutAccepted
<1> QED BY <1>4, <1>5, <1>6, <1>8, <1>10, <1>11 DEF IInv

LEMMA PutRefusedStep == ASSUME IInv, NEW d \in Device, PutRefused(d)  PROVE IInv'
<1>1. TypeOK /\ PublishInv(d) /\ ReadInv(d) /\ ServerInv
  BY DEF IInv
<1>2. PICK c : c = Best(d)
  OBVIOUS
<1>3. Version(c) /\ Based(mine[d]) /\ mine[d].gen = c.m.gen + 1
  BY <1>2, AboutToPut DEF PutRefused
<1>4. mine[d].gen <= Current.gen
  <2>1. c.etag # clock /\ c.etag \in Nat /\ clock \in Nat
    BY <1>1, <1>2, <1>3
       DEF PutRefused, IfMatch, ServerInv, Version, Candidate, TypeOK
  <2>2. c.m.gen < Current.gen /\ c.m.gen \in Nat /\ Current.gen \in Nat
    BY <1>1, <1>3, <2>1 DEF Version, Candidate, Manifest, ServerInv, Current
  <2> QED BY <1>3, <2>2
<1>5. ReadInv(d)' /\ goal'[d] = "conflict"
  BY <1>1, ReadKeeps DEF PutRefused, Goals
<1>6. TypeOK'
  BY <1>1, ReadKeeps DEF PutRefused, TypeOK, server, Goals
<1>7. PublishInv(d)'
  <2>1. mine[d] # NoManifest
    BY <1>3, ManifestNotNull DEF Based
  <2>2. outcome'[d] = "none" /\ mine' = mine /\ staged' = staged
    BY <1>1 DEF PutRefused, PublishInv
  <2> QED BY <1>1, <1>4, <1>5, <2>1, <2>2
          DEF PublishInv, PutRefused, Based, server, Current
<1>8. \A e \in Device \ {d} : Same(e)
  BY <1>1 DEF Same, PutRefused, Read, TypeOK
<1> QED BY <1>1, <1>5, <1>6, <1>7, <1>8, OwnStep DEF PutRefused, TypeOK

LEMMA WriteAbandonedStep ==
    ASSUME IInv, NEW d \in Device, WriteAbandoned(d)  PROVE IInv'
<1>1. TypeOK /\ PublishInv(d) /\ ReadInv(d) /\ ServerInv /\ LateInv
  BY DEF IInv
<1>2. PICK c : c = Best(d)
  OBVIOUS
<1>3. /\ pc[d] = "put" /\ Version(c) /\ Based(mine[d])
      /\ mine[d].gen = c.m.gen + 1
  BY <1>1, <1>2, AboutToPut DEF WriteAbandoned, ReadInv
<1>4. /\ late' = late \cup {[m |-> mine[d], at |-> c]} /\ Abort(d)
      /\ UNCHANGED <<files, clock, log, resets, used, mine, staged>>
  BY <1>2, <1>3 DEF WriteAbandoned, Abort
<1>5. ReadInv(d)' /\ goal'[d] = "none" /\ pc'[d] = "idle"
  BY <1>1, <1>4, LeaveKeeps DEF Abort
<1>6. [m |-> mine[d], at |-> c] \in Late
  BY <1>3 DEF Late, Based, Version
<1>7. fails' \in 0 .. MaxFails
  BY <1>1, ConstantsAssumption DEF WriteAbandoned, TypeOK
<1>8. TypeOK'
  BY <1>1, <1>4, <1>6, <1>7, LeaveKeeps DEF Abort, TypeOK
<1>9. ServerInv' /\ Evolves /\ clock' \in Nat
  BY <1>1, <1>4 DEF ServerInv, Chain, Current, Evolves, TypeOK
<1>10. \A v : Version(v) => Version(v)'
  BY <1>1, <1>9, VersionStable
<1>11. \A r : Based(r) => Based(r)'
  BY <1>9, BasedStable
<1>12. LateInv'
  <2> SUFFICES ASSUME NEW r \in late'
               PROVE  /\ r \in Late /\ Based(r.m)' /\ Version(r.at)'
                      /\ r.m.gen = r.at.m.gen + 1
    BY DEF LateInv
  <2>1. CASE r \in late
    BY <1>1, <1>10, <1>11, <2>1 DEF LateInv
  <2>2. CASE r = [m |-> mine[d], at |-> c]
    BY <1>3, <1>6, <1>10, <1>11, <2>2
  <2> QED BY <1>4, <2>1, <2>2
<1>13. PublishInv(d)'
  BY <1>1, <1>4, <1>5 DEF PublishInv, Abort, TypeOK, Based
<1>14. \A e \in Device \ {d} : Same(e)
  BY <1>1, <1>4 DEF Same, Abort, Leave, TypeOK
<1>15. \A e \in Device \ {d} : ReadInv(e)' /\ PublishInv(e)'
  BY <1>9, <1>14, Bystander
<1> QED BY <1>5, <1>8, <1>9, <1>12, <1>13, <1>15 DEF IInv

LEMMA LateWriteStep == ASSUME IInv, NEW r \in late, LateWrite(r)  PROVE IInv'
<1>1. TypeOK /\ ServerInv /\ LateInv
  BY DEF IInv
<1>2. /\ r \in Late /\ Version(r.at) /\ Based(r.m) /\ r.m.gen = r.at.m.gen + 1
  BY <1>1 DEF LateInv
<1>3. r.at # NewFile
  BY <1>2 DEF Version, NewFile
<1>4. used' = used /\ late' \subseteq late /\ \A e \in Device : Same(e)
  BY DEF LateWrite, Same, reading
<1>5. /\ ServerInv' /\ Evolves /\ clock' \in Nat
      /\ files' \in [FileId -> [m : Manifest, etag : Nat \ {0}] \cup {NoFile}]
      /\ log' \subseteq Manifest /\ resets' = resets
  <2>1. CASE IfMatch(r.at) /\ Store(r.at.file, r.m)
    <3>1. PICK c, m : c = r.at /\ m = r.m
      OBVIOUS
    <3> QED BY <1>2, <1>4, <2>1, <3>1, AcceptedWrite DEF Store
  <2>2. CASE UNCHANGED <<files, clock, log, resets>>
    BY <1>1, <1>4, <2>2 DEF ServerInv, Chain, Current, Evolves, TypeOK
  <2> QED BY <1>3, <2>1, <2>2 DEF LateWrite
<1>6. TypeOK'
  BY <1>1, <1>4, <1>5 DEF LateWrite, TypeOK, reading
<1>7. \A v : Version(v) => Version(v)'
  BY <1>1, <1>5, VersionStable
<1>8. \A m : Based(m) => Based(m)'
  BY <1>5, BasedStable
<1>9. LateInv'
  BY <1>1, <1>4, <1>7, <1>8 DEF LateInv
<1>10. \A e \in Device : ReadInv(e)' /\ PublishInv(e)'
  BY <1>4, <1>5, Bystander
<1> QED BY <1>5, <1>6, <1>9, <1>10 DEF IInv

LEMMA NextStep == ASSUME MaxResets = 0, IInv, [Next]_vars  PROVE IInv'
<1>1. TypeOK /\ ServerInv
  BY DEF IInv
<1>2. CASE UNCHANGED vars
  <2>1. TypeOK' /\ ServerInv' /\ Evolves /\ clock' \in Nat /\ late' = late
    BY <1>1, <1>2 DEF vars, TypeOK, ServerInv, Chain, Current, Evolves
  <2>2. \A e \in Device : Same(e)
    BY <1>2 DEF vars, Same
  <2>3. \A e \in Device : ReadInv(e)' /\ PublishInv(e)'
    BY <2>1, <2>2, Bystander
  <2>4. \A v : Version(v) => Version(v)'
    BY <1>1, <2>1, VersionStable
  <2>5. \A m : Based(m) => Based(m)'
    BY <2>1, BasedStable
  <2>6. LateInv'
    BY <2>1, <2>4, <2>5 DEF IInv, LateInv
  <2> QED BY <2>1, <2>3, <2>6 DEF IInv
<1>3. ASSUME NEW d \in Device,
             Start(d) \/ Step(d) \/ WriteAbandoned(d) \/ Fail(d)
      PROVE  IInv'
  <2>1. ~PostAccepted(d)
    BY DEF IInv, ReadInv, PostAccepted
  <2> QED
    BY <1>3, <2>1, StartStep, ListStep, FetchEtagStep, FetchBytesStep,
       CheckStableStep, CheckUnstableStep, UpToDateStep, SyncLoadedStep,
       ForceLoadedStep, RecoveredStep, CheckedStep, ConfirmedStep,
       ConflictedStep, VanishedStep, PutAcceptedStep, PutRefusedStep,
       WriteAbandonedStep, FailStep DEF Step
<1>4. ASSUME NEW r \in late, LateWrite(r)  PROVE IInv'
  BY <1>4, LateWriteStep
<1>5. ~Reset
  BY <1>1 DEF Reset, ServerInv
<1> QED BY <1>2, <1>3, <1>4, <1>5 DEF Next

\* A step leaves the file alone or puts in force a manifest never written
\* before, of the next generation and derived from the one it replaces.
LEMMA FileStep ==
    ASSUME MaxResets = 0, IInv, [Next]_vars
    PROVE  \/ files' = files
           \/ /\ \A f \in FileId \ {1} : files'[f] = files[f]
              /\ Current' \notin log /\ Current' \in Manifest
              /\ Current'.gen = Current.gen + 1
              /\ Current'.parent = Current.snap
              /\ Current'.snap # Current.snap
<1>1. TypeOK /\ ServerInv
  BY DEF IInv
<1>2. ASSUME NEW c, NEW m, Version(c), Based(m), m.gen = c.m.gen + 1,
             IfMatch(c), Store(c.file, m), used' = used
      PROVE  /\ \A f \in FileId \ {1} : files'[f] = files[f]
             /\ Current' \notin log /\ Current' \in Manifest
             /\ Current'.gen = Current.gen + 1
             /\ Current'.parent = Current.snap
             /\ Current'.snap # Current.snap
  <2>1. \A f \in FileId \ {1} : files'[f] = files[f]
    BY <1>1, <1>2 DEF Store, Version, TypeOK
  <2>2. /\ Current' = m /\ m \notin log /\ m.gen = Current.gen + 1
        /\ m.parent = Current.snap
    BY <1>2, AcceptedWrite
  <2> QED BY <1>2, <2>1, <2>2 DEF Based
<1>3. CASE UNCHANGED vars
  BY <1>3 DEF vars
<1>4. ASSUME NEW d \in Device, PutAccepted(d)
      PROVE  \E c, m : /\ Version(c) /\ Based(m) /\ m.gen = c.m.gen + 1
                       /\ IfMatch(c) /\ Store(c.file, m) /\ used' = used
  BY <1>4, AboutToPut DEF PutAccepted
<1>5. ASSUME NEW d \in Device, PostAccepted(d)  PROVE FALSE
  BY <1>5 DEF IInv, ReadInv, PostAccepted
<1>6. ASSUME NEW d \in Device,
             Start(d) \/ Step(d) \/ WriteAbandoned(d) \/ Fail(d),
             ~PutAccepted(d)
      PROVE  files' = files
  BY <1>5, <1>6
     DEF Step, Start, WriteAbandoned, Fail, server, List, FetchEtag, FetchBytes,
         CheckStable, CheckUnstable, UpToDate, SyncLoaded, ForceLoaded, Recovered,
         Checked, OutOfTurn, Confirmed, Conflicted, Vanished, PutRefused, Report
<1>7. ASSUME NEW r \in late, LateWrite(r)
      PROVE  \/ files' = files
             \/ /\ Version(r.at) /\ Based(r.m) /\ r.m.gen = r.at.m.gen + 1
                /\ IfMatch(r.at) /\ Store(r.at.file, r.m) /\ used' = used
  <2>1. Version(r.at) /\ Based(r.m) /\ r.m.gen = r.at.m.gen + 1
    BY DEF IInv, LateInv
  <2>2. r.at # NewFile
    BY <2>1 DEF Version, NewFile
  <2> QED BY <1>7, <2>1, <2>2 DEF LateWrite
<1>8. ~Reset
  BY <1>1 DEF Reset, ServerInv
<1> QED BY <1>2, <1>3, <1>4, <1>5, <1>6, <1>7, <1>8 DEF Next

\* With one file, what a reader picks is that file's manifest.
LEMMA HeadIsCurrent == ASSUME ServerInv  PROVE Head = Current
<1>1. files[1] # NoFile
  BY DEF ServerInv, NoFile
<1>2. Existing = {1}
  BY <1>1, ConstantsAssumption DEF ServerInv, Existing
<1>3. PICK c : c = [file |-> 1, m |-> files[1].m, etag |-> files[1].etag]
  OBVIOUS
<1>4. NotAbove(c, c)
  BY <1>3 DEF NotAbove
<1>5. Newest({c}) = c
  <2>1. \A b : b \in {c} /\ (\A a \in {c} : NotAbove(a, b)) <=> b = c
    BY <1>4
  <2>2. (CHOOSE b : b \in {c} /\ \A a \in {c} : NotAbove(a, b)) = c
    BY <2>1
  <2> QED BY <2>2 DEF Newest
<1>6. {[file |-> f, m |-> files[f].m, etag |-> files[f].etag] : f \in Existing} = {c}
  BY <1>2, <1>3
<1> QED BY <1>3, <1>5, <1>6 DEF Head, Current

-----------------------------------------------------------------------------
(* When the folder may be emptied at any time: what a reader then knows.   *)

LEMMA Least ==
    ASSUME NEW T \in SUBSET Nat, T # {}  PROVE \E x \in T : \A y \in T : x <= y
<1>1. OpToRel(<, Nat) = {ss \in Nat \X Nat : ss[1] < ss[2]}
  BY DEF OpToRel
<1>2. PICK x \in T : \A y \in T : ~ (<<y, x>> \in OpToRel(<, Nat))
  BY NatLessThanWellFounded, WFMin
<1>3. \A y \in T : x <= y
  <2> TAKE y \in T
  <2>1. x \in Nat /\ y \in Nat
    OBVIOUS
  <2>2. y < x => <<y, x>> \in {ss \in Nat \X Nat : ss[1] < ss[2]}
    BY <2>1
  <2>3. ~(y < x)
    BY <1>1, <1>2, <2>2
  <2> QED BY <2>1, <2>3
<1> QED BY <1>3

\* Among finitely many candidates there is a newest one.
LEMMA NewestExists ==
    ASSUME NEW C \in SUBSET Candidate, IsFiniteSet(C), C # {}
    PROVE  Newest(C) \in C
<1> DEFINE U(r) == {q \in C : ~NotAbove(q, r)}
           T == {Cardinality(U(r)) : r \in C}
<1>1. ASSUME NEW r \in C PROVE IsFiniteSet(U(r)) /\ Cardinality(U(r)) \in Nat
  <2>1. U(r) \in SUBSET C
    OBVIOUS
  <2> HIDE DEF U
  <2> QED BY <2>1, FS_Subset, FS_CardinalityType
<1>2. PICK r \in C : \A q \in C : Cardinality(U(r)) <= Cardinality(U(q))
  <2>1. T \in SUBSET Nat /\ T # {}
    BY <1>1
  <2>2. PICK x \in T : \A y \in T : x <= y
    <3> HIDE DEF T
    <3> QED BY <2>1, Least
  <2> HIDE DEF U
  <2> QED BY <2>2
<1>3. \A c \in C : c.m.gen \in Nat /\ c.m.snap \in Nat /\ c.file \in Nat
  BY ConstantsAssumption DEF Candidate, Manifest
<1>4. ASSUME NEW q \in C PROVE NotAbove(q, r)
  <2>1. SUFFICES ASSUME ~NotAbove(q, r) PROVE FALSE
    OBVIOUS
  <2>2. \A p \in C : NotAbove(p, r) => NotAbove(p, q)
    BY <1>3, <2>1 DEF NotAbove
  <2>3. NotAbove(q, q)
    BY <1>3 DEF NotAbove
  <2>4. U(q) \in SUBSET U(r) /\ U(q) # U(r)
    BY <2>1, <2>2, <2>3
  <2> HIDE DEF U
  <2>5. Cardinality(U(q)) <= Cardinality(U(r)) /\ Cardinality(U(q)) # Cardinality(U(r))
    BY <1>1, <2>4, FS_Subset
  <2> QED BY <1>1, <1>2, <2>5
<1>5. \E b \in C : \A a \in C : NotAbove(a, b)
  BY <1>4
<1> QED BY <1>5 DEF Newest

\* A version that was read: as long as the file has that etag, it has that manifest.
Seen(c) ==
    /\ c \in Candidate /\ c.etag <= clock
    /\ files[c.file].etag = c.etag => files[c.file].m = c.m

\* Whatever becomes of the folder, the bytes framed by two equal etags are what the
\* file held, and a write that depends on them extends them.
ReadTrue(d) ==
    /\ IsFiniteSet(cand[d]) /\ \A c \in cand[d] : Seen(c)
    /\ pc[d] \in {"bytes", "etag"} => cur[d] \in FileId /\ pre[d] \in 1 .. clock
    /\ pc[d] = "etag" => /\ buf[d] \in Manifest
                         /\ files[cur[d]].etag = pre[d] => files[cur[d]].m = buf[d]
    /\ goal[d] \in {"recover", "check", "confirm", "conflict"} => mine[d] \in Manifest
    /\ pc[d] \in {"put", "post"} => goal[d] = "check"
    /\ pc[d] = "put" => cand[d] # {} /\ mine[d].gen = Best(d).m.gen + 1

LateTrue ==
    \A r \in late : r.at # NewFile => Seen(r.at) /\ r.m.gen = r.at.m.gen + 1

AnyInv ==
    /\ TypeOK /\ \A f \in FileId : files[f].etag <= clock
    /\ LateTrue /\ \A d \in Device : ReadTrue(d)

LEMMA BestIsSeen ==
    ASSUME AnyInv, NEW d \in Device, cand[d] # {}
    PROVE  Best(d) \in cand[d] /\ Seen(Best(d)) /\ Best(d) \in Candidate
<1>1. ReadTrue(d)
  BY DEF AnyInv
<1>2. cand[d] \in SUBSET Candidate /\ IsFiniteSet(cand[d])
  BY <1>1 DEF ReadTrue, Seen
<1>3. Best(d) \in cand[d]
  BY <1>2, NewestExists DEF Best
<1> QED BY <1>1, <1>3 DEF ReadTrue, Seen

\* What a step may do to the files: nothing, store one, or lose them all.
Stored(f, m) == clock' = clock + 1 /\ files' = [files EXCEPT ![f] = [m |-> m, etag |-> clock + 1]]
FilesStep ==
    \/ UNCHANGED <<files, clock>>
    \/ \E f \in FileId, m \in Manifest : Stored(f, m)
    \/ clock' = clock /\ files' = [f \in FileId |-> NoFile]

LEMMA SeenStays ==
    ASSUME AnyInv, FilesStep
    PROVE  /\ files' \in [FileId -> [m : Manifest, etag : Nat \ {0}] \cup {NoFile}]
           /\ clock' \in Nat /\ clock <= clock' /\ \A f \in FileId : files'[f].etag <= clock'
           /\ \A c : Seen(c) => Seen(c)'
           /\ \A d \in Device : Same(d) => ReadTrue(d)'
<1> USE DEF AnyInv
<1>1. /\ files \in [FileId -> [m : Manifest, etag : Nat \ {0}] \cup {NoFile}] /\ clock \in Nat
      /\ \A f \in FileId : files[f].etag <= clock
  BY DEF TypeOK
<1>2. /\ files' \in [FileId -> [m : Manifest, etag : Nat \ {0}] \cup {NoFile}]
      /\ clock' \in Nat /\ clock <= clock' /\ \A f \in FileId : files'[f].etag <= clock'
      /\ \A f \in FileId : files'[f] # files[f] => files'[f].etag = 0 \/ files'[f].etag > clock
  <2>1. CASE UNCHANGED <<files, clock>>
    BY <1>1, <2>1
  <2>2. CASE \E f \in FileId, m \in Manifest : Stored(f, m)
    <3>1. PICK f \in FileId, m \in Manifest : Stored(f, m)
      BY <2>2
    <3>2. /\ clock' = clock + 1
          /\ \A g \in FileId :
                files'[g] = IF g = f THEN [m |-> m, etag |-> clock + 1] ELSE files[g]
      BY <1>1, <3>1 DEF Stored
    <3>3. files' \in [FileId -> [m : Manifest, etag : Nat \ {0}] \cup {NoFile}]
      BY <1>1, <3>1 DEF Stored
    <3>4. \A g \in FileId : files[g].etag \in Nat
      BY <1>1 DEF NoFile
    <3> QED BY <1>1, <3>2, <3>3, <3>4
  <2>3. CASE clock' = clock /\ files' = [f \in FileId |-> NoFile]
    <3>1. NoFile.etag = 0
      BY DEF NoFile
    <3> QED BY <1>1, <2>3, <3>1
  <2> QED BY <2>1, <2>2, <2>3 DEF FilesStep
<1>3. ASSUME NEW f \in FileId, NEW e \in Nat \ {0}, NEW m, e <= clock,
             files[f].etag = e => files[f].m = m
      PROVE  files'[f].etag = e => files'[f].m = m
  <2>1. files'[f] = files[f] \/ files'[f].etag = 0 \/ files'[f].etag > clock
    BY <1>2
  <2>2. files'[f].etag \in Nat
    BY <1>2 DEF NoFile
  <2> QED BY <1>1, <1>3, <2>1, <2>2
<1>4. ASSUME NEW c, Seen(c) PROVE Seen(c)'
  <2>1. c \in Candidate /\ c.file \in FileId /\ c.etag \in Nat \ {0} /\ c.etag <= clock
        /\ (files[c.file].etag = c.etag => files[c.file].m = c.m)
    BY <1>4 DEF Seen, Candidate
  <2>2. files'[c.file].etag = c.etag => files'[c.file].m = c.m
    BY <1>3, <2>1
  <2>3. c.etag <= clock'
    BY <1>1, <1>2, <2>1
  <2> QED BY <2>1, <2>2, <2>3 DEF Seen
<1>5. ASSUME NEW d \in Device, Same(d) PROVE ReadTrue(d)'
  <2>1. ReadTrue(d)
    OBVIOUS
  <2>2. Best(d)' = Best(d)
    BY <1>5 DEF Same, Best
  <2>3. pc[d] \in {"bytes", "etag"} => cur[d] \in FileId /\ pre[d] \in 1 .. clock'
    BY <1>1, <1>2, <2>1 DEF ReadTrue
  <2>4. pc[d] = "etag" => /\ buf[d] \in Manifest
                          /\ files'[cur[d]].etag = pre[d] => files'[cur[d]].m = buf[d]
    <3> SUFFICES ASSUME pc[d] = "etag"
                 PROVE  /\ buf[d] \in Manifest
                        /\ files'[cur[d]].etag = pre[d] => files'[cur[d]].m = buf[d]
      OBVIOUS
    <3>1. cur[d] \in FileId /\ pre[d] \in Nat \ {0} /\ pre[d] <= clock
      BY <1>1, <2>1 DEF ReadTrue
    <3>2. buf[d] \in Manifest /\ (files[cur[d]].etag = pre[d] => files[cur[d]].m = buf[d])
      BY <2>1 DEF ReadTrue
    <3> QED BY <1>3, <3>1, <3>2
  <2>5. \A c \in cand[d] : Seen(c)'
    BY <1>4, <2>1 DEF ReadTrue
  <2> QED BY <1>5, <2>1, <2>2, <2>3, <2>4, <2>5 DEF ReadTrue, Same
<1> QED BY <1>2, <1>4, <1>5

\* A step of device d: the others know what they knew.
LEMMA OwnRead ==
    ASSUME AnyInv, FilesStep, late' = late, NEW d \in Device,
           \A e \in Device \ {d} : Same(e), TypeOK', ReadTrue(d)'
    PROVE  AnyInv'
<1>1. /\ \A f \in FileId : files'[f].etag <= clock'
      /\ \A c : Seen(c) => Seen(c)'
      /\ \A e \in Device : Same(e) => ReadTrue(e)'
  BY SeenStays
<1>2. LateTrue'
  BY <1>1 DEF AnyInv, LateTrue
<1>3. \A e \in Device : ReadTrue(e)'
  <2> TAKE e \in Device
  <2>1. CASE e = d
    BY <2>1
  <2>2. CASE e # d
    BY <1>1, <2>2
  <2> QED BY <2>1, <2>2
<1> QED BY <1>1, <1>2, <1>3 DEF AnyInv

LEMMA AnyInit == Init => AnyInv
<1> SUFFICES ASSUME Init PROVE AnyInv
  OBVIOUS
<1>1. PICK s \in Snap :
        /\ files = [f \in FileId |->
              IF f = 1 THEN [m |-> [gen |-> 1, snap |-> s, parent |-> 0], etag |-> 1]
                       ELSE NoFile]
        /\ log = {[gen |-> 1, snap |-> s, parent |-> 0]}
        /\ used = {s}
  BY DEF Init
<1>2. [gen |-> 1, snap |-> s, parent |-> 0] \in Manifest
  BY ConstantsAssumption DEF Manifest
<1>3. TypeOK
  BY <1>1, <1>2, ConstantsAssumption DEF Init, TypeOK, NoManifest, NoFile, Pcs, Goals
<1>4. \A f \in FileId : files[f].etag <= clock
  BY <1>1 DEF Init, NoFile
<1>5. \A d \in Device : ReadTrue(d)
  BY FS_EmptySet DEF Init, ReadTrue
<1> QED BY <1>3, <1>4, <1>5 DEF AnyInv, LateTrue, Init

\* To leave an operation forgets what was read.
LEMMA LeaveAny ==
    ASSUME AnyInv, NEW d \in Device, Leave(d), UNCHANGED <<clock, late, log, used>>,
           files' = files \/ files' = [f \in FileId |-> NoFile], mine' = mine,
           fails' \in 0 .. MaxFails, resets' \in 0 .. MaxResets,
           staged' \in [Device -> Manifest \cup {NoManifest}],
           outcome' \in [Device -> {"none", "clean", "won", "lost", "error"}],
           \A e \in Device \ {d} : staged'[e] = staged[e] /\ outcome'[e] = outcome[e]
    PROVE  AnyInv'
<1>1. TypeOK
  BY DEF AnyInv
<1>2. FilesStep
  BY DEF FilesStep
<1>3. files' \in [FileId -> [m : Manifest, etag : Nat \ {0}] \cup {NoFile}]
  BY <1>2, SeenStays
<1>4. TypeOK'
  BY <1>1, <1>3, ConstantsAssumption DEF TypeOK, Leave, Pcs, Goals
<1>5. ReadTrue(d)'
  <2>1. /\ pc'[d] = "idle" /\ goal'[d] = "none" /\ cand'[d] = {}
    BY <1>1 DEF Leave, TypeOK
  <2> QED BY <2>1, FS_EmptySet DEF ReadTrue
<1>6. \A e \in Device \ {d} : Same(e)
  BY <1>1 DEF Leave, TypeOK, Same
<1> QED BY <1>2, <1>4, <1>5, <1>6, OwnRead

\* To begin a read forgets the one before.
LEMMA ReadAny ==
    ASSUME AnyInv, NEW d \in Device, NEW g \in Goals, Read(d, g), FilesStep, late' = late,
           log' \subseteq Manifest, used' \subseteq Snap,
           fails' = fails, resets' = resets,
           mine' \in [Device -> Manifest \cup {NoManifest}],
           staged' \in [Device -> Manifest \cup {NoManifest}],
           outcome' \in [Device -> {"none", "clean", "won", "lost", "error"}],
           g \in {"recover", "check", "confirm", "conflict"} => mine'[d] \in Manifest,
           \A e \in Device \ {d} :
                mine'[e] = mine[e] /\ staged'[e] = staged[e] /\ outcome'[e] = outcome[e]
    PROVE  AnyInv'
<1>1. TypeOK
  BY DEF AnyInv
<1>2. files' \in [FileId -> [m : Manifest, etag : Nat \ {0}] \cup {NoFile}] /\ clock' \in Nat
  BY SeenStays
<1>3. TypeOK'
  BY <1>1, <1>2 DEF TypeOK, Read, Pcs
<1>4. ReadTrue(d)'
  <2>1. pc'[d] = "list" /\ goal'[d] = g /\ cand'[d] = {}
    BY <1>1 DEF Read, TypeOK
  <2> QED BY <2>1, FS_EmptySet DEF ReadTrue
<1>5. \A e \in Device \ {d} : Same(e)
  BY <1>1 DEF Read, TypeOK, Same
<1> QED BY <1>3, <1>4, <1>5, OwnRead

LEMMA StartAny == ASSUME AnyInv, NEW d \in Device, Start(d) PROVE AnyInv'
<1>1. TypeOK /\ FilesStep
  BY DEF AnyInv, Start, server, FilesStep
<1>2. /\ late' = late /\ log' = log /\ used' = used /\ fails' = fails
      /\ resets' = resets /\ staged' = staged
      /\ outcome' = [outcome EXCEPT ![d] = "none"]
      /\ mine' \in [Device -> Manifest \cup {NoManifest}]
      /\ \A e \in Device \ {d} : mine'[e] = mine[e] /\ outcome'[e] = outcome[e]
  BY <1>1 DEF Start, server, TypeOK
<1>3. \E g \in {"load", "recover"} : Read(d, g) /\ (g = "recover" => mine'[d] \in Manifest)
  BY <1>1 DEF Start, TypeOK
<1> QED BY <1>1, <1>2, <1>3, ReadAny DEF TypeOK, Goals

LEMMA ListAny == ASSUME AnyInv, NEW d \in Device, List(d) PROVE AnyInv'
<1>1. TypeOK /\ FilesStep /\ late' = late /\ ReadTrue(d)
  BY DEF AnyInv, List, server, FilesStep
<1>2. TypeOK'
  BY <1>1 DEF TypeOK, List, server, Existing, Pcs
<1>3. ReadTrue(d)'
  <2>1. /\ pc'[d] = "fetch" /\ goal'[d] = goal[d] /\ cand'[d] = cand[d] /\ mine'[d] = mine[d]
        /\ files' = files /\ clock' = clock
    BY <1>1 DEF List, TypeOK, server
  <2> QED BY <1>1, <2>1 DEF ReadTrue, Seen
<1>4. \A e \in Device \ {d} : Same(e)
  BY <1>1 DEF List, TypeOK, Same
<1> QED BY <1>1, <1>2, <1>3, <1>4, OwnRead

LEMMA FetchEtagAny == ASSUME AnyInv, NEW d \in Device, FetchEtag(d) PROVE AnyInv'
<1>1. TypeOK /\ FilesStep /\ late' = late /\ ReadTrue(d) /\ \A f \in FileId : files[f].etag <= clock
  BY DEF AnyInv, FetchEtag, server, FilesStep
<1>2. PICK f \in todo[d] : /\ files[f] # NoFile /\ cur' = [cur EXCEPT ![d] = f]
                           /\ pre' = [pre EXCEPT ![d] = files[f].etag]
  BY DEF FetchEtag
<1>3. f \in FileId /\ files[f].etag \in Nat \ {0} /\ files[f].etag \in 1 .. clock
  BY <1>1, <1>2 DEF TypeOK
<1>4. TypeOK'
  BY <1>1, <1>2, <1>3 DEF TypeOK, FetchEtag, server, Pcs
<1>5. ReadTrue(d)'
  <2>1. /\ pc'[d] = "bytes" /\ goal'[d] = goal[d] /\ cand'[d] = cand[d] /\ mine'[d] = mine[d]
        /\ cur'[d] = f /\ pre'[d] = files[f].etag /\ files' = files /\ clock' = clock
    BY <1>1, <1>2 DEF FetchEtag, TypeOK, server
  <2> QED BY <1>1, <1>3, <2>1 DEF ReadTrue, Seen
<1>6. \A e \in Device \ {d} : Same(e)
  BY <1>1 DEF FetchEtag, TypeOK, Same
<1> QED BY <1>1, <1>4, <1>5, <1>6, OwnRead

LEMMA FetchBytesAny == ASSUME AnyInv, NEW d \in Device, FetchBytes(d) PROVE AnyInv'
<1>1. TypeOK /\ FilesStep /\ late' = late /\ ReadTrue(d)
  BY DEF AnyInv, FetchBytes, server, FilesStep
<1>2. cur[d] \in FileId /\ pre[d] \in 1 .. clock /\ files[cur[d]].m \in Manifest
  BY <1>1 DEF FetchBytes, ReadTrue, TypeOK
<1>3. TypeOK'
  BY <1>1, <1>2 DEF TypeOK, FetchBytes, server, Pcs
<1>4. ReadTrue(d)'
  <2>1. /\ pc'[d] = "etag" /\ goal'[d] = goal[d] /\ cand'[d] = cand[d] /\ mine'[d] = mine[d]
        /\ cur'[d] = cur[d] /\ pre'[d] = pre[d] /\ buf'[d] = files[cur[d]].m
        /\ files' = files /\ clock' = clock
    BY <1>1 DEF FetchBytes, TypeOK, server
  <2> QED BY <1>1, <1>2, <2>1 DEF ReadTrue, Seen
<1>5. \A e \in Device \ {d} : Same(e)
  BY <1>1 DEF FetchBytes, TypeOK, Same
<1> QED BY <1>1, <1>3, <1>4, <1>5, OwnRead

LEMMA CheckStableAny == ASSUME AnyInv, NEW d \in Device, CheckStable(d) PROVE AnyInv'
<1>1. TypeOK /\ FilesStep /\ late' = late /\ ReadTrue(d) /\ \A f \in FileId : files[f].etag <= clock
  BY DEF AnyInv, CheckStable, server, FilesStep
<1> DEFINE c == [file |-> cur[d], m |-> buf[d], etag |-> files[cur[d]].etag]
<1>2. /\ cur[d] \in FileId /\ buf[d] \in Manifest /\ files[cur[d]].m = buf[d]
      /\ files[cur[d]].etag \in Nat \ {0} /\ files[cur[d]].etag <= clock
  BY <1>1 DEF CheckStable, Stable, ReadTrue, TypeOK
<1>3. Seen(c) /\ c \in Candidate
  BY <1>2 DEF Seen, Candidate
<1>4. TypeOK'
  <2>1. cand' = [cand EXCEPT ![d] = @ \cup {c}]
    BY DEF CheckStable
  <2> HIDE DEF c
  <2>2. cand' \in [Device -> SUBSET Candidate]
    BY <1>1, <1>3, <2>1 DEF TypeOK
  <2>3. todo' \in [Device -> SUBSET FileId]
    BY <1>1 DEF TypeOK, CheckStable
  <2> QED BY <1>1, <2>2, <2>3, ConstantsAssumption DEF TypeOK, CheckStable, server, Pcs
<1>5. ReadTrue(d)'
  <2>1. /\ pc'[d] = "fetch" /\ goal'[d] = goal[d] /\ mine'[d] = mine[d]
        /\ cand'[d] = cand[d] \cup {c}
        /\ files' = files /\ clock' = clock
    BY <1>1 DEF CheckStable, TypeOK, server
  <2> HIDE DEF c
  <2>2. IsFiniteSet(cand[d] \cup {c})
    BY <1>1, FS_AddElement DEF ReadTrue
  <2>3. \A x \in cand[d] \cup {c} : Seen(x)
    BY <1>1, <1>3 DEF ReadTrue
  <2> QED BY <1>1, <2>1, <2>2, <2>3 DEF ReadTrue, Seen
<1>6. \A e \in Device \ {d} : Same(e)
  BY <1>1 DEF CheckStable, TypeOK, Same
<1> QED BY <1>1, <1>4, <1>5, <1>6, OwnRead

LEMMA AbortAny ==
    ASSUME AnyInv, NEW d \in Device, Abort(d), UNCHANGED server, fails' \in 0 .. MaxFails
    PROVE  AnyInv'
<1>1. TypeOK
  BY DEF AnyInv
<1> QED BY <1>1, LeaveAny DEF Abort, server, TypeOK

LEMMA ReportAny ==
    ASSUME AnyInv, NEW d \in Device, NEW result \in {"clean", "won", "lost"}, Report(d, result)
    PROVE  AnyInv'
<1>1. TypeOK
  BY DEF AnyInv
<1>2. /\ staged' \in [Device -> Manifest \cup {NoManifest}]
      /\ outcome' \in [Device -> {"none", "clean", "won", "lost", "error"}]
      /\ \A e \in Device \ {d} : staged'[e] = staged[e] /\ outcome'[e] = outcome[e]
  BY <1>1 DEF Report, TypeOK
<1>3. /\ Leave(d) /\ UNCHANGED <<clock, late, log, used>> /\ files' = files /\ mine' = mine
      /\ fails' \in 0 .. MaxFails /\ resets' \in 0 .. MaxResets
  BY <1>1 DEF Report, server, TypeOK
<1> QED BY <1>2, <1>3, LeaveAny

LEMMA CheckUnstableAny == ASSUME AnyInv, NEW d \in Device, CheckUnstable(d) PROVE AnyInv'
<1>1. TypeOK /\ ReadTrue(d)
  BY DEF AnyInv
<1>2. CASE Abort(d)
  BY <1>1, <1>2, AbortAny DEF CheckUnstable, TypeOK
<1>3. CASE /\ MayRetry(d)
           /\ pc' = [pc EXCEPT ![d] = "fetch"]
           /\ tries' = [tries EXCEPT ![d] = @ + 1]
           /\ UNCHANGED <<used, goal, todo, cand, cur, pre, buf, mine, staged, outcome>>
  <2>1. FilesStep /\ late' = late
    BY DEF CheckUnstable, server, FilesStep
  <2>2. tries[d] + 1 \in 0 .. ReadAttempts - 1
    BY <1>1, <1>3, ConstantsAssumption DEF MayRetry, TypeOK
  <2>3. TypeOK'
    BY <1>1, <1>3, <2>2 DEF TypeOK, CheckUnstable, server, Pcs
  <2>4. ReadTrue(d)'
    <3>1. /\ pc'[d] = "fetch" /\ goal'[d] = goal[d] /\ cand'[d] = cand[d] /\ mine'[d] = mine[d]
          /\ files' = files /\ clock' = clock
      BY <1>1, <1>3 DEF CheckUnstable, TypeOK, server
    <3> QED BY <1>1, <3>1 DEF ReadTrue, Seen
  <2>5. \A e \in Device \ {d} : Same(e)
    BY <1>1, <1>3 DEF TypeOK, Same
  <2> QED BY <2>1, <2>3, <2>4, <2>5, OwnRead
<1> QED BY <1>2, <1>3 DEF CheckUnstable

LEMMA UpToDateAny == ASSUME AnyInv, NEW d \in Device, UpToDate(d) PROVE AnyInv'
  BY ReportAny DEF UpToDate

\* What the device stages is a manifest of the generation after the one it read.
LEMMA StageTyped ==
    ASSUME AnyInv, NEW d \in Device, NEW g \in Nat, NEW s \in Snap \cup {0}, Stage(d, g, s)
    PROVE  /\ mine' \in [Device -> Manifest \cup {NoManifest}] /\ mine'[d] \in Manifest
           /\ used' \subseteq Snap /\ \A e \in Device \ {d} : mine'[e] = mine[e]
<1>1. TypeOK
  BY DEF AnyInv
<1>2. PICK new \in Snap \ used :
        /\ mine' = [mine EXCEPT ![d] = [gen |-> g + 1, snap |-> new, parent |-> s]]
        /\ used' = used \cup {new}
  BY DEF Stage
<1>3. [gen |-> g + 1, snap |-> new, parent |-> s] \in Manifest
  BY DEF Manifest
<1> QED BY <1>1, <1>2, <1>3 DEF TypeOK

LEMMA SyncLoadedAny == ASSUME AnyInv, NEW d \in Device, SyncLoaded(d) PROVE AnyInv'
<1>1. TypeOK /\ FilesStep /\ late' = late
  BY DEF AnyInv, SyncLoaded, server, FilesStep
<1>2. Best(d).m.gen \in Nat /\ Best(d).m.snap \in Snap \cup {0}
  BY BestIsSeen DEF SyncLoaded, Candidate, Manifest
<1>3. /\ mine' \in [Device -> Manifest \cup {NoManifest}] /\ mine'[d] \in Manifest
      /\ used' \subseteq Snap /\ \A e \in Device \ {d} : mine'[e] = mine[e]
  BY <1>2, StageTyped DEF SyncLoaded
<1>4. /\ Read(d, "check") /\ "check" \in Goals
      /\ log' = log /\ fails' = fails /\ resets' = resets /\ staged' = staged /\ outcome' = outcome
  BY DEF SyncLoaded, server, Goals
<1> QED BY <1>1, <1>3, <1>4, ReadAny DEF TypeOK

LEMMA ForceLoadedAny == ASSUME AnyInv, NEW d \in Device, ForceLoaded(d) PROVE AnyInv'
<1>1. TypeOK /\ FilesStep /\ late' = late
  BY DEF AnyInv, ForceLoaded, server, FilesStep
<1>2. cand[d] # {} => Best(d).m.gen \in Nat /\ Best(d).m.snap \in Snap \cup {0}
  BY BestIsSeen DEF Candidate, Manifest
<1>3. /\ mine' \in [Device -> Manifest \cup {NoManifest}] /\ mine'[d] \in Manifest
      /\ used' \subseteq Snap /\ \A e \in Device \ {d} : mine'[e] = mine[e]
  <2>1. CASE cand[d] = {}
    BY <2>1, StageTyped DEF ForceLoaded
  <2>2. CASE cand[d] # {}
    BY <1>2, <2>2, StageTyped DEF ForceLoaded
  <2> QED BY <2>1, <2>2
<1>4. /\ Read(d, "recover") /\ "recover" \in Goals
      /\ log' = log /\ fails' = fails /\ resets' = resets /\ outcome' = outcome
      /\ staged' = [staged EXCEPT ![d] = mine'[d]]
  BY DEF ForceLoaded, server, Goals
<1>5. /\ staged' \in [Device -> Manifest \cup {NoManifest}]
      /\ \A e \in Device \ {d} : staged'[e] = staged[e]
  BY <1>1, <1>3, <1>4 DEF TypeOK
<1> QED BY <1>1, <1>3, <1>4, <1>5, ReadAny DEF TypeOK

\* To read again with the same manifest in hand.
LEMMA ReadOnAny ==
    ASSUME AnyInv, NEW d \in Device, NEW g \in Goals, Read(d, g),
           UNCHANGED <<server, used, fails, mine, staged, outcome>>, mine[d] \in Manifest
    PROVE  AnyInv'
<1>1. TypeOK /\ FilesStep /\ late' = late /\ log' = log /\ resets' = resets
  BY DEF AnyInv, server, FilesStep
<1> QED BY <1>1, ReadAny DEF TypeOK

LEMMA RecoveredAny == ASSUME AnyInv, NEW d \in Device, Recovered(d) PROVE AnyInv'
<1>1. CASE Report(d, "won") \/ Report(d, "lost")
  BY <1>1, ReportAny
<1>2. CASE Read(d, "check") /\ UNCHANGED <<server, used, fails, mine, staged, outcome>>
  <2>1. mine[d] \in Manifest
    BY DEF Recovered, HasRead, AnyInv, ReadTrue
  <2> QED BY <1>2, <2>1, ReadOnAny DEF Goals
<1> QED BY <1>1, <1>2 DEF Recovered

LEMMA CheckedAny == ASSUME AnyInv, NEW d \in Device, Checked(d) PROVE AnyInv'
<1>1. TypeOK /\ ReadTrue(d) /\ goal[d] = "check"
  BY DEF AnyInv, Checked, HasRead
<1>2. CASE Report(d, "lost")
  BY <1>2, ReportAny
<1>3. CASE Abort(d) /\ UNCHANGED <<server, fails>>
  BY <1>1, <1>3, AbortAny DEF TypeOK
<1>4. ASSUME NEW w \in {"put", "post"},
             w = "put" => cand[d] # {} /\ Extends(mine[d], Best(d).m),
             pc' = [pc EXCEPT ![d] = w],
             UNCHANGED <<server, used, fails, goal, todo, cand, cur, pre, buf, tries, mine,
                         staged, outcome>>
      PROVE  AnyInv'
  <2>1. FilesStep /\ late' = late
    BY <1>4 DEF server, FilesStep
  <2>2. TypeOK'
    BY <1>1, <1>4 DEF TypeOK, server, Pcs
  <2>3. ReadTrue(d)'
    <3>1. /\ pc'[d] = w /\ goal'[d] = goal[d] /\ cand'[d] = cand[d] /\ mine'[d] = mine[d]
          /\ files' = files /\ clock' = clock /\ Best(d)' = Best(d)
      BY <1>1, <1>4 DEF TypeOK, server, Best
    <3>2. w = "put" => cand[d] # {} /\ mine[d].gen = Best(d).m.gen + 1
      BY <1>4 DEF Extends
    <3> QED BY <1>1, <3>1, <3>2 DEF ReadTrue, Seen
  <2>4. \A e \in Device \ {d} : Same(e)
    BY <1>1, <1>4 DEF TypeOK, Same
  <2> QED BY <2>1, <2>2, <2>3, <2>4, OwnRead
<1> QED BY <1>2, <1>3, <1>4 DEF Checked, OutOfTurn

LEMMA ConfirmedAny == ASSUME AnyInv, NEW d \in Device, Confirmed(d) PROVE AnyInv'
  BY ReportAny DEF Confirmed

LEMMA ConflictedAny == ASSUME AnyInv, NEW d \in Device, Conflicted(d) PROVE AnyInv'
  BY ReportAny DEF Conflicted

LEMMA VanishedAny == ASSUME AnyInv, NEW d \in Device, Vanished(d) PROVE AnyInv'
  BY AbortAny DEF Vanished, AnyInv, TypeOK

LEMMA FailAny == ASSUME AnyInv, NEW d \in Device, Fail(d) PROVE AnyInv'
<1>1. fails' \in 0 .. MaxFails
  BY ConstantsAssumption DEF Fail, AnyInv, TypeOK
<1> QED BY <1>1, AbortAny DEF Fail

LEMMA PutAcceptedAny == ASSUME AnyInv, NEW d \in Device, PutAccepted(d) PROVE AnyInv'
<1>1. TypeOK /\ ReadTrue(d) /\ pc[d] = "put"
  BY DEF AnyInv, PutAccepted
<1>2. cand[d] # {} /\ goal[d] = "check" /\ mine[d] \in Manifest
  BY <1>1 DEF ReadTrue
<1>3. Best(d).file \in FileId
  BY <1>2, BestIsSeen DEF Candidate
<1>4. FilesStep /\ log' \subseteq Manifest /\ resets' = resets
  BY <1>1, <1>2, <1>3 DEF PutAccepted, Store, Stored, FilesStep, TypeOK
<1> QED BY <1>1, <1>2, <1>4, ReadAny DEF PutAccepted, TypeOK, Goals

LEMMA PutRefusedAny == ASSUME AnyInv, NEW d \in Device, PutRefused(d) PROVE AnyInv'
<1>1. mine[d] \in Manifest
  BY DEF AnyInv, PutRefused, ReadTrue
<1> QED BY <1>1, ReadOnAny DEF PutRefused, Goals

LEMMA PostAcceptedAny == ASSUME AnyInv, NEW d \in Device, PostAccepted(d) PROVE AnyInv'
<1>1. TypeOK /\ ReadTrue(d) /\ pc[d] = "post"
  BY DEF AnyInv, PostAccepted
<1>2. goal[d] = "check" /\ mine[d] \in Manifest
  BY <1>1 DEF ReadTrue
<1>3. FilesStep /\ log' \subseteq Manifest /\ resets' = resets
  BY <1>1, <1>2 DEF PostAccepted, Existing, Store, Stored, FilesStep, TypeOK
<1> QED BY <1>1, <1>2, <1>3, ReadAny DEF PostAccepted, TypeOK, Goals

LEMMA WriteAbandonedAny == ASSUME AnyInv, NEW d \in Device, WriteAbandoned(d) PROVE AnyInv'
<1>1. TypeOK /\ ReadTrue(d) /\ LateTrue /\ pc[d] \in {"put", "post"}
  BY DEF AnyInv, WriteAbandoned
<1>2. mine[d] \in Manifest
  BY <1>1 DEF ReadTrue
<1>3. PICK at : /\ late' = late \cup {[m |-> mine[d], at |-> at]}
                /\ at = IF pc[d] = "put" THEN Best(d) ELSE NewFile
  BY DEF WriteAbandoned
<1>4. /\ at \in Candidate \cup {NewFile}
      /\ at # NewFile => Seen(at) /\ mine[d].gen = at.m.gen + 1
  <2>1. CASE pc[d] = "put"
    BY <1>1, <1>3, <2>1, BestIsSeen DEF ReadTrue
  <2>2. CASE pc[d] # "put"
    BY <1>3, <2>2
  <2> QED BY <2>1, <2>2
<1>5. FilesStep /\ Leave(d) /\ fails' \in 0 .. MaxFails
      /\ UNCHANGED <<files, clock, log, resets, used, mine, staged>>
  BY <1>1, ConstantsAssumption DEF WriteAbandoned, Abort, FilesStep, TypeOK
<1>6. TypeOK'
  <2>1. late' \subseteq Late
    BY <1>1, <1>2, <1>3, <1>4 DEF TypeOK, Late
  <2> QED BY <1>1, <1>5, <2>1, LeaveKeeps DEF TypeOK, WriteAbandoned, Abort
<1>7. LateTrue'
  <2> SUFFICES ASSUME NEW r \in late', r.at # NewFile
               PROVE  Seen(r.at)' /\ r.m.gen = r.at.m.gen + 1
    BY DEF LateTrue
  <2>1. CASE r \in late
    BY <1>1, <1>5, <2>1, SeenStays DEF LateTrue
  <2>2. CASE r = [m |-> mine[d], at |-> at]
    <3>1. r.at = at /\ r.m = mine[d]
      BY <2>2
    <3> QED BY <1>4, <1>5, <3>1 DEF Seen
  <2> QED BY <1>3, <2>1, <2>2
<1>8. \A e \in Device : ReadTrue(e)'
  <2> TAKE e \in Device
  <2>1. CASE e = d
    <3>1. /\ pc'[d] = "idle" /\ goal'[d] = "none" /\ cand'[d] = {}
      BY <1>1, <1>5 DEF Leave, TypeOK
    <3> QED BY <2>1, <3>1, FS_EmptySet DEF ReadTrue
  <2>2. CASE e # d
    <3>1. Same(e)
      BY <1>1, <1>5, <2>2 DEF Leave, TypeOK, Same, WriteAbandoned, Abort
    <3> QED BY <1>5, <3>1, SeenStays
  <2> QED BY <2>1, <2>2
<1>9. \A f \in FileId : files'[f].etag <= clock'
  BY <1>5, SeenStays
<1> QED BY <1>6, <1>7, <1>8, <1>9 DEF AnyInv

LEMMA LateWriteAny == ASSUME AnyInv, NEW r \in late, LateWrite(r) PROVE AnyInv'
<1>1. TypeOK /\ LateTrue
  BY DEF AnyInv
<1>2. r \in Late /\ (r.at # NewFile => r.at.file \in FileId)
  BY <1>1 DEF TypeOK, LateTrue, Seen, Candidate
<1>3. FilesStep /\ log' \subseteq Manifest /\ resets' = resets
  <2>1. ASSUME NEW f \in FileId, Store(f, r.m)
        PROVE  FilesStep /\ log' \subseteq Manifest /\ resets' = resets
    BY <1>1, <1>2, <2>1 DEF Late, Store, Stored, FilesStep, TypeOK
  <2>2. CASE UNCHANGED <<files, clock, log, resets>>
    BY <1>1, <2>2 DEF FilesStep, TypeOK
  <2> QED BY <1>2, <2>1, <2>2 DEF LateWrite, Existing
<1>4. TypeOK'
  BY <1>1, <1>3, SeenStays DEF LateWrite, TypeOK, reading
<1>5. \A e \in Device : ReadTrue(e)'
  BY <1>3, SeenStays DEF Same, LateWrite, reading
<1>6. LateTrue'
  BY <1>1, <1>3, SeenStays DEF LateWrite, LateTrue
<1>7. \A f \in FileId : files'[f].etag <= clock'
  BY <1>3, SeenStays
<1> QED BY <1>4, <1>5, <1>6, <1>7 DEF AnyInv

LEMMA ResetAny == ASSUME AnyInv, Reset PROVE AnyInv'
<1>1. TypeOK /\ LateTrue /\ FilesStep
  BY DEF AnyInv, Reset, FilesStep
<1>2. TypeOK'
  BY <1>1, SeenStays, ConstantsAssumption DEF Reset, TypeOK, reading
<1>3. \A e \in Device : ReadTrue(e)'
  BY <1>1, SeenStays DEF Same, Reset, reading
<1>4. LateTrue'
  BY <1>1, SeenStays DEF Reset, LateTrue
<1>5. \A f \in FileId : files'[f].etag <= clock'
  BY <1>1, SeenStays
<1> QED BY <1>2, <1>3, <1>4, <1>5 DEF AnyInv

LEMMA NextAny == ASSUME AnyInv, [Next]_vars PROVE AnyInv'
<1>1. CASE UNCHANGED vars
  <2>1. TypeOK /\ LateTrue /\ FilesStep
    BY <1>1 DEF AnyInv, vars, FilesStep
  <2>2. TypeOK'
    BY <1>1, <2>1 DEF vars, TypeOK
  <2>3. \A e \in Device : ReadTrue(e)'
    BY <1>1, <2>1, SeenStays DEF Same, vars
  <2>4. LateTrue'
    BY <1>1, <2>1, SeenStays DEF vars, LateTrue
  <2>5. \A f \in FileId : files'[f].etag <= clock'
    BY <2>1, SeenStays
  <2> QED BY <2>2, <2>3, <2>4, <2>5 DEF AnyInv
<1>2. ASSUME NEW d \in Device, Start(d) \/ Step(d) \/ WriteAbandoned(d) \/ Fail(d)
      PROVE  AnyInv'
  BY <1>2, StartAny, ListAny, FetchEtagAny, FetchBytesAny, CheckStableAny, CheckUnstableAny,
     UpToDateAny, SyncLoadedAny, ForceLoadedAny, RecoveredAny, CheckedAny, ConfirmedAny,
     ConflictedAny, VanishedAny, PutAcceptedAny, PutRefusedAny, PostAcceptedAny,
     WriteAbandonedAny, FailAny DEF Step
<1> QED BY <1>1, <1>2, LateWriteAny, ResetAny DEF Next

\* A write that depends on a version it has seen replaces just that version.
LEMMA RiseByOne ==
    ASSUME AnyInv, [Next]_vars, NEW f \in FileId,
           files[f] # NoFile, files'[f] # NoFile, files'[f] # files[f]
    PROVE  files'[f].m.gen = files[f].m.gen + 1
<1>1. TypeOK /\ LateTrue
  BY DEF AnyInv
<1>2. ASSUME NEW c, NEW m \in Manifest, Seen(c), m.gen = c.m.gen + 1, IfMatch(c), Store(c.file, m)
      PROVE  files'[f].m.gen = files[f].m.gen + 1
  <2>1. c.file = f /\ files'[f].m = m
    BY <1>1, <1>2 DEF Store, Seen, Candidate, TypeOK
  <2>2. files[f].m = c.m
    BY <1>2, <2>1 DEF Seen, IfMatch
  <2> QED BY <1>2, <2>1, <2>2
<1>3. ASSUME NEW g \in FileId \ Existing, NEW m, Store(g, m) PROVE FALSE
  BY <1>1, <1>3 DEF Store, Existing, TypeOK
<1>4. ASSUME NEW d \in Device, PutAccepted(d) PROVE files'[f].m.gen = files[f].m.gen + 1
  <2>1. ReadTrue(d) /\ pc[d] = "put"
    BY <1>4 DEF AnyInv, PutAccepted
  <2>2. cand[d] # {} /\ mine[d] \in Manifest /\ mine[d].gen = Best(d).m.gen + 1
    BY <2>1 DEF ReadTrue
  <2>3. Seen(Best(d))
    BY <2>2, BestIsSeen
  <2>4. IfMatch(Best(d)) /\ Store(Best(d).file, mine[d])
    BY <1>4 DEF PutAccepted
  <2> QED BY <1>2, <2>2, <2>3, <2>4
<1>5. ASSUME NEW d \in Device, PostAccepted(d) PROVE FALSE
  BY <1>3, <1>5 DEF PostAccepted
<1>6. ASSUME NEW r \in late, LateWrite(r) PROVE files'[f].m.gen = files[f].m.gen + 1
  <2>1. r.at # NewFile /\ IfMatch(r.at) /\ Store(r.at.file, r.m)
    BY <1>3, <1>6 DEF LateWrite
  <2>2. Seen(r.at) /\ r.m.gen = r.at.m.gen + 1 /\ r.m \in Manifest
    BY <1>1, <2>1 DEF LateTrue, TypeOK, Late
  <2> QED BY <1>2, <2>1, <2>2
<1>7. ~ UNCHANGED files /\ ~Reset
  BY DEF Reset
<1>8. ASSUME NEW d \in Device,
             Start(d) \/ Step(d) \/ WriteAbandoned(d) \/ Fail(d), ~PutAccepted(d)
      PROVE  UNCHANGED files
  BY <1>5, <1>8
     DEF Step, Start, WriteAbandoned, Fail, server, List, FetchEtag, FetchBytes,
         CheckStable, CheckUnstable, UpToDate, SyncLoaded, ForceLoaded, Recovered,
         Checked, OutOfTurn, Confirmed, Conflicted, Vanished, PutRefused, Report
<1> QED BY <1>4, <1>6, <1>7, <1>8 DEF Next, vars

-----------------------------------------------------------------------------
(* Theorems.                                                               *)

\* The inductive invariant holds throughout.
THEOREM Invariance == ASSUME MaxResets = 0  PROVE Spec => []IInv
<1>1. Init => IInv
  BY InitIInv
<1>2. IInv /\ [Next]_vars => IInv'
  BY NextStep
<1> QED BY <1>1, <1>2, PTL DEF Spec

\* No lost update: the committed manifests form one chain, each derived from the
\* one it replaced, however many devices publish and whichever requests fail.
THEOREM NoLostUpdate == ASSUME MaxResets = 0  PROVE Spec => []Chain
<1>1. IInv => Chain
  BY DEF IInv, ServerInv
<1> QED BY <1>1, Invariance, PTL

\* A publish reported as won was committed, and one reported as lost found its
\* generation taken: upsert_manifest_and_confirm and the recovery of a force
\* publish report outcomes the cloud justifies.
THEOREM OutcomesJustified ==
    ASSUME MaxResets = 0  PROVE Spec => []OutcomesAreTrue
<1>1. IInv => OutcomesAreTrue
  BY DEF IInv, PublishInv, OutcomesAreTrue, WonIsCommitted, LostIsSuperseded
<1> QED BY <1>1, Invariance, PTL

\* No manifest is written twice, not even by a force publish that is replayed
\* from its journal while an earlier request of it is still on its way.
THEOREM NeverRewritten == ASSUME MaxResets = 0  PROVE Spec => WrittenOnce
<1>1. ASSUME IInv, [Next]_vars
      PROVE  \A f \in FileId :
                files'[f].etag > files[f].etag => files'[f].m \notin log
  <2>1. TypeOK
    BY <1>1 DEF IInv
  <2>2. \A f \in FileId : ~(files[f].etag > files[f].etag)
    BY <2>1 DEF TypeOK, NoFile
  <2> QED BY <1>1, <2>2, FileStep DEF Current
<1> QED BY <1>1, Invariance, PTL DEF Spec, WrittenOnce

\* The folder, with its unconditional creations, late writes and unstable reads,
\* implements the register of RemoteRegister.
THEOREM RegisterImplemented ==
    ASSUME MaxResets = 0  PROVE Spec => ImplementsRegister
<1>1. ASSUME Init  PROVE Register!Init
  <2>1. IInv
    BY <1>1, InitIInv
  <2>2. Head = Current
    BY <2>1, HeadIsCurrent DEF IInv
  <2>3. \E s \in Snap : Current = [gen |-> 1, snap |-> s, parent |-> 0]
    BY <1>1, ConstantsAssumption DEF Init, Current
  <2> QED BY <2>2, <2>3 DEF Register!Init
<1>2. IInv => Head = Current
  BY HeadIsCurrent DEF IInv
<1>3. ASSUME IInv, [Next]_vars, Head = Current, (Head = Current)'
      PROVE  [Register!Next]_Head
  <2>1. Head = Current /\ Head' = Current'
    BY <1>3
  <2>2. CASE files' = files
    BY <2>1, <2>2 DEF Current
  <2>3. CASE /\ Current' \in Manifest
             /\ Current'.gen = Current.gen + 1
             /\ Current'.parent = Current.snap
             /\ Current'.snap # Current.snap
    <3>1. Current' = [gen |-> Current.gen + 1, snap |-> Current'.snap,
                      parent |-> Current.snap]
      BY <2>3 DEF Manifest
    <3>2. Current'.snap \in Snap \ {Current.snap}
      BY <2>3 DEF Manifest
    <3> QED BY <2>1, <3>1, <3>2 DEF Register!Next, Register!Commit
  <2> QED BY <1>3, <2>2, <2>3, FileStep
<1> QED
  BY <1>1, <1>2, <1>3, Invariance, PTL DEF Spec, ImplementsRegister, Register!Spec

\* What holds of the readers and of the late writes, however often the user empties
\* the folder.
THEOREM ReadsAreSound == Spec => []AnyInv
<1>1. Init => AnyInv
  BY AnyInit
<1>2. AnyInv /\ [Next]_vars => AnyInv'
  BY NextAny
<1> QED BY <1>1, <1>2, PTL DEF Spec

\* Every variable keeps its type: no operation stores a malformed manifest.
THEOREM TypeCorrect == Spec => []TypeOK
<1>1. AnyInv => TypeOK
  BY DEF AnyInv
<1> QED BY <1>1, ReadsAreSound, PTL

\* No write replaces a version its sender had not read, however often the user
\* empties the folder and however many files creations leave in it.
THEOREM GenerationsRise == Spec => FilesRiseByOne
<1>1. AnyInv /\ [Next]_vars =>
        \A f \in FileId : files[f] # NoFile /\ files'[f] # NoFile /\ files'[f] # files[f]
            => files'[f].m.gen = files[f].m.gen + 1
  BY RiseByOne
<1> QED BY <1>1, ReadsAreSound, PTL DEF Spec, FilesRiseByOne
=============================================================================
