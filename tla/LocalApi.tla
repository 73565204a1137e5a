------------------------------ MODULE LocalApi ------------------------------
(***************************************************************************)
(* Processes that share a data directory, and the listener of the HTTP API *)
(* that the one which owns it keeps as its user wishes: the instance lock  *)
(* and its owner record (instance_lock.rs), the start (run in lib.rs) and  *)
(* the saving of a configuration (apply_local_http_api_config in lib.rs).  *)
(* What a request may do once it is let in is left out here.  The names    *)
(* are told apart from those of Library, for the proofs are about both.    *)
(***************************************************************************)
EXTENDS Naturals

CONSTANTS
    Process,        \* launches of the app over one directory
    Port,           \* TCP ports
    Access,         \* who is let in: host, scope and origins of a configuration
    Unset,
    MaxStarts, MaxSaves, MaxFails

\* normalize_local_http_api_config lets these pass, and nothing else.
Config == [enabled : BOOLEAN, port : Port, access : Access]

\* A socket that listens: whose it is, and under which configuration it admits.
Socket == [by : Process, under : Config, busy : BOOLEAN]

ASSUME LocalApiAssumption ==
    /\ Unset \notin Process \cup Port \cup Config \cup Socket
    /\ Port # {} /\ Access # {}

VARIABLES
    lock,       \* the process that holds the instance lock
    owner,      \* the process the owner record names
    stored,     \* the configuration on disk
    phase,      \* where the start, or the end, of each process is
    api,        \* what each process keeps of its listener: LocalHttpApiRuntime
    boot,       \* the configuration its start still has to bring up
    asked,      \* the saves that wait for their turn
    job,        \* what holds the transition mutex
    bound,      \* who listens on each port
    spent       \* what has been used of each bound

apiVars == <<lock, owner, stored, phase, api, boot, asked, job, bound, spent>>

\* What it refuses.
Invalid == [invalid |-> TRUE]

Default == [enabled |-> FALSE,
            port |-> CHOOSE p \in Port : TRUE, access |-> CHOOSE a \in Access : TRUE]

\* load_local_http_api_config: a file that is missing or unreadable is no choice.
Load == IF stored = Unset THEN Default ELSE stored

\* LocalHttpApiRuntime.  "read": its configuration came from the file.
Runtime(c, fromFile) ==
    [config |-> c, server |-> Unset, error |-> FALSE, touched |-> FALSE, read |-> fromFile]

\* apply_local_http_api_config, or the task of the start: what it wants, what was
\* there before, and the listener it holds.
Job(step, want, old, server) ==
    [step |-> step, want |-> want, old |-> old, server |-> server, error |-> FALSE]
NoJob == Job("none", Unset, Unset, Unset)

Running(p) == phase[p] \in {"ready", "recovery"}

\* Nothing holds the transition mutex of a process that shows its screens.
Settled(p) == phase[p] = "ready" /\ job[p] = NoJob

Unbound(n) == bound[n] = Unset
Listener(p, c) == [by |-> p, under |-> c, busy |-> FALSE]

Spend(what) == spent' = [spent EXCEPT ![what] = @ + 1]
Within(what, bounds) == spent[what] < bounds

ApiInit ==
    /\ lock = Unset /\ owner = Unset
    /\ stored \in {Unset} \cup {c \in Config : c.enabled}
    /\ phase = [p \in Process |-> "off"]
    /\ api = [p \in Process |-> Runtime(Default, FALSE)]
    /\ boot = [p \in Process |-> Unset]
    /\ asked = [p \in Process |-> {}]
    /\ job = [p \in Process |-> NoJob]
    /\ bound = [n \in Port |-> Unset]
    /\ spent = [starts |-> 0, saves |-> 0, fails |-> 0]

-----------------------------------------------------------------------------
(* The instance lock.                                                      *)

Go(p, where) == phase' = [phase EXCEPT ![p] = where]

\* acquire_instance_lock: the operating system grants the lock to one process.
Lock(p) ==
    /\ phase[p] = "off"
    /\ Within("starts", MaxStarts) /\ Spend("starts")
    /\ IF lock = Unset THEN lock' = p /\ Go(p, "locked")
                      ELSE Go(p, "blocked") /\ UNCHANGED lock
    /\ UNCHANGED <<owner, stored, api, boot, asked, job, bound>>

\* write_owner_record fails: the process gives up the directory again.
RecordFails(p) ==
    /\ phase[p] = "locked"
    /\ Within("fails", MaxFails) /\ Spend("fails")
    /\ owner' = Unset
    /\ lock' = Unset
    /\ Go(p, "blocked")
    /\ UNCHANGED <<stored, api, boot, asked, job, bound>>

\* The record is written and the library opened: then the configuration is loaded,
\* and an enabled listener is left to a task of its own.
Open(p) ==
    /\ phase[p] = "locked"
    /\ owner' = p
    /\ \/ /\ Go(p, "ready")
          /\ api' = [api EXCEPT ![p] = Runtime(Load, TRUE)]
          /\ boot' = [boot EXCEPT ![p] = IF Load.enabled THEN Load ELSE Unset]
       \/ /\ Go(p, "recovery")
          /\ api' = [api EXCEPT ![p] = Runtime(Default, FALSE)]
          /\ UNCHANGED boot
    /\ UNCHANGED <<lock, stored, asked, job, bound, spent>>

\* apply_database_recovery: the screens come up without another start.
Recovered(p) ==
    /\ phase[p] = "recovery"
    /\ Go(p, "ready")
    /\ UNCHANGED <<lock, owner, stored, api, boot, asked, job, bound, spent>>

\* Nothing of its memory and its sockets is left.
Ended(p) ==
    /\ api' = [api EXCEPT ![p] = Runtime(Default, FALSE)]
    /\ boot' = [boot EXCEPT ![p] = Unset]
    /\ asked' = [asked EXCEPT ![p] = {}]
    /\ job' = [job EXCEPT ![p] = NoJob]
    /\ bound' = [n \in Port |-> IF bound[n] # Unset /\ bound[n].by = p THEN Unset ELSE bound[n]]

\* InstanceLockGuard is dropped: its own drop first, then the file it holds.
Quit(p) ==
    /\ Running(p)
    /\ owner' = Unset
    /\ Go(p, "closing")
    /\ Ended(p)
    /\ UNCHANGED <<lock, stored, spent>>

Release(p) ==
    /\ phase[p] = "closing"
    /\ lock' = Unset
    /\ Go(p, "off")
    /\ UNCHANGED <<owner, stored, api, boot, asked, job, bound, spent>>

\* A process dies, or one that was refused is closed: the record stays.
Die(p) ==
    /\ phase[p] # "off"
    /\ lock' = IF lock = p THEN Unset ELSE lock
    /\ Go(p, "off")
    /\ Ended(p)
    /\ UNCHANGED <<owner, stored, spent>>

-----------------------------------------------------------------------------
(* The listener.                                                           *)

\* start_local_http_api_server: another program may have the port.
Started(p, c) == [bound EXCEPT ![c.port] = Listener(p, c)]

Untouched_Any(p) == TRUE

\* The spawned task of run takes its turn: not if a save came before it.
Untouched(p) == ~api[p].touched

BootBegin(p) ==
    /\ Settled(p) /\ boot[p] # Unset
    /\ boot' = [boot EXCEPT ![p] = Unset]
    /\ IF Untouched(p)
       THEN job' = [job EXCEPT ![p] = Job("boot", boot[p], Unset, Unset)]
       ELSE UNCHANGED job
    /\ UNCHANGED <<lock, owner, stored, phase, api, asked, bound, spent>>

BootEnd(p) ==
    /\ job[p].step = "boot"
    /\ LET c == job[p].want IN
       \/ /\ Unbound(c.port)
          /\ bound' = Started(p, c)
          /\ api' = [api EXCEPT ![p].server = c.port, ![p].error = FALSE]
       \/ /\ api' = [api EXCEPT ![p].error = TRUE]
          /\ UNCHANGED bound
    /\ job' = [job EXCEPT ![p] = NoJob]
    /\ UNCHANGED <<lock, owner, stored, phase, boot, asked, spent>>

\* A client keeps a connection open, or closes it.
Client(n) ==
    /\ bound[n] # Unset
    /\ bound' = [bound EXCEPT ![n].busy = ~@]
    /\ UNCHANGED <<lock, owner, stored, phase, api, boot, asked, job, spent>>

\* save_local_http_api_config: the user saves, from whatever status is on screen.
Ask(p) ==
    /\ phase[p] = "ready"
    /\ Within("saves", MaxSaves) /\ Spend("saves")
    /\ \E c \in Config \cup {Invalid} : asked' = [asked EXCEPT ![p] = @ \cup {c}]
    /\ UNCHANGED <<lock, owner, stored, phase, api, boot, job, bound>>

\* The configuration is refused before anything is touched, or the old listener is
\* taken out and the revision counted.
SaveBegin(p) ==
    /\ Settled(p)
    /\ \E c \in asked[p] :
         /\ asked' = [asked EXCEPT ![p] = @ \ {c}]
         /\ IF c = Invalid THEN UNCHANGED <<api, job>>
            ELSE /\ api' = [api EXCEPT ![p].server = Unset, ![p].touched = TRUE]
                 /\ job' = [job EXCEPT ![p] =
                        Job(IF api[p].server = Unset THEN "start" ELSE "stop",
                            c, api[p].config, api[p].server)]
    /\ UNCHANGED <<lock, owner, stored, phase, boot, bound, spent>>

Aborted_Never(p) == FALSE

\* stop_local_http_api_server: once its connections are closed, or after two seconds.
Drained(p) == ~bound[job[p].server].busy
Aborted(p) == bound[job[p].server].busy

Closed(p) == [bound EXCEPT ![job[p].server] = Unset]

Stop(p) ==
    /\ job[p].step = "stop"
    /\ Drained(p) \/ Aborted(p)
    /\ bound' = Closed(p)
    /\ job' = [job EXCEPT ![p].step = "start", ![p].server = Unset]
    /\ UNCHANGED <<lock, owner, stored, phase, api, boot, asked, spent>>

\* The new listener, if it is enabled; if it cannot be had, it is saved as disabled.
Start(p) ==
    /\ job[p].step = "start"
    /\ LET c == job[p].want IN
       \/ /\ c.enabled /\ Unbound(c.port)
          /\ bound' = Started(p, c)
          /\ job' = [job EXCEPT ![p].step = "write", ![p].server = c.port]
       \/ /\ c.enabled
          /\ job' = [job EXCEPT ![p].step = "write", ![p].want.enabled = FALSE,
                               ![p].error = TRUE]
          /\ UNCHANGED bound
       \/ /\ ~c.enabled
          /\ job' = [job EXCEPT ![p].step = "write"]
          /\ UNCHANGED bound
    /\ UNCHANGED <<lock, owner, stored, phase, api, boot, asked, spent>>

\* write_local_http_api_config replaces the file at once.
Write(p) ==
    /\ job[p].step = "write"
    /\ stored' = job[p].want
    /\ job' = [job EXCEPT ![p].step = "set"]
    /\ UNCHANGED <<lock, owner, phase, api, boot, asked, bound, spent>>

Set(p) ==
    /\ job[p].step = "set"
    /\ api' = [api EXCEPT ![p] = [@ EXCEPT !.config = job[p].want, !.server = job[p].server,
                                         !.error = job[p].error, !.read = TRUE]]
    /\ job' = [job EXCEPT ![p] = NoJob]
    /\ UNCHANGED <<lock, owner, stored, phase, boot, asked, bound, spent>>

\* The file cannot be written: the new listener goes, the old one comes back.
WriteFails(p) ==
    /\ job[p].step = "write"
    /\ Within("fails", MaxFails) /\ Spend("fails")
    /\ job' = [job EXCEPT ![p].step = IF job[p].server = Unset THEN "restore" ELSE "unstart"]
    /\ UNCHANGED <<lock, owner, stored, phase, api, boot, asked, bound>>

Unstart(p) ==
    /\ job[p].step = "unstart"
    /\ Drained(p) \/ Aborted(p)
    /\ bound' = Closed(p)
    /\ job' = [job EXCEPT ![p].step = "restore", ![p].server = Unset]
    /\ UNCHANGED <<lock, owner, stored, phase, api, boot, asked, spent>>

Restore(p) ==
    /\ job[p].step = "restore"
    /\ LET c == job[p].old IN
       \/ /\ c.enabled /\ Unbound(c.port)
          /\ bound' = Started(p, c)
          /\ api' = [api EXCEPT ![p].server = c.port, ![p].error = TRUE]
       \/ /\ api' = [api EXCEPT ![p].error = TRUE]
          /\ UNCHANGED bound
    /\ job' = [job EXCEPT ![p] = NoJob]
    /\ UNCHANGED <<lock, owner, stored, phase, boot, asked, spent>>

-----------------------------------------------------------------------------
Save(p) ==
    \/ SaveBegin(p) \/ Stop(p) \/ Start(p) \/ Write(p) \/ Set(p)
    \/ Unstart(p) \/ Restore(p)

Task(p) == BootBegin(p) \/ BootEnd(p)

ApiNext ==
    \/ \E p \in Process :
         \/ Lock(p) \/ RecordFails(p) \/ Open(p) \/ Recovered(p)
         \/ Quit(p) \/ Release(p) \/ Die(p)
         \/ Task(p) \/ Ask(p) \/ Save(p) \/ WriteFails(p)
    \/ \E n \in Port : Client(n)

ApiSpec == ApiInit /\ [][ApiNext]_apiVars

\* The async runtime polls what has begun, and the mutex is handed on in turn.
ApiFairSpec == ApiSpec /\ \A p \in Process : WF_apiVars(Save(p)) /\ WF_apiVars(Task(p))

-----------------------------------------------------------------------------
(* Properties.                                                             *)

Runtimes ==
    [config : Config, server : Port \cup {Unset},
     error : BOOLEAN, touched : BOOLEAN, read : BOOLEAN]
Jobs ==
    [step : {"none", "boot", "stop", "start", "write", "set", "unstart", "restore"},
     want : Config \cup {Unset}, old : Config \cup {Unset},
     server : Port \cup {Unset}, error : BOOLEAN]
ApiTypeOK ==
    /\ {lock, owner} \subseteq Process \cup {Unset}
    /\ stored \in Config \cup {Unset}
    /\ phase \in [Process -> {"off", "locked", "blocked", "ready", "recovery", "closing"}]
    /\ api \in [Process -> Runtimes]
    /\ boot \in [Process -> Config \cup {Unset}]
    /\ asked \in [Process -> SUBSET (Config \cup {Invalid})]
    /\ job \in [Process -> Jobs]
    /\ bound \in [Port -> Socket \cup {Unset}]
    /\ spent \in [starts : Nat, saves : Nat, fails : Nat]

\* The process that runs on the directory has the lock, and the record that a
\* second one shows its user names it.
OwnerIsNamed == \A p \in Process : Running(p) => lock = p /\ owner = p

\* Whoever listens is the listener its process knows, and serves what the screen
\* and the file say; a listener that should be there and is not is reported.
ServesAsChosen ==
    \A p \in Process : Settled(p) =>
        LET a == api[p] IN
        /\ a.read => a.config = Load
        /\ {n \in Port : bound[n] # Unset /\ bound[n].by = p} = {a.server} \ {Unset}
        /\ a.server # Unset => a.config.enabled /\ bound[a.server].under = a.config
        /\ a.config.enabled /\ a.server = Unset => a.error \/ boot[p] # Unset

\* One owner, and its listener as chosen: whatever start, save or failure comes
\* first, and whatever another launch of the app did before.
RunsAsChosen == OwnerIsNamed /\ ServesAsChosen

\* A save ends, whether or not clients hold on to their connections.
SavesEnd ==
    \A p \in Process :
        (asked[p] # {} \/ job[p] # NoJob) ~> (asked[p] = {} /\ job[p] = NoJob)
=============================================================================
