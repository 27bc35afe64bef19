---------------------------- MODULE MasterCycle ----------------------------
(***************************************************************************)
(* The master process: ngx_master_process_cycle, ngx_reap_children,        *)
(* ngx_signal_worker_processes and the ngx_start_* functions               *)
(* (src/src/os/unix/ngx_process_cycle.c), ngx_spawn_process, the signal    *)
(* handler and ngx_process_get_status (src/src/os/unix/ngx_process.c).     *)
(*                                                                         *)
(* The master blocks its signals everywhere but in sigsuspend(), so        *)
(* handlers run only there (pc = "suspend" until the first one, "woken"    *)
(* for further pending ones).  Children live and die at any time.  The     *)
(* channels over which commands are sent are left to the kernel: a command *)
(* that cannot be written is sent by kill().                               *)
(***************************************************************************)
EXTENDS Integers, FiniteSets, SequencesExt

CONSTANTS
    WorkerN,       \* ccf->worker_processes
    Cache,         \* a cache manager and a cache loader are configured
    MaxProcesses,  \* NGX_MAX_PROCESSES
    Signals,       \* the signals that the administrator may send
    MaxSignals,    \* bound on signals of the administrator
    MaxCrashes,    \* bound on children that exit without being told to
    MaxFailures,   \* bound on failing calls: fork(), exec setup, reload,
                   \* and fatal exits; a full table fails beyond it
    MaxDelay       \* bound on the delay between two rounds of signals

ASSUME MasterAssumption ==
    /\ WorkerN \in Nat \ {0} /\ Cache \in BOOLEAN
    /\ MaxProcesses \in Nat \ {0}
    /\ Signals \subseteq {"quit", "terminate", "noaccept", "reconfigure",
                          "reopen", "change_binary"}
    /\ {MaxSignals, MaxCrashes, MaxFailures, MaxDelay} \subseteq Nat

VARIABLES
    procs,         \* ngx_processes[0 .. ngx_last_process - 1]
    kids,          \* kids[pid]: the children of the master so far
    flags,         \* the ngx_* variables among Flag that are 1
    noaccepting,   \* ngx_noaccepting
    newBinary,     \* ngx_new_binary: 0, a pid, or -1 (NGX_INVALID_PID)
    live,          \* the local variable live
    delay, sigio,  \* the local variables delay and sigio
    pc,            \* where the master is in its loop
    config,        \* the number of the configuration in use
    signals, crashes, failures    \* the bounded counters

bounds == <<signals, crashes, failures>>
vars == <<procs, kids, flags, noaccepting, newBinary, live, delay, sigio, pc,
          config, bounds>>

Flag == {"reap", "sigalrm", "restart"} \cup
        {"quit", "terminate", "noaccept", "reconfigure", "reopen",
         "change_binary"}

PC == {"head", "suspend", "woken", "reap", "stop", "reload", "restart",
       "reopen", "change", "noaccept", "exited"}

\* ngx_process_t; pid is 0 where the code has -1.
Process == [pid : Nat, respawn : BOOLEAN, just : BOOLEAN, detached : BOOLEAN,
            exiting : BOOLEAN, exited : BOOLEAN]

\* A child: what it is, what it was told, and the configuration it runs.
Kid == [state : {"running", "zombie", "gone"}, binary : BOOLEAN,
        cmd : {"none", "quit", "terminate", "kill"}, gen : Nat]

TypeOK ==
    /\ procs \in Seq(Process) /\ Len(procs) <= MaxProcesses
    /\ kids \in Seq(Kid)
    /\ flags \subseteq Flag
    /\ noaccepting \in BOOLEAN
    /\ newBinary \in -1 .. Len(kids)
    /\ live \in BOOLEAN
    /\ delay \in Nat /\ sigio \in 0 .. WorkerN + 2
    /\ pc \in PC
    /\ config \in Nat
    /\ signals \in 0 .. MaxSignals
    /\ crashes \in 0 .. MaxCrashes
    /\ failures \in Nat

Alive == {p \in 1 .. Len(kids) : kids[p].state = "running"}
Zombies == {p \in 1 .. Len(kids) : kids[p].state = "zombie"}

-----------------------------------------------------------------------------
(* ngx_spawn_process *)

\* A slot whose pid is -1; its other fields are overwritten before their use.
Unused == [pid |-> 0, respawn |-> FALSE, just |-> FALSE, detached |-> FALSE,
           exiting |-> FALSE, exited |-> FALSE]

NewKid(gen, binary) ==
    [state |-> "running", binary |-> binary, cmd |-> "none", gen |-> gen]

\* How a process is spawned: NGX_PROCESS_RESPAWN and its variants.
Type(respawn, just, detached) ==
    [respawn |-> respawn, just |-> just, detached |-> detached]

\* The slot of a new process with this pid.
NewSlot(pid, type) ==
    [pid |-> pid, respawn |-> type.respawn, just |-> type.just,
     detached |-> type.detached, exiting |-> FALSE, exited |-> FALSE]

\* Mutant: the size of the table is not tested.
SpawnedUnlimited(t, type, gen) ==
    [procs |-> Append(t.procs, NewSlot(Len(t.kids) + 1, type)),
     kids |-> Append(t.kids, NewKid(gen, type.detached))]

\* The table t, a record of procs and kids, after one successful spawn: in the
\* first free slot, or in a new one; a full table refuses.
Spawned(t, type, gen) ==
    LET free == {s \in 1 .. Len(t.procs) : t.procs[s].pid = 0}
        x == NewSlot(Len(t.kids) + 1, type)
        k == Append(t.kids, NewKid(gen, type.detached))
    IN  CASE free # {} ->
               [procs |-> [t.procs EXCEPT ![Min(free)] = x], kids |-> k]
          [] free = {} /\ Len(t.procs) < MaxProcesses ->
               [procs |-> Append(t.procs, x), kids |-> k]
          [] OTHER -> t

SpawnedAll(t, types, gen) ==
    FoldLeft(LAMBDA u, type : Spawned(u, type, gen), t, types)

\* ngx_start_worker_processes and ngx_start_cache_manager_processes: the
\* processes they spawn.  The loader is not respawned.
StartTypes(just) ==
    [i \in 1 .. WorkerN |-> Type(TRUE, just, FALSE)] \o
    (IF Cache THEN <<Type(TRUE, just, FALSE), Type(FALSE, just, FALSE)>>
              ELSE <<>>)

\* What is spawned when the forks with an index in bad fail.
Without(types, bad) ==
    FoldLeft(LAMBDA acc, i : IF i \in bad THEN acc ELSE Append(acc, types[i]),
             <<>>, [i \in 1 .. Len(types) |-> i])

\* A call fails.
Fail == failures < MaxFailures /\ failures' = failures + 1

\* The choices of failing forks among n.
Failing(n) ==
    UNION {kSubset(k, 1 .. n) : k \in {0} \cup 1 .. MaxFailures - failures}

Table == [procs |-> procs, kids |-> kids]
SetTable(t) == procs' = t.procs /\ kids' = t.kids

\* The table after the start of all processes, but for the forks in bad, and
\* the failures with the ones that did not start.
Started(just, bad, gen) ==
    SpawnedAll(Table, Without(StartTypes(just), bad), gen)
NotStarted(t) == failures + Len(StartTypes(FALSE)) + Len(kids) - Len(t.kids)

\* The first processes are started before the loop.
Init ==
    /\ \E bad \in SUBSET (1 .. Len(StartTypes(FALSE))) :
          LET t == SpawnedAll([procs |-> <<>>, kids |-> <<>>],
                              Without(StartTypes(FALSE), bad), 1)
          IN  /\ procs = t.procs /\ kids = t.kids
              /\ Cardinality(bad) <= MaxFailures
              /\ failures = Cardinality(bad)
    /\ flags = {}
    /\ noaccepting = FALSE
    /\ newBinary = 0
    /\ live = TRUE
    /\ delay = 0 /\ sigio = 0
    /\ pc = "head"
    /\ config = 1
    /\ signals = 0 /\ crashes = 0

-----------------------------------------------------------------------------
(* ngx_signal_worker_processes *)

\* Mutant: just_spawn is not tested.
ToldTooEarly(x, sig) ==
    ~x.detached /\ x.pid # 0 /\ ~(x.exiting /\ sig = "quit")

\* The slots whose process gets the signal: a detached one never does, one
\* that was just spawned is spared once, an exiting one is not told twice.
Told(x, sig) ==
    ~x.detached /\ x.pid # 0 /\ ~x.just /\ ~(x.exiting /\ sig = "quit")

\* Mutant: just_spawn is not reset.
SlotAfterKeepsJust(x, told, gone, sig) ==
    [x EXCEPT !.exited = @ \/ gone,
              !.exiting = ~gone /\ (@ \/ (told /\ sig # "reopen"))]

\* A slot after the signal: told says whether the signal was for it, gone
\* whether kill() failed.
SlotAfter(x, told, gone, sig) ==
    [x EXCEPT !.just = FALSE,
              !.exited = @ \/ gone,
              !.exiting = ~gone /\ (@ \/ (told /\ sig # "reopen"))]

\* t after the signal, and whether kill() failed with ESRCH: it does for a
\* child that was waited for already, in the slot of a failed respawn.
Signalled(t, sig) ==
    LET told == {s \in 1 .. Len(t.procs) : Told(t.procs[s], sig)}
        gone == {s \in told : t.kids[t.procs[s].pid].state = "gone"}
        hit == {t.procs[s].pid : s \in told \ gone}
    IN  [procs |-> [s \in 1 .. Len(t.procs) |->
             SlotAfter(t.procs[s], s \in told, s \in gone, sig)],
         kids |-> [p \in 1 .. Len(t.kids) |->
             IF p \in hit /\ sig # "reopen"
             THEN [t.kids[p] EXCEPT !.cmd = sig] ELSE t.kids[p]],
         esrch |-> IF gone # {} THEN {"reap"} ELSE {}]

-----------------------------------------------------------------------------
(* sigsuspend() and ngx_signal_handler *)

\* Mutant: the delay is not doubled.
ArmSameDelay ==
    /\ pc = "head"
    /\ pc' = "suspend"
    /\ sigio' = IF "sigalrm" \in flags THEN 0 ELSE sigio
    /\ flags' = flags \ {"sigalrm"}
    /\ UNCHANGED <<procs, kids, noaccepting, newBinary, live, delay, config,
                   bounds>>

\* The head of the loop: after an alarm the delay doubles, and the timer is
\* set again.
Arm ==
    /\ pc = "head"
    /\ pc' = "suspend"
    /\ IF delay > 0 /\ "sigalrm" \in flags
       THEN /\ sigio' = 0 /\ delay' = 2 * delay
            /\ flags' = flags \ {"sigalrm"}
       ELSE UNCHANGED <<sigio, delay, flags>>
    /\ UNCHANGED <<procs, kids, noaccepting, newBinary, live, config, bounds>>

Suspended == pc \in {"suspend", "woken"}

\* A signal of the administrator.  USR2 is ignored while a new binary runs.
Signal(sig) ==
    /\ Suspended /\ pc' = "woken"
    /\ signals < MaxSignals /\ signals' = signals + 1
    /\ flags' = IF sig = "change_binary" /\ newBinary > 0 THEN flags
                ELSE flags \cup {sig}
    /\ UNCHANGED <<procs, kids, noaccepting, newBinary, live, delay, sigio,
                   config, crashes, failures>>

\* The timer of the termination cycle.
Sigalrm ==
    /\ Suspended /\ pc' = "woken"
    /\ delay > 0 /\ delay <= MaxDelay
    /\ flags' = flags \cup {"sigalrm"}
    /\ UNCHANGED <<procs, kids, noaccepting, newBinary, live, delay, sigio,
                   config, bounds>>

\* A child's end of a channel was closed or written to.
Sigio ==
    /\ Suspended /\ pc' = "woken"
    /\ UNCHANGED <<procs, kids, flags, noaccepting, newBinary, live, delay,
                   sigio, config, bounds>>

\* SIGCHLD: ngx_process_get_status waits for every zombie.  A child that
\* exited with code 2 is not respawned.
Sigchld ==
    /\ Suspended /\ pc' = "woken"
    /\ Zombies # {}
    /\ flags' = flags \cup {"reap"}
    /\ kids' = [p \in 1 .. Len(kids) |->
                   [kids[p] EXCEPT !.state = IF p \in Zombies THEN "gone"
                                                              ELSE @]]
    /\ \E fatal \in SUBSET Zombies :
          /\ failures + Cardinality(fatal) <= MaxFailures
          /\ failures' = failures + Cardinality(fatal)
          /\ procs' = [s \in 1 .. Len(procs) |->
                [procs[s] EXCEPT !.exited = @ \/ procs[s].pid \in Zombies,
                                 !.respawn = @ /\ procs[s].pid \notin fatal]]
    /\ UNCHANGED <<noaccepting, newBinary, live, delay, sigio, config,
                   signals, crashes>>

\* sigsuspend() returns.
Wake ==
    /\ pc = "woken"
    /\ pc' = "reap"
    /\ UNCHANGED <<procs, kids, flags, noaccepting, newBinary, live, delay,
                   sigio, config, bounds>>

-----------------------------------------------------------------------------
(* ngx_reap_children *)

Stopping == flags \cap {"terminate", "quit"} # {}

\* Mutant: a slot in the middle of the table shortens it as well.
TrimmedAlways(ps, released) ==
    IF released # {} THEN Front(ps) ELSE ps

\* ngx_last_process-- when the last slot was released.
Trimmed(ps, released) ==
    IF Len(ps) \in released THEN Front(ps) ELSE ps

Respawns(x) == x.exited /\ x.respawn /\ ~x.exiting /\ ~Stopping

\* Mutant: a slot that is not in use counts.
LiveUnused(again) ==
    again # {} \/ \E s \in 1 .. Len(procs) :
        ~procs[s].exited /\ (procs[s].exiting \/ ~procs[s].detached)

\* Mutant: live is not set after a respawn.
LiveNoRespawn(again) ==
    \E s \in 1 .. Len(procs) :
        /\ procs[s].pid # 0 /\ ~procs[s].exited
        /\ procs[s].exiting \/ ~procs[s].detached

\* The result of ngx_reap_children, which respawned the slots in again.
Live(again) ==
    again # {} \/ \E s \in 1 .. Len(procs) :
        /\ procs[s].pid # 0 /\ ~procs[s].exited
        /\ procs[s].exiting \/ ~procs[s].detached

\* Mutant: the workers are not started again.
RestartForgotten(binary) == {}

\* ngx_restart, when the new binary exited.
RestartAfter(binary) == IF binary /\ noaccepting THEN {"restart"} ELSE {}

\* The forks for the slots in bad fail: their slots stay as they are.
Reap(bad) ==
    LET Slot == 1 .. Len(procs)
        due == {s \in Slot : procs[s].pid # 0 /\ Respawns(procs[s])}
        again == due \ bad
        released == {s \in Slot : procs[s].pid # 0 /\ procs[s].exited} \ due
        binary == \E s \in released : procs[s].pid = newBinary
    IN  /\ pc = "reap" /\ pc' = "stop"
        /\ "reap" \in flags
        /\ bad \subseteq due /\ failures' = failures + Cardinality(bad)
        /\ procs' = Trimmed([s \in Slot |->
                        CASE s \in again ->
                               [procs[s] EXCEPT !.exited = FALSE, !.pid =
                                   Len(kids) + Cardinality(again \cap 1 .. s)]
                          [] s \in released -> Unused
                          [] OTHER -> procs[s]], released)
        /\ kids' = kids \o [i \in 1 .. Cardinality(again) |->
                               NewKid(config, FALSE)]
        /\ live' = Live(again)
        /\ newBinary' = IF binary THEN 0 ELSE newBinary
        /\ noaccepting' = (noaccepting /\ ~binary)
        /\ flags' = (flags \ {"reap"}) \cup RestartAfter(binary)
        /\ UNCHANGED <<delay, sigio, config, signals, crashes>>

NoReap ==
    /\ pc = "reap" /\ pc' = "stop"
    /\ "reap" \notin flags
    /\ UNCHANGED <<procs, kids, flags, noaccepting, newBinary, live, delay,
                   sigio, config, bounds>>

-----------------------------------------------------------------------------
(* The rest of ngx_master_process_cycle *)

\* ngx_master_process_exit
MasterExit ==
    /\ pc = "stop" /\ pc' = "exited"
    /\ ~live /\ Stopping
    /\ UNCHANGED <<procs, kids, flags, noaccepting, newBinary, live, delay,
                   sigio, config, bounds>>

\* One round of signals, then as many wakeups without one as there are
\* processes to wait for; after a second SIGKILL takes the place of SIGTERM.
Terminate ==
    /\ pc = "stop" /\ pc' = "head"
    /\ live /\ "terminate" \in flags
    /\ delay' = IF delay = 0 THEN 50 ELSE delay
    /\ IF sigio > 0
       THEN sigio' = sigio - 1 /\ UNCHANGED <<procs, kids, flags>>
       ELSE LET t == Signalled(Table, IF delay' > 1000 THEN "kill"
                                                       ELSE "terminate")
            IN  /\ sigio' = WorkerN + 2
                /\ SetTable(t)
                /\ flags' = flags \cup t.esrch
    /\ UNCHANGED <<noaccepting, newBinary, live, config, bounds>>

Quit ==
    /\ pc = "stop" /\ pc' = "head"
    /\ live /\ "quit" \in flags /\ "terminate" \notin flags
    /\ LET t == Signalled(Table, "quit")
       IN  SetTable(t) /\ flags' = flags \cup t.esrch
    /\ UNCHANGED <<noaccepting, newBinary, live, delay, sigio, config, bounds>>

NoStop ==
    /\ pc = "stop" /\ pc' = "reload"
    /\ ~Stopping
    /\ UNCHANGED <<procs, kids, flags, noaccepting, newBinary, live, delay,
                   sigio, config, bounds>>

\* With a new binary running, HUP brings the workers of this one back.
ReloadBinary(bad) ==
    /\ pc = "reload" /\ pc' = "head"
    /\ "reconfigure" \in flags /\ newBinary # 0
    /\ LET t == Started(FALSE, bad, config)
       IN  SetTable(t) /\ failures' = NotStarted(t)
    /\ flags' = flags \ {"reconfigure"}
    /\ noaccepting' = FALSE
    /\ UNCHANGED <<newBinary, live, delay, sigio, config, signals, crashes>>

\* ngx_init_cycle returns NULL: the old configuration stays.
ReloadFailed ==
    /\ pc = "reload" /\ pc' = "head"
    /\ "reconfigure" \in flags /\ newBinary = 0
    /\ Fail
    /\ flags' = flags \ {"reconfigure"}
    /\ UNCHANGED <<procs, kids, noaccepting, newBinary, live, delay, sigio,
                   config, signals, crashes>>

\* New workers first, then the old ones are told to quit.
Reload(bad) ==
    /\ pc = "reload" /\ pc' = "restart"
    /\ "reconfigure" \in flags /\ newBinary = 0
    /\ config' = config + 1
    /\ LET t == Signalled(Started(TRUE, bad, config + 1), "quit")
       IN  /\ SetTable(t) /\ failures' = NotStarted(t)
           /\ flags' = (flags \ {"reconfigure"}) \cup t.esrch
    /\ live' = TRUE
    /\ UNCHANGED <<noaccepting, newBinary, delay, sigio, signals, crashes>>

NoReload ==
    /\ pc = "reload" /\ pc' = "restart"
    /\ "reconfigure" \notin flags
    /\ UNCHANGED <<procs, kids, flags, noaccepting, newBinary, live, delay,
                   sigio, config, bounds>>

\* The new binary died after the old workers were told to quit.
Restart(bad) ==
    /\ pc = "restart" /\ pc' = "reopen"
    /\ IF "restart" \in flags
       THEN /\ LET t == Started(FALSE, bad, config)
               IN  SetTable(t) /\ failures' = NotStarted(t)
            /\ live' = TRUE
       ELSE bad = {} /\ UNCHANGED <<procs, kids, live, failures>>
    /\ flags' = flags \ {"restart"}
    /\ UNCHANGED <<noaccepting, newBinary, delay, sigio, config, signals,
                   crashes>>

\* Log files are reopened, and the workers told to do so.
Reopen ==
    /\ pc = "reopen" /\ pc' = "change"
    /\ IF "reopen" \in flags
       THEN LET t == Signalled(Table, "reopen")
            IN  SetTable(t) /\ flags' = (flags \ {"reopen"}) \cup t.esrch
       ELSE UNCHANGED <<procs, kids, flags>>
    /\ UNCHANGED <<noaccepting, newBinary, live, delay, sigio, config, bounds>>

\* ngx_exec_new_binary returns the pid, or NGX_INVALID_PID when something on
\* the way to fork() or fork() itself fails.
ChangeBinary(ok) ==
    LET t == Spawned(Table, Type(FALSE, FALSE, TRUE), config)
    IN  /\ pc = "change" /\ pc' = "noaccept"
        /\ IF "change_binary" \notin flags
           THEN ok /\ UNCHANGED <<procs, kids, newBinary, failures>>
           ELSE IF ok
           THEN /\ SetTable(t) /\ failures' = failures
                /\ newBinary' = IF t = Table THEN -1 ELSE Len(t.kids)
           ELSE /\ Fail /\ newBinary' = -1
                /\ UNCHANGED <<procs, kids>>
        /\ flags' = flags \ {"change_binary"}
        /\ UNCHANGED <<noaccepting, live, delay, sigio, config, signals,
                       crashes>>

Noaccept ==
    /\ pc = "noaccept" /\ pc' = "head"
    /\ IF "noaccept" \in flags
       THEN LET t == Signalled(Table, "quit")
            IN  /\ SetTable(t)
                /\ flags' = (flags \ {"noaccept"}) \cup t.esrch
                /\ noaccepting' = TRUE
       ELSE UNCHANGED <<procs, kids, flags, noaccepting>>
    /\ UNCHANGED <<newBinary, live, delay, sigio, config, bounds>>

-----------------------------------------------------------------------------
(* The children *)

Die(p) == kids' = [kids EXCEPT ![p].state = "zombie"]

\* A child exits as it was told to.
ChildExit(p) ==
    /\ p \in Alive /\ kids[p].cmd # "none"
    /\ Die(p)
    /\ UNCHANGED <<procs, flags, noaccepting, newBinary, live, delay, sigio,
                   pc, config, bounds>>

\* A child crashes or exits by itself, like the cache loader and a new binary.
ChildCrash(p) ==
    /\ p \in Alive
    /\ crashes < MaxCrashes /\ crashes' = crashes + 1
    /\ Die(p)
    /\ UNCHANGED <<procs, flags, noaccepting, newBinary, live, delay, sigio,
                   pc, config, signals, failures>>

-----------------------------------------------------------------------------
\* The steps between two calls of sigsuspend().
Iteration ==
    \/ Arm \/ Wake \/ NoReap
    \/ \E bad \in Failing(Len(procs)) : Reap(bad)
    \/ MasterExit \/ Terminate \/ Quit \/ NoStop
    \/ \E bad \in Failing(Len(StartTypes(TRUE))) :
           ReloadBinary(bad) \/ Reload(bad) \/ Restart(bad)
    \/ NoReload \/ ReloadFailed \/ Reopen
    \/ (\E ok \in BOOLEAN : ChangeBinary(ok)) \/ Noaccept

Next ==
    \/ Iteration
    \/ \E sig \in Signals : Signal(sig)
    \/ Sigalrm \/ Sigio \/ Sigchld
    \/ \E p \in 1 .. Len(kids) : ChildExit(p) \/ ChildCrash(p)

Spec == Init /\ [][Next]_vars

\* The master runs: the loop comes back to sigsuspend(), which is weak fairness
\* of Iteration, one of whose steps is always possible elsewhere.  A pending
\* SIGCHLD is delivered by the next sigsuspend(), and the alarm in the end:
\* nothing wakes the master up for ever faster than its timer.  A killed child
\* dies, and one that was told to quit finishes in the end; one that was told
\* to terminate may ignore it.
FairSpec ==
    /\ Spec
    /\ []<>(pc \in {"suspend", "exited"})
    /\ SF_vars(Sigchld) /\ SF_vars(Sigalrm)
    /\ WF_vars(\E p \in 1 .. Len(kids) :
                   kids[p].cmd \in {"quit", "kill"} /\ ChildExit(p))

-----------------------------------------------------------------------------
(* Properties *)

\* The table knows every child: what waitpid() can return is in a slot below
\* ngx_last_process that is not marked as exited, so that no child escapes a
\* signal, and the search in ngx_process_get_status never fails.
ChildrenTracked ==
    \A p \in Alive \cup Zombies :
        \E s \in 1 .. Len(procs) : procs[s].pid = p /\ ~procs[s].exited

\* A master whose ngx_new_binary is 0 exits after its last child, whatever was
\* reloaded, respawned, told to exit or failed to start before: no upgrade was
\* tried, or its new binary has died and was reaped.  Otherwise (a new binary
\* runs, or the last upgrade failed and left -1) HUP starts workers without
\* setting live, and the master may leave them behind: NobodyLeftBehind.
MasterExitsLast ==
    pc = "exited" /\ newBinary = 0 => Alive \cup Zombies = {}

\* The master exits when live is 0, that is after its last child; only a new
\* binary survives it.
NobodyLeftBehind ==
    pc = "exited" => \A p \in Alive \cup Zombies : kids[p].binary

\* When the master sleeps, every worker of an older configuration has been
\* told to exit: a reload leaves none behind.
OldWorkersTold ==
    Suspended => \A p \in Alive :
        kids[p].gen < config /\ ~kids[p].binary => kids[p].cmd # "none"

\* A worker that runs the current configuration is told to exit only when the
\* master stops or stops accepting, never by the reload that started it.
CurrentWorkersSpared ==
    [][\A p \in 1 .. Len(kids') :
           /\ kids'[p].cmd # "none" /\ kids'[p].gen = config'
           /\ p \in 1 .. Len(kids) => kids[p].cmd = "none"
           => flags \cap {"terminate", "quit", "noaccept"} # {}]_vars

\* A master that was not told to stop, or to stop accepting, keeps its
\* workers: whenever it sleeps, a slot for each of them and for the cache
\* manager holds a process that was not told to exit or is yet to be reaped.
\* This is about executions without a failing call (failures = 0): a fork that
\* fails, a full table or a worker that exits with code 2 does cost a worker.
WorkersKept ==
    Suspended /\ ~Stopping /\ ~noaccepting /\ failures = 0
        => Cardinality({s \in 1 .. Len(procs) :
               procs[s].pid # 0 /\ procs[s].respawn /\ ~procs[s].exiting})
           >= WorkerN + (IF Cache THEN 1 ELSE 0)

\* HUP without a new binary running reads the configuration again, unless that
\* fails: man/nginx.8, "Reload configuration, start the new worker process".
ReloadReconfigures ==
    [][pc = "reload" /\ "reconfigure" \in flags
       /\ ~(\E p \in Alive \cup Zombies : kids[p].binary)
           => config' = config + 1 \/ failures' > failures
                \/ pc' = "reload"]_vars

\* TERM ends the master, whatever its workers do.
TerminateEnds == "terminate" \in flags ~> pc = "exited"

\* QUIT ends the master when the workers finish.
QuitEnds == "quit" \in flags ~> pc = "exited"
=============================================================================
