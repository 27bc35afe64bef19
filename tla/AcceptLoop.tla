----------------------------- MODULE AcceptLoop -----------------------------
(***************************************************************************)
(* The event loops of the worker processes as far as accepting connections *)
(* goes: ngx_process_events_and_timers, ngx_trylock_accept_mutex and       *)
(* ngx_event_accept, with epoll as the event module, the accept mutex in   *)
(* shared memory, a worker's crash or exit and the master's waitpid().     *)
(*                                                                         *)
(* The accept mutex is an ngx_shmtx_t that is created with spin = -1, so   *)
(* it has no semaphore, and it is only ever taken by ngx_shmtx_trylock.    *)
(* Module Shmtx has the steps of trylock and unlock; here each of them is  *)
(* one step, the compare-and-set that decides it.                          *)
(***************************************************************************)
EXTENDS ShmtxWord, FiniteSets

CONSTANTS
    Worker,          \* the slots of the worker processes
    Pid,             \* Pid[w]: the process id in slot w
    NoOwner,         \* nobody owns the accept mutex
    Orphan,          \* the owner of a mutex that was held in a crash
    NListen,         \* number of listening sockets
    ConnectionN,     \* cycle->connection_n
    FreeN,           \* connections that are left for clients at the start
    AcceptMutex,     \* the values of "accept_mutex" to consider
    MultiAccept,     \* "multi_accept on"
    MaxClients,      \* bound on arriving connections
    MaxFailures,     \* bound on failing system calls and allocations
    MaxExits,        \* bound on workers told to quit or terminate
    MaxCrashes       \* bound on crashing workers

\* A process id is a small positive number, far below the top bit; the
\* listening sockets and the channel to the master have a connection each.
ASSUME AcceptLoopAssumption ==
    /\ Pid \in [Worker -> 1 .. HighBit - 1]
    /\ NoOwner \notin Worker /\ Orphan \notin Worker /\ NoOwner # Orphan
    /\ NListen \in Nat \ {0}
    /\ ConnectionN \in Nat /\ FreeN \in Nat
    /\ FreeN + NListen + 1 <= ConnectionN
    /\ AcceptMutex \subseteq BOOLEAN /\ MultiAccept \in BOOLEAN
    /\ {MaxClients, MaxFailures, MaxExits, MaxCrashes} \subseteq Nat

VARIABLES
    useMutex,   \* ngx_use_accept_mutex
    lock,       \* *ngx_accept_mutex.lock, shared by all processes
    owner,      \* history: the worker whose trylock set the lock last
    backlog,    \* backlog[l]: connections the kernel queued on socket l
    pc,         \* pc[w]: where worker w is in its loop
    held,       \* ngx_accept_mutex_held
    disabled,   \* ngx_accept_disabled
    post,       \* NGX_POST_EVENTS is set in this iteration
    active,     \* active[w]: the listening sockets in the epoll set of w
    accepting,  \* accept events that w collected and has not handled yet
    conns,      \* number of client connections of w
    exiting,    \* ngx_exiting
    clients, failures, exits, crashes    \* the bounded counters

worker == <<pc, held, disabled, post, active, accepting, conns, exiting>>
bounds == <<clients, failures, exits, crashes>>
vars == <<useMutex, lock, owner, backlog, worker, bounds>>

Listen == 1 .. NListen
PC == {"loop", "enable", "disable", "wait", "accept", "unlock", "posted",
       "return", "dead", "reaped"}

\* cycle->free_connection_n
Free(w) == FreeN - conns[w]

TypeOK ==
    /\ useMutex \in BOOLEAN
    /\ lock \in Word
    /\ owner \in Worker \cup {NoOwner, Orphan}
    /\ backlog \in [Listen -> 0 .. MaxClients]
    /\ pc \in [Worker -> PC]
    /\ held \in [Worker -> BOOLEAN]
    /\ disabled \in [Worker -> Int]
    /\ post \in [Worker -> BOOLEAN]
    /\ active \in [Worker -> SUBSET Listen]
    /\ accepting \in [Worker -> SUBSET Listen]
    /\ conns \in [Worker -> 0 .. FreeN]
    /\ exiting \in [Worker -> BOOLEAN]
    /\ clients \in 0 .. MaxClients
    /\ failures \in 0 .. MaxFailures
    /\ exits \in 0 .. MaxExits
    /\ crashes \in 0 .. MaxCrashes

\* What ngx_event_process_init registers: the mutex decides later.
InitialSockets == IF useMutex THEN {} ELSE Listen

Init ==
    /\ useMutex \in AcceptMutex
    /\ lock = 0
    /\ owner = NoOwner
    /\ backlog = [l \in Listen |-> 0]
    /\ pc = [w \in Worker |-> "loop"]
    /\ held = [w \in Worker |-> FALSE]
    /\ disabled = [w \in Worker |-> 0]
    /\ post = [w \in Worker |-> FALSE]
    /\ active = [w \in Worker |-> InitialSockets]
    /\ accepting = [w \in Worker |-> {}]
    /\ conns = [w \in Worker |-> 0]
    /\ exiting = [w \in Worker |-> FALSE]
    /\ clients = 0 /\ failures = 0 /\ exits = 0 /\ crashes = 0

Goto(w, label) == pc' = [pc EXCEPT ![w] = label]
Set(f, w, x) == [f EXCEPT ![w] = x]

\* A system call or an allocation fails.
Fail == failures < MaxFailures /\ failures' = failures + 1

\* A connection arrives in the kernel's queue of a listening socket.
Arrive(l) ==
    /\ clients < MaxClients
    /\ clients' = clients + 1
    /\ backlog' = [backlog EXCEPT ![l] = @ + 1]
    /\ UNCHANGED <<lock, owner, worker, failures, exits, crashes>>

-----------------------------------------------------------------------------
(* ngx_process_events_and_timers, up to ngx_process_events *)

UsesMutex(w) == useMutex /\ ~exiting[w]

\* if (ngx_accept_disabled > 0) the worker sits this iteration out.
SkipMutex(w) ==
    /\ pc[w] = "loop"
    /\ UsesMutex(w) => disabled[w] > 0
    /\ disabled' = IF UsesMutex(w) THEN Set(disabled, w, disabled[w] - 1)
                                   ELSE disabled
    /\ post' = Set(post, w, FALSE)
    /\ Goto(w, "wait")
    /\ UNCHANGED <<lock, owner, backlog, held, active, accepting, conns,
                   exiting, bounds>>

\* ngx_shmtx_trylock succeeds; a worker that kept the sockets in its epoll
\* set since last time is done, another one has to add them.
TrylockOk(w) ==
    /\ pc[w] = "loop"
    /\ UsesMutex(w) /\ disabled[w] <= 0
    /\ ~Locked(lock)
    /\ lock' = WithLock(lock)
    /\ owner' = w
    /\ post' = Set(post, w, TRUE)
    /\ Goto(w, IF held[w] THEN "wait" ELSE "enable")
    /\ UNCHANGED <<backlog, held, disabled, active, accepting, conns,
                   exiting, bounds>>

TrylockFailed(w) ==
    /\ pc[w] = "loop"
    /\ UsesMutex(w) /\ disabled[w] <= 0
    /\ Locked(lock)
    /\ post' = Set(post, w, FALSE)
    /\ Goto(w, IF held[w] THEN "disable" ELSE "wait")
    /\ UNCHANGED <<lock, owner, backlog, held, disabled, active, accepting,
                   conns, exiting, bounds>>

\* ngx_enable_accept_events.  EPOLL_CTL_ADD fails on a socket that is
\* already in the set.
Enable(w) ==
    /\ pc[w] = "enable"
    /\ active[w] = {}
    /\ active' = Set(active, w, Listen)
    /\ held' = Set(held, w, TRUE)
    /\ Goto(w, "wait")
    /\ UNCHANGED <<lock, owner, backlog, disabled, post, accepting, conns,
                   exiting, bounds>>

\* Mutant: the error return forgets the mutex.
EnableFailedKeepsLock(w, l) ==
    /\ pc[w] = "enable"
    /\ active[w] \cap 1 .. (l - 1) = {}
    /\ IF l \in active[w] THEN failures' = failures ELSE Fail
    /\ active' = Set(active, w, active[w] \cup 1 .. (l - 1))
    /\ Goto(w, "return")
    /\ UNCHANGED <<lock, owner, backlog, held, disabled, post, accepting,
                   conns, exiting, clients, exits, crashes>>

\* It fails at socket l: the sockets before it stay in the set, the mutex is
\* given back, and ngx_process_events_and_timers returns.
EnableFailed(w, l) ==
    /\ pc[w] = "enable"
    /\ active[w] \cap 1 .. (l - 1) = {}
    /\ IF l \in active[w] THEN failures' = failures ELSE Fail
    /\ active' = Set(active, w, active[w] \cup 1 .. (l - 1))
    /\ lock' = Unlocked(lock)
    /\ owner' = NoOwner
    /\ Goto(w, "return")
    /\ UNCHANGED <<backlog, held, disabled, post, accepting, conns, exiting,
                   clients, exits, crashes>>

\* Mutant: the flag is not reset.
DisableKeepsFlag(w) ==
    /\ pc[w] = "disable"
    /\ active' = Set(active, w, {})
    /\ Goto(w, "wait")
    /\ UNCHANGED <<lock, owner, backlog, held, disabled, post, accepting,
                   conns, exiting, bounds>>

\* Mutant: the sockets stay in the epoll set.
DisableKeepsSockets(w) ==
    /\ pc[w] = "disable"
    /\ held' = Set(held, w, FALSE)
    /\ Goto(w, "wait")
    /\ UNCHANGED <<lock, owner, backlog, disabled, post, active, accepting,
                   conns, exiting, bounds>>

\* ngx_disable_accept_events skips the sockets that are not active.
Disable(w) ==
    /\ pc[w] = "disable"
    /\ active' = Set(active, w, {})
    /\ held' = Set(held, w, FALSE)
    /\ Goto(w, "wait")
    /\ UNCHANGED <<lock, owner, backlog, disabled, post, accepting, conns,
                   exiting, bounds>>

\* Mutant: the socket whose EPOLL_CTL_DEL failed is taken for removed.
DisableFailedDrops(w, l) ==
    /\ pc[w] = "disable"
    /\ l \in active[w]
    /\ Fail
    /\ active' = Set(active, w, active[w] \ 1 .. l)
    /\ Goto(w, "return")
    /\ UNCHANGED <<lock, owner, backlog, held, disabled, post, accepting,
                   conns, exiting, clients, exits, crashes>>

\* It fails at socket l: the sockets before it have left the set, held stays
\* set and the iteration ends.
DisableFailed(w, l) ==
    /\ pc[w] = "disable"
    /\ l \in active[w]
    /\ Fail
    /\ active' = Set(active, w, active[w] \ 1 .. (l - 1))
    /\ Goto(w, "return")
    /\ UNCHANGED <<lock, owner, backlog, held, disabled, post, accepting,
                   conns, exiting, clients, exits, crashes>>

-----------------------------------------------------------------------------
(* ngx_process_events, ngx_event_accept and the rest of the iteration *)

Ready(w) == {l \in active[w] : backlog[l] > 0}

\* epoll_wait returns the ready sockets.  Without NGX_POST_EVENTS the handlers
\* of client events run here as well and may close k connections.
Collect(w) ==
    /\ pc[w] = "wait"
    /\ Ready(w) # {}
    /\ accepting' = Set(accepting, w, Ready(w))
    /\ \E k \in 0 .. conns[w] :
          /\ post[w] => k = 0
          /\ conns' = Set(conns, w, conns[w] - k)
    /\ Goto(w, "accept")
    /\ UNCHANGED <<lock, owner, backlog, held, disabled, post, active,
                   exiting, bounds>>

\* epoll_wait returns without an accept event: a timer or a client event.
Timeout(w) ==
    /\ pc[w] = "wait"
    /\ Ready(w) = {}
    /\ Goto(w, "accept")
    /\ UNCHANGED <<lock, owner, backlog, held, disabled, post, active,
                   accepting, conns, exiting, bounds>>

\* accept() returned a connection from socket l.  ngx_accept_disabled is
\* computed before ngx_get_connection, which drains idle connections when
\* none is free.
Taken(w, l, drained) ==
    /\ pc[w] = "accept"
    /\ l \in accepting[w]
    /\ backlog[l] > 0
    /\ backlog' = [backlog EXCEPT ![l] = @ - 1]
    /\ disabled' = Set(disabled, w, ConnectionN \div 8 - Free(w))
    /\ Free(w) > 0 => drained = 0

\* Mutant: a connection is taken although none is free.
AcceptUnchecked(w, l) ==
    /\ Taken(w, l, 0)
    /\ conns' = Set(conns, w, conns[w] + 1)
    /\ accepting' = Set(accepting, w, accepting[w] \ {l})
    /\ UNCHANGED <<lock, owner, pc, held, post, active, exiting, bounds>>

\* The connection is served, or closed at once when none was free for it.
Accept(w, l) ==
    /\ \E drained \in 0 .. conns[w] :
          LET got == Free(w) + drained > 0
          IN  /\ Taken(w, l, drained)
              /\ conns' = Set(conns, w, conns[w] - drained
                                         + (IF got THEN 1 ELSE 0))
              /\ accepting' = IF got /\ MultiAccept THEN accepting
                              ELSE Set(accepting, w, accepting[w] \ {l})
    /\ UNCHANGED <<lock, owner, pc, held, post, active, exiting, bounds>>

\* Something fails for the new connection: ngx_close_accepted_connection.
AcceptClosed(w, l) ==
    /\ \E drained \in 0 .. conns[w] :
          /\ Taken(w, l, drained)
          /\ Free(w) + drained > 0
          /\ conns' = Set(conns, w, conns[w] - drained)
    /\ Fail
    /\ accepting' = Set(accepting, w, accepting[w] \ {l})
    /\ UNCHANGED <<lock, owner, pc, held, post, active, exiting, clients,
                   exits, crashes>>

\* accept() finds nothing: another worker was faster, or it has them all.
AcceptAgain(w, l) ==
    /\ pc[w] = "accept"
    /\ l \in accepting[w]
    /\ backlog[l] = 0
    /\ accepting' = Set(accepting, w, accepting[w] \ {l})
    /\ UNCHANGED <<lock, owner, backlog, pc, held, disabled, post, active,
                   conns, exiting, bounds>>

\* The peer reset the queued connection: ECONNABORTED.
AcceptAborted(w, l) ==
    /\ pc[w] = "accept"
    /\ l \in accepting[w]
    /\ backlog[l] > 0
    /\ Fail
    /\ backlog' = [backlog EXCEPT ![l] = @ - 1]
    /\ accepting' = IF MultiAccept THEN accepting
                    ELSE Set(accepting, w, accepting[w] \ {l})
    /\ UNCHANGED <<lock, owner, pc, held, disabled, post, active, conns,
                   exiting, clients, exits, crashes>>

\* accept() fails otherwise: the connection stays queued.
AcceptFailed(w, l) ==
    /\ pc[w] = "accept"
    /\ l \in accepting[w]
    /\ Fail
    /\ accepting' = Set(accepting, w, accepting[w] \ {l})
    /\ UNCHANGED <<lock, owner, backlog, pc, held, disabled, post, active,
                   conns, exiting, clients, exits, crashes>>

AcceptDone(w) ==
    /\ pc[w] = "accept"
    /\ accepting[w] = {}
    /\ Goto(w, "unlock")
    /\ UNCHANGED <<lock, owner, backlog, held, disabled, post, active,
                   accepting, conns, exiting, bounds>>

\* Mutant: the mutex is not unlocked.
UnlockDropped(w) ==
    /\ pc[w] = "unlock"
    /\ Goto(w, "posted")
    /\ UNCHANGED <<lock, owner, backlog, held, disabled, post, active,
                   accepting, conns, exiting, bounds>>

\* if (ngx_accept_mutex_held) ngx_shmtx_unlock(&ngx_accept_mutex)
Unlock(w) ==
    /\ pc[w] = "unlock"
    /\ lock' = IF held[w] THEN Unlocked(lock) ELSE lock
    /\ owner' = IF held[w] THEN NoOwner ELSE owner
    /\ Goto(w, "posted")
    /\ UNCHANGED <<backlog, held, disabled, post, active, accepting, conns,
                   exiting, bounds>>

\* Timers and posted events close k connections, unless the iteration was
\* left early; no signal was caught and the loop of the worker goes round.
Posted(w) ==
    /\ pc[w] \in {"posted", "return"}
    /\ \E k \in 0 .. conns[w] :
          /\ pc[w] = "return" => k = 0
          /\ conns' = Set(conns, w, conns[w] - k)
    /\ Goto(w, "loop")
    /\ UNCHANGED <<lock, owner, backlog, held, disabled, post, active,
                   accepting, exiting, bounds>>

-----------------------------------------------------------------------------
(* The end of a worker, and the next one in its slot *)

\* ngx_quit: ngx_close_listening_sockets, then serve what is left.
Quit(w) ==
    /\ pc[w] \in {"posted", "return"}
    /\ ~exiting[w]
    /\ exits < MaxExits
    /\ exits' = exits + 1
    /\ held' = Set(held, w, FALSE)
    /\ active' = Set(active, w, {})
    /\ exiting' = Set(exiting, w, TRUE)
    /\ Goto(w, "loop")
    /\ UNCHANGED <<lock, owner, backlog, disabled, post, accepting, conns,
                   clients, failures, crashes>>

\* ngx_worker_process_exit: told to quit and no timer left, or told to
\* terminate.
Exit(w) ==
    /\ \/ pc[w] = "loop" /\ exiting[w] /\ exits' = exits
       \/ /\ pc[w] \in {"posted", "return"}
          /\ exits < MaxExits
          /\ exits' = exits + 1
    /\ Goto(w, "dead")
    /\ UNCHANGED <<lock, owner, backlog, held, disabled, post, active,
                   accepting, conns, exiting, clients, failures, crashes>>

\* A worker is killed, wherever it is.
Crash(w) ==
    /\ pc[w] \notin {"dead", "reaped"}
    /\ crashes < MaxCrashes
    /\ crashes' = crashes + 1
    /\ owner' = IF owner = w THEN Orphan ELSE owner
    /\ Goto(w, "dead")
    /\ UNCHANGED <<lock, backlog, held, disabled, post, active, accepting,
                   conns, exiting, clients, failures, exits>>

\* ngx_process_get_status in the master, after waitpid() returned Pid[w]:
\* ngx_atomic_cmp_set(ngx_accept_mutex_ptr, pid, 0).
Reap(w) ==
    /\ pc[w] = "dead"
    /\ lock' = IF lock = Pid[w] THEN 0 ELSE lock
    /\ owner' = IF lock = Pid[w] THEN NoOwner ELSE owner
    /\ Goto(w, "reaped")
    /\ UNCHANGED <<backlog, held, disabled, post, active, accepting, conns,
                   exiting, bounds>>

\* The master starts a new worker in the slot: ngx_event_process_init.
Respawn(w) ==
    /\ pc[w] = "reaped"
    /\ held' = Set(held, w, FALSE)
    /\ disabled' = Set(disabled, w, 0)
    /\ post' = Set(post, w, FALSE)
    /\ active' = Set(active, w, InitialSockets)
    /\ accepting' = Set(accepting, w, {})
    /\ conns' = Set(conns, w, 0)
    /\ exiting' = Set(exiting, w, FALSE)
    /\ Goto(w, "loop")
    /\ UNCHANGED <<lock, owner, backlog, bounds>>

-----------------------------------------------------------------------------
\* The steps of a worker that is neither idle nor told anything.
Step(w) ==
    \/ SkipMutex(w) \/ TrylockOk(w) \/ TrylockFailed(w)
    \/ Enable(w) \/ Disable(w) \/ Collect(w)
    \/ (Timeout(w) /\ ~post[w])
    \/ \E l \in Listen : Accept(w, l) \/ AcceptAgain(w, l)
    \/ AcceptDone(w) \/ Unlock(w) \/ Posted(w)

Failure(w) ==
    \E l \in Listen :
        \/ EnableFailed(w, l) \/ DisableFailed(w, l)
        \/ AcceptAborted(w, l) \/ AcceptClosed(w, l) \/ AcceptFailed(w, l)

Lifecycle(w) == Quit(w) \/ Exit(w) \/ Crash(w) \/ Reap(w) \/ Respawn(w)

Next ==
    /\ \/ \E l \in Listen : Arrive(l)
       \/ \E w \in Worker :
             Step(w) \/ Timeout(w) \/ Failure(w) \/ Lifecycle(w)
    /\ useMutex' = useMutex

Spec == Init /\ [][Next]_vars

\* Workers keep running and the master reaps and restarts them.  A worker
\* that waits with the mutex and has nothing to accept may wait for ever (its
\* timer may be infinite); one without the mutex wakes up after
\* accept_mutex_delay or by the timers of its connections.
FairSpec ==
    /\ Spec
    /\ \A w \in Worker : /\ WF_vars(Step(w) /\ useMutex' = useMutex)
                          /\ WF_vars((Reap(w) \/ Respawn(w))
                                       /\ useMutex' = useMutex)

-----------------------------------------------------------------------------
(* Properties *)

\* From ngx_process_events to the unlock: where the code relies on the mutex.
Serving(w) == pc[w] \in {"wait", "accept", "unlock"}

\* The mutex is never left locked by a worker that goes on to timers, posted
\* events, its next iteration, or that exits: on every path, the error returns
\* included, the owner is on its way to the unlock.  Only a crash orphans it.
LockedOnlyWhileServing ==
    Locked(lock) =>
        \/ owner = Orphan
        \/ \E w \in Worker : owner = w /\ (Serving(w) \/ pc[w] = "enable")

\* A worker that reaches ngx_process_events with ngx_accept_mutex_held set
\* owns the mutex until it unlocks it.
HeldMeansOwner ==
    \A w \in Worker : Serving(w) /\ held[w] => owner = w

\* No worker unlocks a mutex that another worker owns.
NoForeignUnlock ==
    \A w \in Worker :
        pc[w] = "unlock" /\ held[w] => owner \in {w, NoOwner, Orphan}

\* The point of the accept mutex: one worker at a time has listening sockets
\* in the epoll set that it waits on, so one connection wakes one worker.
OneListener ==
    useMutex =>
        \A v, w \in Worker :
            /\ Serving(v) /\ active[v] # {}
            /\ Serving(w) /\ active[w] # {}
            => v = w

\* A worker that waits with the mutex, and may wait for ever, has something to
\* accept from: every listening socket, or, when a system call has failed, at
\* least one.  ngx_trylock_accept_mutex returns early when
\* ngx_accept_mutex_held is set and adds no socket then.  The flag also
\* survives an ngx_disable_accept_events that fails half way, so the worker
\* that wins the mutex again waits with the sockets that were left.
OwnerListens ==
    \A w \in Worker :
        owner = w /\ Serving(w)
            => active[w] = Listen \/ (failures > 0 /\ active[w] # {})

\* The mutex that a crashed worker held is free again once the master has
\* reaped the worker.
OrphanReleased == owner = Orphan => \E w \in Worker : pc[w] = "dead"

\* Every queued connection is taken from the queue in the end, also when all
\* workers are at their connection limit; only system calls that fail, and a
\* crash with the mutex, may prevent it.
QueueServed ==
    \A l \in Listen :
        backlog[l] > 0 ~> backlog[l] = 0 \/ failures > 0 \/ owner = Orphan
=============================================================================
