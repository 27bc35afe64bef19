------------------------------ MODULE ConnPool ------------------------------
(***************************************************************************)
(* The connection pool of a worker (src/src/core/ngx_connection.c), the    *)
(* queue of reusable connections, the queue of posted events and the way   *)
(* ngx_epoll_process_events hands events to connections that may have been *)
(* closed, and opened again for another socket, since epoll_wait returned. *)
(*                                                                         *)
(* One worker is one thread of control: an action is one call.  Which call *)
(* a handler makes next is left open, so the actions of Handler may be     *)
(* taken between any two events.                                           *)
(***************************************************************************)
EXTENDS Integers, FiniteSets, SequencesExt

CONSTANTS
    Conn,        \* the connections of the pool, cycle->connections
    DrainRounds, \* the rounds of ngx_drain_connections, 32 in the code
    MaxOpens     \* bound on connections opened in all

ASSUME ConnPoolAssumption ==
    /\ IsFiniteSet(Conn) /\ Conn # {}
    /\ DrainRounds \in Nat \ {0}
    /\ MaxOpens \in Nat

VARIABLES
    free,       \* the free_connections list, first element first
    freeN,      \* free_connection_n
    open,       \* the connections with c->fd # -1
    instance,   \* instance[c]: the bit rev->instance and wev->instance
    active,     \* the connections with rev->active
    reusable,   \* reusable_connections_queue, head first
    posted,     \* ngx_posted_events, first element first
    batch,      \* what is left of event_list after epoll_wait
    posting,    \* NGX_POST_EVENTS in this iteration
    running,    \* the handler of the event dispatched last is running
    gen,        \* history: gen[c] counts the sockets c has stood for
    late,       \* history: for events that reached a handler, how many
                \* sockets later the connection stood for another one
    opens       \* the bounded counter

pool == <<free, freeN, open, instance, active, reusable, gen>>
vars == <<pool, posted, batch, posting, running, late, opens>>

\* An entry of event_list: the pointer and the bit that data.ptr carries,
\* with the socket it is about.
Event == [conn : Conn, instance : {0, 1}, gen : 0 .. MaxOpens]

\* A posted event, with the socket that the connection stood for.
PostedEvent == [conn : Conn, gen : 0 .. MaxOpens]

TypeOK ==
    /\ free \in Seq(Conn)
    /\ freeN \in 0 .. Cardinality(Conn)
    /\ open \subseteq Conn
    /\ instance \in [Conn -> {0, 1}]
    /\ active \subseteq Conn
    /\ reusable \in Seq(Conn)
    /\ posted \in Seq(PostedEvent)
    /\ batch \in Seq(Event)
    /\ posting \in BOOLEAN
    /\ running \in BOOLEAN
    /\ gen \in [Conn -> 0 .. MaxOpens]
    /\ late \subseteq 0 .. MaxOpens
    /\ opens \in 0 .. MaxOpens

\* ngx_event_process_init links the whole pool into the free list.
Init ==
    /\ free = SetToSeq(Conn)
    /\ freeN = Cardinality(Conn)
    /\ open = {}
    /\ instance = [c \in Conn |-> 1]
    /\ active = {}
    /\ reusable = <<>>
    /\ posted = <<>>
    /\ batch = <<>>
    /\ posting = FALSE
    /\ running = FALSE
    /\ gen = [c \in Conn |-> 0]
    /\ late = {}
    /\ opens = 0

-----------------------------------------------------------------------------
(* ngx_close_connection, for a set of connections closed one by one *)

Without(seq, cs) == SelectSeq(seq, LAMBDA c : c \notin cs)
WithoutPosted(seq, cs) == SelectSeq(seq, LAMBDA e : e.conn \notin cs)

\* The last k connections of the reusable queue, the last one first.
Oldest(k) == [i \in 1 .. k |-> reusable[Len(reusable) + 1 - i]]

\* Mutants: the connection stays in the reusable queue; its posted events stay
\* posted; free_connection_n is not updated, or is updated twice.
ClosedStillReusable(cs) ==
    [free     |-> Reverse(cs) \o free,
     freeN    |-> freeN + Len(cs),
     open     |-> open \ ToSet(cs),
     active   |-> active \ ToSet(cs),
     reusable |-> reusable,
     posted   |-> WithoutPosted(posted, ToSet(cs))]

ClosedStillPosted(cs) ==
    [free     |-> Reverse(cs) \o free,
     freeN    |-> freeN + Len(cs),
     open     |-> open \ ToSet(cs),
     active   |-> active \ ToSet(cs),
     reusable |-> Without(reusable, ToSet(cs)),
     posted   |-> posted]

ClosedUncounted(cs) ==
    [free     |-> Reverse(cs) \o free,
     freeN    |-> freeN,
     open     |-> open \ ToSet(cs),
     active   |-> active \ ToSet(cs),
     reusable |-> Without(reusable, ToSet(cs)),
     posted   |-> WithoutPosted(posted, ToSet(cs))]

ClosedCountedTwice(cs) ==
    [free     |-> Reverse(cs) \o free,
     freeN    |-> freeN + 2 * Len(cs),
     open     |-> open \ ToSet(cs),
     active   |-> active \ ToSet(cs),
     reusable |-> Without(reusable, ToSet(cs)),
     posted   |-> WithoutPosted(posted, ToSet(cs))]

\* The pool after ngx_close_connection on each element of cs in turn: each
\* one is pushed on the free list.
Closed(cs) ==
    [free     |-> Reverse(cs) \o free,
     freeN    |-> freeN + Len(cs),
     open     |-> open \ ToSet(cs),
     active   |-> active \ ToSet(cs),
     reusable |-> Without(reusable, ToSet(cs)),
     posted   |-> WithoutPosted(posted, ToSet(cs))]

\* A handler closes an open connection.
Close(c) ==
    /\ c \in open
    /\ LET p == Closed(<<c>>)
       IN  /\ free' = p.free /\ freeN' = p.freeN
           /\ open' = p.open /\ active' = p.active
           /\ reusable' = p.reusable /\ posted' = p.posted
    /\ UNCHANGED <<instance, batch, posting, running, gen, late, opens>>

-----------------------------------------------------------------------------
(* ngx_get_connection *)

\* With an empty free list the last k reusable connections are closed by
\* their read handlers.  A handler may have to wait (an SSL shutdown) and then
\* the connection stays last in the queue, so k may be less than all.
Drained(k) == IF free = <<>> THEN Closed(Oldest(k)) ELSE Closed(<<>>)

\* ngx_get_connection takes the head of the free list and flips its bit.  The
\* caller registers the socket in epoll (kept), or something fails for the new
\* socket and ngx_close_accepted_connection pushes the connection back.
GetConnection(kept) ==
    /\ opens < MaxOpens /\ opens' = opens + 1
    /\ \E k \in 0 .. Len(reusable) :
          LET p == Drained(k)
              c == Head(p.free)
          IN  /\ k <= DrainRounds
              /\ free # <<>> => k = 0
              /\ p.free # <<>>
              /\ free' = IF kept THEN Tail(p.free) ELSE p.free
              /\ freeN' = IF kept THEN p.freeN - 1 ELSE p.freeN
              /\ open' = IF kept THEN p.open \cup {c} ELSE p.open
              /\ active' = IF kept THEN p.active \cup {c} ELSE p.active
              /\ reusable' = p.reusable
              /\ posted' = p.posted
              /\ instance' = [instance EXCEPT ![c] = 1 - @]
              /\ gen' = [gen EXCEPT ![c] = @ + 1]
    /\ UNCHANGED <<batch, posting, running, late>>

\* ngx_reusable_connection(c, 1) and ngx_reusable_connection(c, 0)
SetReusable(c, yes) ==
    /\ c \in open
    /\ reusable' = (IF yes THEN <<c>> ELSE <<>>) \o Without(reusable, {c})
    /\ UNCHANGED <<free, freeN, open, instance, active, gen, posted, batch,
                   posting, running, late, opens>>

-----------------------------------------------------------------------------
(* ngx_epoll_process_events and ngx_event_process_posted *)

\* epoll_wait reports some of the active sockets, in any order, or none when a
\* timer is due.
EpollWait ==
    /\ batch = <<>> /\ posted = <<>>
    /\ \E cs \in SUBSET active : \E s \in SetToSeqs(cs) :
          batch' = [i \in 1 .. Len(s) |->
                       [conn |-> s[i], instance |-> instance[s[i]],
                        gen |-> gen[s[i]]]]
    /\ posting' \in BOOLEAN
    /\ running' = FALSE
    /\ UNCHANGED <<pool, posted, late, opens>>

\* Mutant: only the descriptor is tested.
StaleByFd(e) == e.conn \notin open

\* if (c->fd == -1 || rev->instance != instance) the event is stale.
Stale(e) == e.conn \notin open \/ instance[e.conn] # e.instance

IsPosted(c) == \E i \in 1 .. Len(posted) : posted[i].conn = c

\* The next event: skipped when stale or not active, posted in front of the
\* queue (once) with NGX_POST_EVENTS, handed to the connection otherwise.
Dispatch ==
    /\ batch # <<>>
    /\ batch' = Tail(batch)
    /\ LET e == Head(batch)
           deliver == ~Stale(e) /\ e.conn \in active
       IN  /\ posted' = IF deliver /\ posting /\ ~IsPosted(e.conn)
                        THEN <<[conn |-> e.conn, gen |-> gen[e.conn]]>>
                                \o posted
                        ELSE posted
           /\ running' = (deliver /\ ~posting)
           /\ late' = IF deliver THEN late \cup {gen[e.conn] - e.gen} ELSE late
    /\ UNCHANGED <<pool, posting, opens>>

\* ngx_event_process_posted takes the first event off and runs its handler.
ProcessPosted ==
    /\ batch = <<>> /\ posted # <<>>
    /\ posted' = Tail(posted)
    /\ UNCHANGED <<pool, batch, posting, running, late, opens>>

Handler ==
    \/ \E kept \in BOOLEAN : GetConnection(kept)
    \/ \E c \in Conn : Close(c)
    \/ \E c \in Conn, yes \in BOOLEAN : SetReusable(c, yes)

\* A handler runs from an event that was dispatched without NGX_POST_EVENTS,
\* or, when the whole batch is dealt with, from a timer or a posted event.
Next ==
    \/ (running \/ batch = <<>>) /\ Handler
    \/ EpollWait \/ Dispatch \/ ProcessPosted

Spec == Init /\ [][Next]_vars

-----------------------------------------------------------------------------
(* Properties *)

\* The pool is partitioned: a connection is on the free list, exactly once,
\* or it has a socket; free_connection_n, from which ngx_event_accept computes
\* ngx_accept_disabled, is the length of the list.
PoolPartition ==
    /\ freeN = Len(free)
    /\ \A i, j \in 1 .. Len(free) : free[i] = free[j] => i = j
    /\ \A c \in Conn : c \in open <=> \A i \in 1 .. Len(free) : free[i] # c

\* The reusable queue holds open connections, each of them once: draining
\* never closes a connection twice.
ReusableOpen ==
    /\ \A i \in 1 .. Len(reusable) : reusable[i] \in open
    /\ \A i, j \in 1 .. Len(reusable) : reusable[i] = reusable[j] => i = j

\* Every posted event is about the socket that its connection stands for now:
\* ngx_close_connection takes the events of a closed connection off the queue.
PostedCurrent ==
    \A i \in 1 .. Len(posted) :
        posted[i].conn \in open /\ posted[i].gen = gen[posted[i].conn]

\* An event of the former socket of a connection never reaches its handler:
\* one reuse since epoll_wait changes the instance bit, and so does any odd
\* number of them.
ReuseDetected == \A n \in late : n % 2 = 0

\* The instance bit tells an event of any former socket of the connection from
\* an event of its current one.
StaleDetected == late \subseteq {0}
=============================================================================
