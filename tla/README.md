# nginx: TLA+ models, model checking and proofs

This directory specifies parts of the nginx 1.0 sources under `src/src`: the
shared memory mutex, the accept mutex with the event loop of the workers, the
connection pool with the dispatch of epoll events, and the master process.
`PROJECT.json` maps every definition to the source lines it models, and lists
runs, mutants, hazards, findings and theorems.

## 1. The system

A *master* process reads the configuration, opens the listening sockets, forks
*workers*, and restarts the ones that die.  Each worker is one thread that runs an
event loop: it waits in `epoll_wait`, dispatches events to the handlers of
connections, expires timers and runs posted events.  Workers share listening
sockets and memory zones; the zones and the accept turn are protected by mutexes
built on one atomic word.

| Part | Source | State | Operations | Interacts with | Hard behaviours |
|---|---|---|---|---|---|
| shared memory mutex | core/ngx_shmtx.c | lock word (held bit and waiter count), semaphore | trylock, lock, unlock | every shared zone, accept mutex | stale local copies of the word, failing semaphore calls |
| accept mutex, event loop | event/ngx_event.c, ngx_event_accept.c | held flag, disabled counter, epoll registrations | loop iteration, trylock, enable, disable, accept | mutex, pool, master | crash with the mutex, error returns, load balancing |
| connection pool | core/ngx_connection.c | free list, reusable queue | get, free, close, reusable, drain | epoll, posted events | reuse inside a batch of events, draining from inside a handler |
| epoll module | event/modules/ngx_epoll_module.c | event list, instance bits | add, delete, process events | pool, posted events | stale events |
| posted events | event/ngx_event_posted.c | two queues | post, delete, process | epoll, pool | close with events still queued |
| timers | event/ngx_event_timer.c | red-black tree, cached clock | add, delete, expire | event loop | wrap of the millisecond counter, handlers that change the tree |
| master and workers | os/unix/ngx_process*.c, ngx_channel.c | process table, signal flags, channels | spawn, reap, signal, reload, upgrade | accept mutex | signals between steps, failed forks |
| slab allocator | core/ngx_slab.c | pages, bitmaps, free runs | alloc, free | zones | merging of runs, bitmap edges |
| balancer and upstream | http/ngx_http_upstream*.c | weights, failures, tried set | get peer, free peer, next upstream | timers, pool | all peers down, retries |
| file cache, limits | http/ngx_http_file_cache.c, modules/ngx_http_limit_* | shared trees and queues | lookup, update, expire | slab, mutex | workers interleaving, crash while updating |
| open file cache | core/ngx_open_file_cache.c | tree, expire queue, use counts | open, cleanup, expire | timers | entry dropped while in use |
| resolver | core/ngx_resolver.c | names, expire and resend queues | resolve, answer, timeout, cancel | timers | late answers |
| requests | http/ngx_http_request.c, ngx_http_postpone_filter_module.c | reference count, posted requests, postponed output | run, finalize, subrequest | pool, upstream | termination inside callbacks, order of output |
| buffers | core/ngx_output_chain.c, event/ngx_event_pipe.c | free and busy chains | read, write | upstream | ownership of a buffer |
| containers, pools, strings | core/ngx_palloc.c and others | | | all | sequential code |
| configuration, cycle | core/ngx_cycle.c, ngx_conf_file.c | the cycle | init, reload | master | rollback of a failed reload |
| parsers, content modules, mail, ssl | http/, mail/, event/ngx_event_openssl.c | | | requests | mostly data |

What should hold: a mutex has one holder and wakes its sleepers; one worker at a
time waits on the listening sockets; every path returns the accept mutex, also
after a crash; queued connections are served; a connection is free or open, never
both; an event reaches only the socket it is about; the master keeps its workers
running, knows every one of them, and exits when told to, after all of them.

## 2. Modules

* `ShmtxWord` - the lock word and the arithmetic on it.
* `Shmtx` - `ngx_shmtx_trylock`, `ngx_shmtx_lock`, `ngx_shmtx_unlock`.  A step is
  one access to the word or the semaphore, so the local `val` may be stale when
  it is used; `pc[p]` is the place in the code.  A spin round is one failed
  attempt; its pauses are left out.  `AbstractMutex` says what the mutex promises.
* `ShmtxProofs` - the theorems about `Shmtx`.
* `AcceptLoop` - the workers.  `pc[w]` follows `ngx_process_events_and_timers`:
  `loop` (the mutex decision), `enable`/`disable`, `wait` (`epoll_wait`),
  `accept` (the accept handlers), `unlock`, `posted` (timers, posted events,
  then the signal flags of `ngx_worker_process_cycle`), `return` (the iteration
  was left early).  `Reap` is the master's `waitpid`.  The accept mutex has no
  semaphore and is only tried; each call is one step, its compare-and-set.
  `owner` is a history variable.
* `ConnPool` - the pool of one worker with the batch of events it is working on.
  Which call a handler makes next is open.  `gen` and `late` are history
  variables: which socket a connection stands for, and how many sockets too late
  events reached a handler.
* `MasterCycle` - the master process.  `procs` is `ngx_processes` up to
  `ngx_last_process`, `kids` the children as the kernel knows them, `flags` the
  variables that the signal handler sets.  All signals are blocked except in
  `sigsuspend`, so the handler runs only at `pc` = `suspend` and `woken`; the
  other values of `pc` are the `if` statements of the loop in their order, and
  one step is one of them with all it calls.  Children exit between any two
  steps.  A fork that fails, a spawn refused by a full table, a reload that fails
  and a worker that exits with code 2 count as `failures`.
* `MCShmtx`, `MCAcceptLoop`, `MCConnPool`, `MCMasterCycle` - instances for TLC.

A definition whose comment starts with "Mutant" is a wrong variant of the
definition after it, and shows that a property can fail.

## 3. Runs

| Run | Checks | Bounds |
|---|---|---|
| shmtx | exclusion, the lock bit, the accounting of sleepers, no lost wakeup, refinement of `AbstractMutex`, somebody gets the mutex | 3 processes: holder, sleeper, and one acting between the steps of both; one spin round; one failing call of each kind; HighBit 8 leaves room for every sleeper |
| accept_mutex | held means owner, one listener | 3 workers, 2 sockets, pool of 7, so that `ngx_accept_disabled` is never above 0; one exit and one crash; no failing system call |
| accept_load | the mutex is given back on every path; its owner never waits without a listening socket; the queue is served | 2 workers, with and without `accept_mutex`, pool of 16 with one free connection so that `ngx_accept_disabled` reaches 2; 3 connections, so that one arrives when both workers are full; a failing call, a crash |
| accept_stale_held | finding 1 | |
| accept_orphan | finding 2 | |
| pool | the free list, the reusable queue, the posted queue, the instance bit | 3 connections, 6 opens: every connection can be reused, one of them several times in one batch; 2 rounds of draining instead of 32, so that the limit is met before the reusable queue is empty |
| pool_reused_twice | finding 3 | |
| master_table | no child falls out of the table, a reload replaces the old workers and only those, workers come back when a new binary dies, a master whose `ngx_new_binary` is 0 exits last | 1 worker, 4 signals of any kind (USR2 and WINCH, HUP, then QUIT or TERM: an upgrade that runs, dies or fails, a reload on top of it, and the end), a crash, a failing call; a table of 3, which two reloads fill; MaxDelay 0: a further round of TERM comes from SIGIO and SIGCHLD, the alarms are in master_stop |
| master_stop | TERM and QUIT end the master | 1 worker, 3 signals (a reload first, so that old and new worker run), a crash; MaxDelay 1600 is the first delay that sends SIGKILL |
| master_orphans | finding 4 | |
| master_reload | finding 5 | |
| master_no_children | finding 6 | |

With `Cache = TRUE`, two signals and a table of 5 `master_table` holds as well, but
takes 3.6 million states; the kept instance leaves the cache processes out.  It also
holds with two failing calls (2.6 million states), and with MaxDelay 100 (4.2 million).  The
mutex without a semaphore, which is what the accept mutex is, is not run but
covered by the theorems, whose constants include it; its progress is not checked.
`LockProgress` excludes a failed `sem_post`, after which a sleeper is forgotten.
`MasterExitsLast` is about masters whose `ngx_new_binary` is 0 at the end: no upgrade
was tried, or its new binary died and was reaped, which recomputes `live`.  With a
new binary running, or after an upgrade that failed and left -1, it is false:
finding 4 is the same statement about all masters.  `WorkersKept` is about
executions without a failing call; a failed fork does cost a worker.

The properties of `accept_mutex` are false without its bounds: with failing calls
or `ngx_accept_disabled > 0` a worker keeps sockets or the flag without the mutex.
This is why `accept_load` checks only that the mutex is given back, and that its
owner has a listening socket to wait for (`OwnerListens`).  After a failing call it
need not have all of them.  A worker whose `epoll_ctl` failed for the second of two
sockets while it added them gets EEXIST for the first one in every later attempt.
One whose `epoll_ctl` failed while it removed them keeps `ngx_accept_mutex_held`;
if it then wins the mutex, the early return at `ngx_event_accept.c:304` adds nothing
back, and it waits with the remaining sockets only, if need be for ever.
`QueueServed` therefore excludes failing calls, and a crash with the mutex
(finding 2).

**Fairness.** A process that has entered the mutex code keeps running and critical
sections end (weak fairness of `Step(p)`): they are short pieces of code without
blocking calls.  A worker keeps running, and the master reaps and restarts
workers.  Not assumed: that anybody calls the mutex, that anything fails, or that
a worker that waits with the accept mutex and nothing to accept wakes up (its
timer may be infinite).  A worker without the mutex wakes up, by
`accept_mutex_delay` or the timers of its connections.

The master comes back to `sigsuspend` from every place in its loop.  SIGCHLD is
strongly fair, because a pending signal is delivered by the next `sigsuspend`, which
opens the mask in every iteration, whatever other signal woke the master before.
SIGALRM is strongly fair for another reason: `setitimer` (`ngx_process_cycle.c:210`)
starts the timer anew in every iteration, so the alarm is not pending but put off by
each wakeup.  The assumption is that the other signals do not for ever come faster
than the delay; they come from children that end and from an administrator.  A child that was sent SIGKILL dies; that a child that was only
told to quit does so is assumed, that one told to terminate does is not.

## 4. Findings

1. `accept_stale_held`: `ngx_accept_mutex_held` stays 1 after the unlock.  In an
   iteration with `ngx_accept_disabled > 0` the worker does not try the mutex but
   unlocks it (`ngx_event.c:273`), also when another worker owns it.
2. `accept_orphan`: the master frees the accept mutex of a dead worker by
   comparing the word with the worker's pid (`ngx_process.c:518`); the word never
   holds a pid, only the top bit, so the mutex stays locked.
3. `pool_reused_twice`: the instance bit has two values, so a connection that is
   reused twice while a batch is dispatched accepts a stale event.
4. `master_orphans`: HUP while a new binary runs starts workers without setting
   `live` (`ngx_process_cycle.c:295`).  After USR2 and WINCH have left the old
   master without workers, HUP and QUIT make it exit and leave the new workers.
   The run has no failing calls.  With one, the upgrade need not even succeed: it
   leaves -1 in `ngx_new_binary`, and WINCH, HUP and QUIT do the rest.
5. `master_reload`: a failed USR2 leaves -1 in `ngx_new_binary`, which the loop
   takes for a running new binary (`ngx_process_cycle.c:294`): HUP then adds a set
   of workers and reads no configuration.
6. `master_no_children`: `live` is 1 at the start even if every fork failed
   (`ngx_process_cycle.c:192`); nothing recomputes it without a SIGCHLD, so TERM
   does not end such a master.

## 5. Proofs

`ShmtxProofs` proves, for any finite set of processes, any number of spin rounds,
with or without a semaphore and for any bound on failing calls: `TypeCorrect`,
`Exclusion`, `LockBit`, `Accounting`, `Wakeup`, `NoWaiters` and the refinement
`Implements`.  The assumption is that the word can count all sleepers, forgotten
ones included (`ShmtxAssumption`).

The inductive invariant `IInv` conjoins the type invariant with the properties
themselves and `NoSemaphoreSteps` (nobody is in the semaphore code without a
semaphore).  Exclusion needs the lock bit: a compare-and-set that succeeds shows
that the bit is clear *now*, hence that nobody holds the mutex.  The lock bit
needs exclusion: the unlock clears the bit of the only holder.  Type correctness
needs the accounting: the waiter count cannot run into the top bit because every
counted process is asleep or was forgotten by one of boundedly many failing calls,
and the one that registers is neither.  The counting steps use the cardinality
theorems of the library, with one lemma for how a step changes the sets of
sleeping and posting processes.

Only model-checked: the liveness properties, which are beyond the prover, and
everything about `AcceptLoop`, `ConnPool` and `MasterCycle`.

## 6. Plan

1. `Channels`: the socket pairs between the processes, with descriptors, messages
   and the workers' copies of the process table; the two hazards at
   `ngx_process_cycle.c:731` and `ngx_process.c:201` need it.
2. `Timers` (wrap of the clock, expiry) on an ordered tree; `Slab` pages.
3. `RoundRobin` (weights, failures, tried set), `LimitReq`, `FileCache`: shared
   zones under the mutex, with a crash of a worker.
4. `OpenFileCache`, `Resolver`, `Requests` (reference count), `EventPipe`.
5. Proofs: `LockedOnlyWhileServing` of `AcceptLoop` (invariant: the owner's `pc`
   and the lock bit agree, and `held` at the unlock follows from ownership);
   `PoolPartition`, `ReusableOpen` and `PostedCurrent` of `ConnPool`;
   `ChildrenTracked` of `MasterCycle`.

## 7. Not modelled

The file-lock variant of the mutex, `ngx_spinlock` and the threaded build; event
modules other than epoll; the write half of an event (it repeats the stale check
of the read half); a connection that is open but not in the epoll set (`rev->active`
follows `open` in `ConnPool`); opening of sockets; of the master, the channels, pid files,
reuse of a pid by the kernel, a change of the number of workers by a reload, a USR2
to a binary whose parent still runs, and the single-process mode; parsers, content and filter modules, mail
and SSL, which transform data and have little control that a small instance would
exercise.  `PROJECT.json` lists every part with its status.  The
models stand for about 2170 of the 125,000 lines of C, under 2%: the control of the
processes and of the event loop, and nothing yet of the parts the plan names.
