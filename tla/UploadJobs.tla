------------------------------ MODULE UploadJobs ------------------------------
(***************************************************************************)
(* The background upload store of jobs/uploads.py: submit, _run, get,      *)
(* list's pruning, and close.                                              *)
(*                                                                         *)
(* Every critical section of the class is free of await, and asyncio.Lock  *)
(* grants an unlocked lock without suspending.  The code between two       *)
(* suspension points of a coroutine therefore runs as one atomic step, and *)
(* the steps below are exactly those segments: a task is suspended only    *)
(* before its first step ("created") and inside runner() ("awaiting");     *)
(* close() is suspended only inside gather() ("gathering").                *)
(***************************************************************************)
EXTENDS Integers, FiniteSets

CONSTANTS
  Job,        \* upload requests: an opened local file and the uuid it gets
  Capacity,   \* UploadJobStore.capacity
  TTL,        \* UploadJobStore.ttl
  MaxTime     \* bound of the wall clock

ASSUME StoreAssumption ==
  /\ Capacity \in Nat \ {0}
  /\ TTL \in Nat \ {0}
  /\ MaxTime \in Nat

VARIABLES
  now,         \* datetime.now(UTC); a wall clock, which may be set back
  jobs,        \* the keys of _jobs
  born,        \* insertion number of each key: the order of the OrderedDict
  submitted,   \* how many keys were ever inserted
  status,      \* UploadJob.status ("none": no such object)
  expires,     \* UploadJob.expires_at
  handle,      \* the descriptor of the AllowedLocalFile
  task,        \* the asyncio task running _run(job_id)
  registered,  \* the keys of _tasks
  cancelling,  \* tasks on which cancel() was called
  closed,      \* _closed
  closer       \* where the coroutine close() is

vars == <<now, jobs, born, submitted, status, expires, handle, task,
          registered, cancelling, closed, closer>>

Active == {"queued", "running"}
Terminal == {"completed", "failed", "cancelled"}

TypeOK ==
  /\ now \in 0..MaxTime
  /\ jobs \in SUBSET Job
  /\ born \in [Job -> Nat]
  /\ submitted \in Nat
  /\ status \in [Job -> {"none"} \cup Active \cup Terminal]
  /\ expires \in [Job -> Nat]
  /\ handle \in [Job -> {"none", "open", "closed"}]
  /\ task \in [Job -> {"none", "created", "awaiting", "done"}]
  /\ registered \in SUBSET Job
  /\ cancelling \in SUBSET Job
  /\ closed \in BOOLEAN
  /\ closer \in {"idle", "gathering", "done", "aborted"}

Init ==
  /\ now = 0
  /\ jobs = {}
  /\ born = [j \in Job |-> 0]
  /\ submitted = 0
  /\ status = [j \in Job |-> "none"]
  /\ expires = [j \in Job |-> 0]
  /\ handle = [j \in Job |-> "none"]
  /\ task = [j \in Job |-> "none"]
  /\ registered = {}
  /\ cancelling = {}
  /\ closed = FALSE
  /\ closer = "idle"

-----------------------------------------------------------------------------
(* Retention: _prune_locked and _evict_terminal_locked.                    *)

Ended(S) == {j \in S : status[j] \in Terminal}

PrunedAnyStatus(S) == {j \in S : expires[j] > now}

Pruned(S) == S \ {j \in Ended(S) : expires[j] <= now}

Older(j, S) == {i \in S : born[i] < born[j]}

Younger(j, S) == {i \in S : born[i] > born[j]}

EvictedAnyStatus(S) ==
  {j \in S : Cardinality(S) - Cardinality(Older(j, S)) < Capacity}

\* The loop pops the oldest ended job while the store is full, so a job goes
\* when the store is still full after every ended job older than it has gone.
Evicted(S) ==
  S \ {j \in Ended(S) :
         Cardinality(S) - Cardinality(Older(j, Ended(S))) >= Capacity}

HasRoomOffByOne(S) == Cardinality(S) <= Capacity

HasRoom(S) == Cardinality(S) < Capacity

-----------------------------------------------------------------------------
(* submit(), called right after the file was opened: no suspension between *)
(* open_allowed_local_file and the end of submit.                          *)

Fresh(j) == handle[j] = "none"

SubmitClosed(j) ==
  /\ Fresh(j)
  /\ closed
  /\ handle' = [handle EXCEPT ![j] = "closed"]
  /\ UNCHANGED <<now, jobs, born, submitted, status, expires, task,
                 registered, cancelling, closed, closer>>

SubmitFull(j) ==
  /\ Fresh(j)
  /\ ~closed
  /\ LET kept == Evicted(Pruned(jobs)) IN
       /\ ~HasRoom(kept)
       /\ jobs' = kept
  /\ handle' = [handle EXCEPT ![j] = "closed"]
  /\ UNCHANGED <<now, born, submitted, status, expires, task,
                 registered, cancelling, closed, closer>>

SubmitAccepted(j) ==
  /\ Fresh(j)
  /\ ~closed
  /\ LET kept == Evicted(Pruned(jobs)) IN
       /\ HasRoom(kept)
       /\ jobs' = kept \cup {j}
  /\ submitted' = submitted + 1
  /\ born' = [born EXCEPT ![j] = submitted + 1]
  /\ status' = [status EXCEPT ![j] = "queued"]
  /\ expires' = [expires EXCEPT ![j] = now + TTL]
  /\ handle' = [handle EXCEPT ![j] = "open"]
  /\ task' = [task EXCEPT ![j] = "created"]
  /\ registered' = registered \cup {j}
  /\ UNCHANGED <<now, cancelling, closed, closer>>

Submit(j) == SubmitClosed(j) \/ SubmitFull(j) \/ SubmitAccepted(j)

-----------------------------------------------------------------------------
(* _run(): the first step of the task, and the last one for each way the   *)
(* runner can end.  The finally block runs in that same last step.         *)

Start(j) ==
  /\ task[j] = "created"
  /\ j \notin cancelling
  /\ status[j] = "queued"
  /\ status' = [status EXCEPT ![j] = "running"]
  /\ task' = [task EXCEPT ![j] = "awaiting"]
  /\ UNCHANGED <<now, jobs, born, submitted, expires, handle, registered,
                 cancelling, closed, closer>>

Settle(j, outcome) ==
  /\ status' = [status EXCEPT ![j] = outcome]
  /\ expires' = [expires EXCEPT ![j] = now + TTL]

ReleaseKeepsHandle(j) ==
  /\ registered' = registered \ {j}
  /\ task' = [task EXCEPT ![j] = "done"]
  /\ UNCHANGED handle

Release(j) ==
  /\ handle' = IF j \in jobs THEN [handle EXCEPT ![j] = "closed"] ELSE handle
  /\ registered' = registered \ {j}
  /\ task' = [task EXCEPT ![j] = "done"]

Leave(j, recorded, outcome) ==
  /\ task[j] = "awaiting"
  /\ IF recorded THEN Settle(j, outcome) ELSE UNCHANGED <<status, expires>>
  /\ Release(j)
  /\ UNCHANGED <<now, jobs, born, submitted, cancelling, closed, closer>>

\* A pending cancel() replaces the result the awaited future already has.
RunnerReturns(j) ==
  /\ j \notin cancelling
  /\ Leave(j, status[j] = "running", "completed")

\* The runner may still raise while it unwinds from a cancellation.
RunnerRaises(j) ==
  Leave(j, j \in jobs /\ status[j] = "running", "failed")

RunnerCancelled(j) ==
  /\ j \in cancelling
  /\ Leave(j, j \in jobs /\ status[j] \in Active, "cancelled")

\* A task cancelled before its first step never enters _run: neither its
\* handler nor its finally block runs.
CancelledUnstarted(j) ==
  /\ task[j] = "created"
  /\ j \in cancelling
  /\ task' = [task EXCEPT ![j] = "done"]
  /\ UNCHANGED <<now, jobs, born, submitted, status, expires, handle,
                 registered, cancelling, closed, closer>>

-----------------------------------------------------------------------------
(* get() and list() prune before they read.                                *)

Query ==
  /\ jobs' = Pruned(jobs)
  /\ UNCHANGED <<now, born, submitted, status, expires, handle, task,
                 registered, cancelling, closed, closer>>

-----------------------------------------------------------------------------
(* close()                                                                 *)

FinalPassCloseOnly ==
  /\ handle' = [j \in Job |-> IF j \in jobs THEN "closed" ELSE handle[j]]
  /\ closer' = "done"
  /\ UNCHANGED <<status, expires>>

FinalPassStatusOnly ==
  /\ status' = [j \in Job |->
       IF j \in jobs /\ status[j] \in Active THEN "cancelled" ELSE status[j]]
  /\ closer' = "done"
  /\ UNCHANGED <<expires, handle>>

FinalPass ==
  /\ status' = [j \in Job |->
       IF j \in jobs /\ status[j] \in Active THEN "cancelled" ELSE status[j]]
  /\ expires' = [j \in Job |->
       IF j \in jobs /\ status[j] \in Active THEN now + TTL ELSE expires[j]]
  /\ handle' = [j \in Job |-> IF j \in jobs THEN "closed" ELSE handle[j]]
  /\ closer' = "done"

\* No task to wait for: close() runs through without suspending.
CloseIdle ==
  /\ ~closed
  /\ registered = {}
  /\ closed' = TRUE
  /\ FinalPass
  /\ UNCHANGED <<now, jobs, born, submitted, task, registered, cancelling>>

CloseBegin ==
  /\ ~closed
  /\ registered # {}
  /\ closed' = TRUE
  /\ cancelling' = cancelling \cup registered
  /\ closer' = "gathering"
  /\ UNCHANGED <<now, jobs, born, submitted, status, expires, handle, task,
                 registered>>

RegistryEmpty == registered = {}

\* gather() has waited for the tasks that were cancelled.
GatherDone == \A j \in cancelling : task[j] = "done"

CloseFinish ==
  /\ closer = "gathering"
  /\ GatherDone
  /\ FinalPass
  /\ UNCHANGED <<now, jobs, born, submitted, task, registered, cancelling,
                 closed>>

\* The coroutine that called close() is itself cancelled inside gather():
\* the last pass never runs, and a second close() returns at once.
CloseInterrupted ==
  /\ closer = "gathering"
  /\ closer' = "aborted"
  /\ UNCHANGED <<now, jobs, born, submitted, status, expires, handle, task,
                 registered, cancelling, closed>>

Close == CloseIdle \/ CloseBegin \/ CloseFinish \/ CloseInterrupted

-----------------------------------------------------------------------------

ClockStep ==
  /\ now' \in 0..MaxTime
  /\ now' # now
  /\ UNCHANGED <<jobs, born, submitted, status, expires, handle, task,
                 registered, cancelling, closed, closer>>

TaskStep(j) ==
  \/ Start(j)
  \/ RunnerReturns(j)
  \/ RunnerRaises(j)
  \/ RunnerCancelled(j)
  \/ CancelledUnstarted(j)

Next ==
  \/ \E j \in Job : Submit(j) \/ TaskStep(j)
  \/ Query
  \/ Close
  \/ ClockStep

Spec == Init /\ [][Next]_vars

-----------------------------------------------------------------------------
(* Properties.                                                             *)

\* The store never holds more than its capacity of jobs (uploads.py:58-62,
\* "bounded trusted-local state").
Bounded == IsFiniteSet(jobs) /\ Cardinality(jobs) <= Capacity

\* Descriptor ownership: an open descriptor always belongs to a job that is
\* still in the store and has not ended, and such a job's descriptor is open.
\* A descriptor leaks if its job is pruned or evicted before the finally
\* block, or if a rejected submission keeps the file.
HandleOwned ==
  \A j \in Job : handle[j] = "open" <=> j \in jobs /\ status[j] \in Active

\* Until close() the registry of tasks is exactly the set of unfinished jobs:
\* no finished task stays in _tasks and no job runs that close() would miss.
TasksTracked ==
  ~closed => registered = {j \in jobs : status[j] \in Active}

\* When close() has returned, no task can take another step, no descriptor is
\* open and every job the store still lists has ended.
ClosedClean ==
  closer = "done" =>
    \A j \in Job :
      /\ task[j] \in {"none", "done"}
      /\ handle[j] # "open"
      /\ j \in jobs => status[j] \in Terminal

\* When close() was interrupted and the tasks have come to rest, the only
\* descriptors left open are those of jobs that never started.
AbortedLeaks ==
  (closer = "aborted" /\ \A j \in Job : task[j] \in {"none", "done"}) =>
    \A j \in Job : handle[j] = "open" => status[j] = "queued"

\* Shutdown leaves nothing behind, or exactly that.
ShutdownClean == ClosedClean /\ AbortedLeaks

\* A job ends once: neither a late runner, nor a cancellation, nor close()
\* rewrites the outcome a client may already have read.
OutcomeStable ==
  [][\A j \in Job : status[j] \in Terminal => status'[j] = status[j]]_vars

\* Only an ended job is forgotten, and only when its time is over or by a
\* submission that found the store full, and then no younger ended job goes
\* before it ("never evict active work", docs/security.md:22).
RetentionRespected ==
  [][\A j \in jobs \ jobs' :
       /\ status[j] \in Terminal
       /\ \/ expires[j] <= now
          \/ /\ Cardinality(Pruned(jobs)) >= Capacity
             /\ Older(j, Ended(jobs)) \cap jobs' = {}]_vars

=============================================================================
