-------------------------- MODULE Application_proofs --------------------------
(***************************************************************************)
(* Proofs about UploadJobs, the pages of UploadListing and Application, for *)
(* every capacity, TTL and page size, and for all valid settings, requests *)
(* and calls.  The invariant of Application contains that of UploadJobs.   *)
(***************************************************************************)
EXTENDS Application, UploadListing, FiniteSetTheorems, TLAPS

\* What holds of one job at every suspension point of the event loop.
JobInv(j) ==
  /\ handle[j] = "none" => task[j] = "none"
  /\ task[j] = "none" => status[j] = "none" /\ j \notin registered
  /\ j \in jobs => status[j] # "none"
  /\ task[j] = "created" =>
       status[j] = "queued" /\ j \in jobs /\ j \in registered
  /\ task[j] = "awaiting" =>
       status[j] = "running" /\ j \in jobs /\ j \in registered
  /\ task[j] = "done" =>
       \/ status[j] \in Terminal
       \/ status[j] = "queued" /\ j \in jobs /\ j \in cancelling
  /\ j \in registered /\ task[j] = "done" => j \in cancelling
  /\ closed /\ task[j] \in {"created", "awaiting"} => j \in cancelling

CloserInv ==
  /\ closed <=> closer # "idle"
  /\ ~closed => cancelling = {}

\* The strengthening that is inductive.
IndInv ==
  /\ TypeOK
  /\ IsFiniteSet(jobs)
  /\ \A j \in Job : JobInv(j)
  /\ HandleOwned
  /\ CloserInv
  /\ ClosedClean

LEMMA InitIndInv == Init => IndInv
  <1> SUFFICES ASSUME Init PROVE IndInv
    OBVIOUS
  <1>1. TypeOK
    <2>1. now \in 0..MaxTime /\ submitted \in Nat
      BY StoreAssumption DEF Init
    <2>2. born \in [Job -> Nat] /\ expires \in [Job -> Nat]
      BY DEF Init
    <2>3. /\ status \in [Job -> {"none"} \cup Active \cup Terminal]
          /\ handle \in [Job -> {"none", "open", "closed"}]
          /\ task \in [Job -> {"none", "created", "awaiting", "done"}]
      BY DEF Init
    <2> QED
      BY <2>1, <2>2, <2>3 DEF Init, TypeOK
  <1>2. IsFiniteSet(jobs)
    BY FS_EmptySet DEF Init
  <1> QED
    BY <1>1, <1>2 DEF Init, IndInv, JobInv, HandleOwned, CloserInv, ClosedClean,
                      Active, Terminal

\* Pruning and eviction only ever take ended jobs away.
LEMMA KeptJobs ==
  ASSUME NEW S \in SUBSET Job
  PROVE  /\ Evicted(S) \subseteq S
         /\ Pruned(S) \subseteq S
         /\ \A j \in S : status[j] \in Active => j \in Evicted(S) /\ j \in Pruned(S)
  BY DEF Evicted, Pruned, Ended, Active, Terminal

LEMMA KeptBySubmit ==
  ASSUME TypeOK, IsFiniteSet(jobs), NEW kept, kept = Evicted(Pruned(jobs))
  PROVE  /\ kept \subseteq jobs
         /\ IsFiniteSet(kept)
         /\ \A j \in jobs : status[j] \in Active => j \in kept
  <1>1. Pruned(jobs) \subseteq jobs /\ Pruned(jobs) \in SUBSET Job
    BY KeptJobs DEF TypeOK
  <1>2. kept \subseteq jobs
    BY <1>1, KeptJobs
  <1>3. IsFiniteSet(kept)
    BY <1>2, FS_Subset
  <1>4. \A j \in jobs : status[j] \in Active => j \in kept
    BY <1>1, KeptJobs DEF TypeOK
  <1> QED
    BY <1>2, <1>3, <1>4

LEMMA SubmitStep ==
  ASSUME IndInv, NEW j \in Job, Submit(j)
  PROVE  IndInv'
  <1> DEFINE kept == Evicted(Pruned(jobs))
  <1>1. /\ kept \subseteq jobs /\ IsFiniteSet(kept)
        /\ \A i \in jobs : status[i] \in Active => i \in kept
    BY KeptBySubmit DEF IndInv
  <1> HIDE DEF kept
  <1>2. CASE SubmitClosed(j)
    BY <1>2 DEF SubmitClosed, Fresh, IndInv, TypeOK, JobInv, HandleOwned,
                CloserInv, ClosedClean, Active, Terminal
  <1>3. CASE SubmitFull(j)
    <2>1. /\ jobs' = kept
          /\ handle' = [handle EXCEPT ![j] = "closed"]
          /\ handle[j] = "none" /\ ~closed
          /\ UNCHANGED <<now, born, submitted, status, expires, task,
                         registered, cancelling, closed, closer>>
      BY <1>3 DEF SubmitFull, kept, Fresh
    <2> QED
      BY <1>1, <2>1 DEF IndInv, TypeOK, JobInv, HandleOwned,
                CloserInv, ClosedClean, Active, Terminal
  <1>4. CASE SubmitAccepted(j)
    <2>1. /\ jobs' = kept \cup {j}
          /\ submitted' = submitted + 1
          /\ born' = [born EXCEPT ![j] = submitted + 1]
          /\ status' = [status EXCEPT ![j] = "queued"]
          /\ expires' = [expires EXCEPT ![j] = now + TTL]
          /\ handle' = [handle EXCEPT ![j] = "open"]
          /\ task' = [task EXCEPT ![j] = "created"]
          /\ registered' = registered \cup {j}
          /\ handle[j] = "none" /\ ~closed
          /\ UNCHANGED <<now, cancelling, closed, closer>>
      BY <1>4 DEF SubmitAccepted, kept, Fresh
    <2>2. TypeOK'
      BY <1>1, <2>1, StoreAssumption DEF IndInv, TypeOK, Active, Terminal
    <2>3. IsFiniteSet(jobs')
      BY <1>1, <2>1, FS_AddElement
    <2>4. \A i \in Job : JobInv(i)'
      BY <1>1, <2>1 DEF IndInv, TypeOK, JobInv, Active, Terminal, CloserInv
    <2>5. HandleOwned'
      BY <1>1, <2>1 DEF IndInv, TypeOK, HandleOwned, Active, Terminal
    <2>6. CloserInv' /\ ClosedClean'
      BY <1>1, <2>1 DEF IndInv, TypeOK, CloserInv, ClosedClean
    <2> QED
      BY <2>2, <2>3, <2>4, <2>5, <2>6 DEF IndInv
  <1> QED
    BY <1>2, <1>3, <1>4 DEF Submit

LEMMA LeaveStep ==
  ASSUME IndInv, NEW j \in Job, NEW recorded \in BOOLEAN, NEW outcome \in Terminal,
         task[j] = "awaiting" => recorded,
         Leave(j, recorded, outcome)
  PROVE  IndInv'
  <1>1. /\ task[j] = "awaiting" /\ status[j] = "running" /\ j \in jobs
        /\ status' = [status EXCEPT ![j] = outcome]
        /\ expires' = [expires EXCEPT ![j] = now + TTL]
        /\ handle' = [handle EXCEPT ![j] = "closed"]
        /\ registered' = registered \ {j}
        /\ task' = [task EXCEPT ![j] = "done"]
        /\ UNCHANGED <<now, jobs, born, submitted, cancelling, closed, closer>>
    BY DEF Leave, Settle, Release, IndInv, JobInv
  <1>2. TypeOK'
    BY <1>1, StoreAssumption DEF IndInv, TypeOK, Active, Terminal
  <1>3. \A i \in Job : JobInv(i)'
    BY <1>1 DEF IndInv, TypeOK, JobInv, Active, Terminal
  <1>4. HandleOwned'
    BY <1>1 DEF IndInv, TypeOK, HandleOwned, Active, Terminal
  <1>5. IsFiniteSet(jobs)' /\ CloserInv' /\ ClosedClean'
    BY <1>1 DEF IndInv, TypeOK, CloserInv, ClosedClean, Terminal, Active
  <1> QED
    BY <1>2, <1>3, <1>4, <1>5 DEF IndInv

LEMMA TaskStepStep ==
  ASSUME IndInv, NEW j \in Job, TaskStep(j)
  PROVE  IndInv'
  <1>1. CASE Start(j)
    <2>1. TypeOK'
      BY <1>1 DEF Start, IndInv, TypeOK, Active, Terminal
    <2>2. \A i \in Job : JobInv(i)'
      BY <1>1 DEF Start, IndInv, TypeOK, JobInv, Active, Terminal
    <2>3. HandleOwned'
      BY <1>1 DEF Start, IndInv, TypeOK, HandleOwned, Active
    <2>4. IsFiniteSet(jobs)' /\ CloserInv' /\ ClosedClean'
      BY <1>1 DEF Start, IndInv, TypeOK, CloserInv, ClosedClean
    <2> QED
      BY <2>1, <2>2, <2>3, <2>4 DEF IndInv
  <1>2. CASE RunnerReturns(j)
    <2>1. task[j] = "awaiting" => status[j] = "running"
      BY DEF IndInv, JobInv
    <2> QED
      BY <1>2, <2>1, LeaveStep DEF RunnerReturns, Terminal
  <1>3. CASE RunnerRaises(j)
    <2>1. task[j] = "awaiting" => j \in jobs /\ status[j] = "running"
      BY DEF IndInv, JobInv
    <2> QED
      BY <1>3, <2>1, LeaveStep DEF RunnerRaises, Terminal
  <1>4. CASE RunnerCancelled(j)
    <2>1. task[j] = "awaiting" => j \in jobs /\ status[j] \in Active
      BY DEF IndInv, JobInv, Active
    <2> QED
      BY <1>4, <2>1, LeaveStep DEF RunnerCancelled, Terminal
  <1>5. CASE CancelledUnstarted(j)
    <2>1. TypeOK'
      BY <1>5 DEF CancelledUnstarted, IndInv, TypeOK
    <2>2. \A i \in Job : JobInv(i)'
      BY <1>5 DEF CancelledUnstarted, IndInv, TypeOK, JobInv, Active, Terminal
    <2>3. IsFiniteSet(jobs)' /\ HandleOwned' /\ CloserInv' /\ ClosedClean'
      BY <1>5 DEF CancelledUnstarted, IndInv, TypeOK, HandleOwned, CloserInv,
                  ClosedClean
    <2> QED
      BY <2>1, <2>2, <2>3 DEF IndInv
  <1> QED
    BY <1>1, <1>2, <1>3, <1>4, <1>5 DEF TaskStep

LEMMA QueryStep == IndInv /\ Query => IndInv'
  <1> SUFFICES ASSUME IndInv, Query PROVE IndInv'
    OBVIOUS
  <1>1. /\ Pruned(jobs) \subseteq jobs
        /\ \A j \in jobs : status[j] \in Active => j \in Pruned(jobs)
    BY KeptJobs DEF IndInv, TypeOK
  <1>2. IsFiniteSet(jobs')
    BY <1>1, FS_Subset DEF IndInv, Query
  <1>3. jobs' \subseteq jobs /\ \A j \in jobs : status[j] \in Active => j \in jobs'
    BY <1>1 DEF Query
  <1> QED
    BY <1>2, <1>3 DEF Query, IndInv, TypeOK, JobInv, HandleOwned, CloserInv,
                      ClosedClean, Active, Terminal

\* The last pass of close() leaves everything at rest once no task is left.
LEMMA FinalPassStep ==
  ASSUME IndInv, FinalPass, closed',
         \A j \in Job : task[j] \in {"none", "done"},
         UNCHANGED <<now, jobs, born, submitted, task, registered, cancelling>>
  PROVE  IndInv'
  <1>1. TypeOK'
    BY StoreAssumption DEF FinalPass, IndInv, TypeOK, Active, Terminal
  <1>2. \A j \in Job : JobInv(j)'
    BY DEF FinalPass, IndInv, TypeOK, JobInv, Active, Terminal
  <1>3. HandleOwned'
    BY DEF FinalPass, IndInv, TypeOK, HandleOwned, Active, Terminal
  <1>4. ClosedClean'
    BY DEF FinalPass, IndInv, TypeOK, HandleOwned, ClosedClean, JobInv, Active,
           Terminal
  <1>5. IsFiniteSet(jobs)' /\ CloserInv'
    BY DEF FinalPass, IndInv, CloserInv
  <1> QED
    BY <1>1, <1>2, <1>3, <1>4, <1>5 DEF IndInv

LEMMA CloseStep == IndInv /\ Close => IndInv'
  <1> SUFFICES ASSUME IndInv, Close PROVE IndInv'
    OBVIOUS
  <1>1. CASE CloseIdle
    <2>1. \A j \in Job : task[j] \in {"none", "done"}
      BY <1>1 DEF CloseIdle, IndInv, TypeOK, JobInv
    <2> QED
      BY <1>1, <2>1, FinalPassStep DEF CloseIdle
  <1>2. CASE CloseBegin
    BY <1>2 DEF CloseBegin, IndInv, TypeOK, JobInv, HandleOwned, CloserInv,
                ClosedClean
  <1>3. CASE CloseFinish
    <2>1. \A j \in Job : task[j] \in {"none", "done"}
      BY <1>3 DEF CloseFinish, GatherDone, IndInv, TypeOK, JobInv, CloserInv
    <2> QED
      BY <1>3, <2>1, FinalPassStep DEF CloseFinish, IndInv, CloserInv
  <1>4. CASE CloseInterrupted
    BY <1>4 DEF CloseInterrupted, IndInv, TypeOK, JobInv, HandleOwned, CloserInv,
                ClosedClean
  <1> QED
    BY <1>1, <1>2, <1>3, <1>4 DEF Close

LEMMA NextIndInv == IndInv /\ [Next]_vars => IndInv'
  <1> SUFFICES ASSUME IndInv, [Next]_vars PROVE IndInv'
    OBVIOUS
  <1>1. CASE ClockStep
    BY <1>1 DEF ClockStep, IndInv, TypeOK, JobInv, HandleOwned, CloserInv,
                ClosedClean
  <1>2. CASE UNCHANGED vars
    BY <1>2 DEF vars, IndInv, TypeOK, JobInv, HandleOwned, CloserInv, ClosedClean
  <1> QED
    BY <1>1, <1>2, SubmitStep, TaskStepStep, QueryStep, CloseStep DEF Next

\* The inductive invariant holds at every suspension point of uploads.py.
THEOREM IndInvHolds == Spec => []IndInv
  BY InitIndInv, NextIndInv, PTL DEF Spec

\* Every variable keeps its type (uploads.py:26-44).
THEOREM TypeCorrect == Spec => []TypeOK
  <1>1. IndInv => TypeOK
    BY DEF IndInv
  <1> QED
    BY <1>1, IndInvHolds, PTL

\* Descriptor ownership: a descriptor is open exactly while its job is in the
\* store and unfinished (uploads.py:46-119, 202-218).
THEOREM DescriptorOwnership == Spec => []HandleOwned
  <1>1. IndInv => HandleOwned
    BY DEF IndInv
  <1> QED
    BY <1>1, IndInvHolds, PTL

\* Until close(), _tasks holds the tasks of the unfinished jobs and no other.
THEOREM RegistryExact == Spec => []TasksTracked
  <1>1. IndInv => TasksTracked
    BY DEF IndInv, TypeOK, TasksTracked, JobInv, CloserInv, Active, Terminal
  <1> QED
    BY <1>1, IndInvHolds, PTL

\* A close() that returned has left no live task and no open descriptor, one
\* that was interrupted only the descriptors of jobs that never started.
THEOREM CleanShutdown == Spec => []ShutdownClean
  <1>1. IndInv => ShutdownClean
    BY DEF IndInv, TypeOK, ShutdownClean, ClosedClean, AbortedLeaks, HandleOwned,
           JobInv, Active, Terminal
  <1> QED
    BY <1>1, IndInvHolds, PTL

\* The capacity is never exceeded: a submission adds a key only when fewer
\* than Capacity are left after pruning and eviction.
THEOREM CapacityRespected == Spec => []Bounded
  <1>1. Init => Bounded
    BY FS_EmptySet, StoreAssumption DEF Init, Bounded
  <1>2. IndInv /\ Bounded /\ [Next]_vars => Bounded'
    <2> SUFFICES ASSUME IndInv, Bounded, [Next]_vars PROVE Bounded'
      OBVIOUS
    <2>1. ASSUME NEW j \in Job, SubmitAccepted(j) PROVE Bounded'
      <3> DEFINE kept == Evicted(Pruned(jobs))
      <3>1. IsFiniteSet(kept)
        BY KeptBySubmit DEF IndInv
      <3>2. Cardinality(kept) < Capacity /\ jobs' = kept \cup {j}
        BY <2>1 DEF SubmitAccepted, HasRoom
      <3> HIDE DEF kept
      <3>3. Cardinality(kept) \in Nat
        BY <3>1, FS_CardinalityType
      <3>4. /\ IsFiniteSet(kept \cup {j})
            /\ Cardinality(kept \cup {j}) <= Cardinality(kept) + 1
        BY <3>1, <3>3, FS_AddElement
      <3>5. Cardinality(kept \cup {j}) \in Nat
        BY <3>4, FS_CardinalityType
      <3> QED
        BY <3>2, <3>3, <3>4, <3>5, StoreAssumption DEF Bounded
    <2>2. ASSUME jobs' \subseteq jobs PROVE Bounded'
      <3>1. IsFiniteSet(jobs') /\ Cardinality(jobs') <= Cardinality(jobs)
        BY <2>2, FS_Subset DEF Bounded
      <3>2. Cardinality(jobs') \in Nat /\ Cardinality(jobs) \in Nat
        BY <3>1, FS_CardinalityType DEF Bounded
      <3> QED
        BY <3>1, <3>2, StoreAssumption DEF Bounded
    <2>3. ASSUME NEW j \in Job, SubmitClosed(j) \/ SubmitFull(j) \/ TaskStep(j)
          PROVE  jobs' \subseteq jobs
      <3>1. Evicted(Pruned(jobs)) \subseteq jobs
        BY KeptBySubmit DEF IndInv
      <3> QED
        BY <2>3, <3>1 DEF SubmitClosed, SubmitFull, TaskStep, Start, RunnerReturns,
             RunnerRaises, RunnerCancelled, CancelledUnstarted, Leave
    <2>4. ASSUME Query \/ Close \/ ClockStep \/ UNCHANGED vars
          PROVE  jobs' \subseteq jobs
      <3>1. Pruned(jobs) \subseteq jobs
        BY KeptJobs DEF IndInv, TypeOK
      <3> QED
        BY <2>4, <3>1 DEF Query, Close, CloseIdle, CloseBegin, CloseFinish,
             CloseInterrupted, ClockStep, vars
    <2> QED
      BY <2>1, <2>2, <2>3, <2>4 DEF Next, Submit
  <1> QED
    BY <1>1, <1>2, IndInvHolds, PTL DEF Spec

\* What a submission forgets: only ended jobs, and a job whose time is not over
\* only if the store is full and no older ended job stays.
LEMMA ForgottenBySubmit ==
  ASSUME IndInv, NEW j \in jobs, j \notin Evicted(Pruned(jobs))
  PROVE  /\ status[j] \in Terminal
         /\ \/ expires[j] <= now
            \/ /\ Cardinality(Pruned(jobs)) >= Capacity
               /\ Older(j, Ended(jobs)) \cap Evicted(Pruned(jobs)) = {}
  <1> DEFINE P == Pruned(jobs)
  <1>1. /\ P \subseteq jobs /\ IsFiniteSet(P) /\ Ended(P) \subseteq P
        /\ Cardinality(P) \in Nat
    BY FS_Subset, FS_CardinalityType, KeptJobs DEF IndInv, TypeOK, Ended
  <1>2. \A i : Older(i, Ended(P)) \subseteq P /\ IsFiniteSet(Older(i, Ended(P)))
                 /\ Cardinality(Older(i, Ended(P))) \in Nat
    BY <1>1, FS_Subset, FS_CardinalityType DEF Older, Ended
  <1>3. CASE j \notin P
    BY <1>3 DEF Pruned, Ended
  <1>4. CASE j \in P
    <2>1. j \in Ended(P) /\ Cardinality(P) - Cardinality(Older(j, Ended(P))) >= Capacity
      BY <1>4 DEF Evicted
    <2>2. Cardinality(P) >= Capacity
      BY <1>1, <1>2, <2>1, StoreAssumption
    <2>3. ASSUME NEW i \in Older(j, Ended(jobs)), i \in Evicted(P)
          PROVE  FALSE
      <3>1. i \in P /\ i \in Ended(P) /\ born[i] < born[j]
        BY <2>3 DEF Older, Ended, Evicted
      <3>2. Cardinality(P) - Cardinality(Older(i, Ended(P))) < Capacity
        BY <3>1, <2>3, <1>1, <1>2, StoreAssumption DEF Evicted
      <3>3. Older(i, Ended(P)) \subseteq Older(j, Ended(P))
        BY <3>1, <1>1, <1>4 DEF Older, Ended, IndInv, TypeOK
      <3>4. Cardinality(Older(i, Ended(P))) <= Cardinality(Older(j, Ended(P)))
        BY <3>3, <1>2, FS_Subset
      <3> QED
        BY <3>2, <3>4, <2>1, <1>1, <1>2, StoreAssumption
    <2> QED
      BY <2>1, <2>2, <2>3 DEF Ended
  <1> QED
    BY <1>3, <1>4

\* Only ended jobs are forgotten, when their time is over or, when the store is
\* full, the oldest first (uploads.py:164-186).
THEOREM RetentionKept == Spec => RetentionRespected
  <1> DEFINE Kept ==
        \A j \in jobs \ jobs' :
          /\ status[j] \in Terminal
          /\ \/ expires[j] <= now
             \/ /\ Cardinality(Pruned(jobs)) >= Capacity
                /\ Older(j, Ended(jobs)) \cap jobs' = {}
  <1>1. IndInv /\ [Next]_vars => [Kept]_vars
    <2> SUFFICES ASSUME IndInv, Next, NEW j \in jobs \ jobs'
                 PROVE  /\ status[j] \in Terminal
                        /\ \/ expires[j] <= now
                           \/ /\ Cardinality(Pruned(jobs)) >= Capacity
                              /\ Older(j, Ended(jobs)) \cap jobs' = {}
      OBVIOUS
    <2>1. ASSUME NEW i \in Job, SubmitFull(i) \/ SubmitAccepted(i)
          PROVE  /\ j \notin Evicted(Pruned(jobs))
                 /\ Older(j, Ended(jobs)) \cap jobs'
                      \subseteq Evicted(Pruned(jobs))
      <3>1. jobs' \subseteq Evicted(Pruned(jobs)) \cup {i}
        BY <2>1 DEF SubmitFull, SubmitAccepted
      <3>2. j \notin Evicted(Pruned(jobs))
        BY <2>1 DEF SubmitFull, SubmitAccepted
      <3>3. i \notin Ended(jobs)
        BY <2>1 DEF SubmitFull, SubmitAccepted, Fresh, IndInv, JobInv, Ended, Terminal
      <3> QED
        BY <3>1, <3>2, <3>3 DEF Older
    <2>2. CASE \E i \in Job : SubmitFull(i) \/ SubmitAccepted(i)
      BY <2>1, <2>2, ForgottenBySubmit
    <2>3. CASE Query
      BY <2>3 DEF Query, Pruned, Ended
    <2> QED
      BY <2>2, <2>3 DEF Next, Submit, SubmitClosed, TaskStep, Start, RunnerReturns,
           RunnerRaises, RunnerCancelled, CancelledUnstarted, Leave, Close,
           CloseIdle, CloseBegin, CloseFinish, CloseInterrupted, ClockStep
  <1> QED
    BY <1>1, IndInvHolds, PTL DEF Spec, RetentionRespected

\* The outcome of a job is written once.
THEOREM OutcomeWrittenOnce == Spec => OutcomeStable
  <1>1. IndInv /\ [Next]_vars =>
          [\A j \in Job : status[j] \in Terminal => status'[j] = status[j]]_vars
    <2> SUFFICES ASSUME IndInv, Next,
                        NEW j \in Job, status[j] \in Terminal
                 PROVE  status'[j] = status[j]
      OBVIOUS
    <2>1. ASSUME NEW i \in Job, Submit(i) PROVE status'[j] = status[j]
      BY <2>1 DEF Submit, SubmitClosed, SubmitFull, SubmitAccepted, Fresh, IndInv,
           TypeOK, JobInv, Terminal
    <2>2. ASSUME NEW i \in Job, TaskStep(i) PROVE status'[j] = status[j]
      BY <2>2 DEF TaskStep, Start, RunnerReturns, RunnerRaises, RunnerCancelled,
           CancelledUnstarted, Leave, Settle, IndInv, TypeOK, JobInv, Terminal,
           Active
    <2>3. ASSUME Query \/ ClockStep \/ CloseBegin \/ CloseInterrupted
          PROVE  status'[j] = status[j]
      BY <2>3 DEF Query, ClockStep, CloseBegin, CloseInterrupted
    <2>4. ASSUME CloseIdle \/ CloseFinish PROVE status'[j] = status[j]
      BY <2>4 DEF CloseIdle, CloseFinish, FinalPass, Active, Terminal
    <2> QED
      BY <2>1, <2>2, <2>3, <2>4 DEF Next, Close
  <1> QED
    BY <1>1, IndInvHolds, PTL DEF Spec, OutcomeStable

-----------------------------------------------------------------------------
(* Paging: a page is a range of places in the list of a set of jobs.        *)

Place(j, S) == Cardinality(Older(j, S))

\* Jobs are told apart by when they were submitted.
Ordered(S) == IsFiniteSet(S) /\ \A i, j \in S : i # j => born[i] # born[j]

LEMMA PlaceFacts ==
  ASSUME TypeOK, NEW S \in SUBSET Job, Ordered(S)
  PROVE  /\ Cardinality(S) \in Nat
         /\ \A j \in S : Place(j, S) \in Nat /\ Place(j, S) < Cardinality(S)
         /\ \A i, j \in S : born[i] < born[j] => Place(i, S) < Place(j, S)
         /\ \A i, j \in S : Place(i, S) = Place(j, S) => i = j
  <1>1. Cardinality(S) \in Nat
    BY FS_CardinalityType DEF Ordered
  <1>2. ASSUME NEW j \in S
        PROVE  Place(j, S) \in Nat /\ Place(j, S) < Cardinality(S)
    <2>1. Older(j, S) \in SUBSET S /\ j \notin Older(j, S)
      BY DEF Older, TypeOK
    <2>2. /\ IsFiniteSet(Older(j, S))
          /\ Cardinality(Older(j, S)) <= Cardinality(S)
          /\ Cardinality(S) # Cardinality(Older(j, S))
      BY <2>1, FS_Subset DEF Ordered
    <2>3. Cardinality(Older(j, S)) \in Nat
      BY <2>2, FS_CardinalityType
    <2> QED
      BY <1>1, <2>2, <2>3 DEF Place
  <1>3. ASSUME NEW i \in S, NEW j \in S, born[i] < born[j]
        PROVE  Place(i, S) < Place(j, S)
    <2>1. /\ Older(i, S) \in SUBSET Older(j, S)
          /\ i \in Older(j, S) /\ i \notin Older(i, S)
      BY <1>3 DEF Older, TypeOK
    <2>2. IsFiniteSet(Older(j, S))
      BY FS_Subset DEF Ordered, Older
    <2>3. /\ Cardinality(Older(i, S)) <= Cardinality(Older(j, S))
          /\ Cardinality(Older(j, S)) # Cardinality(Older(i, S))
      BY <2>1, <2>2, FS_Subset
    <2> QED
      BY <1>2, <2>3 DEF Place
  <1>4. ASSUME NEW i \in S, NEW j \in S, Place(i, S) = Place(j, S) PROVE i = j
    <2>1. born[i] \in Nat /\ born[j] \in Nat
      BY DEF TypeOK
    <2>2. ~(born[i] < born[j]) /\ ~(born[j] < born[i])
      BY <1>2, <1>3, <1>4
    <2> QED
      BY <2>1, <2>2 DEF Ordered
  <1> QED
    BY <1>1, <1>2, <1>3, <1>4

\* No more jobs than places are placed in a range.
LEMMA PlaceRange ==
  ASSUME TypeOK, NEW S \in SUBSET Job, Ordered(S), NEW a \in Int, NEW b \in Int, a <= b + 1,
         NEW T \in SUBSET S, \A j \in T : Place(j, S) \in a..b
  PROVE  IsFiniteSet(T) /\ Cardinality(T) \in Nat /\ Cardinality(T) <= b - a + 1
  <1> DEFINE f == [j \in T |-> Place(j, S)]
  <1>1. f \in Injection(T, a..b)
    BY PlaceFacts DEF Injection, IsInjective
  <1>2. IsFiniteSet(a..b) /\ Cardinality(a..b) = b - a + 1
    BY FS_Interval
  <1>3. IsFiniteSet(T) /\ Cardinality(T) <= Cardinality(a..b)
    BY <1>1, <1>2, FS_Injection
  <1> QED
    BY <1>2, <1>3, FS_CardinalityType

\* The jobs of a page come before the next offset, and no place
\* between the two offsets is left out.
LEMMA PageFacts ==
  ASSUME TypeOK, NEW S \in SUBSET Job, Ordered(S), NEW from \in Nat
  PROVE  LET next == from + Cardinality(Page(S, from)) IN
           /\ next \in Nat /\ from <= next
           /\ \A j \in Page(S, from) : Place(j, S) < next
           /\ \A j \in S \ Page(S, from) : Place(j, S) < from \/ Place(j, S) >= next
  <1> DEFINE page == Page(S, from)
             before == {i \in S : Place(i, S) < from}
  <1>1. page \in SUBSET S /\ \A j \in page : Place(j, S) \in from..(from + Limit - 1)
    BY DEF Page, Place
  <1>2. IsFiniteSet(page) /\ Cardinality(page) \in Nat /\ Cardinality(page) <= Limit
    BY <1>1, PlaceRange, LimitAssumption
  <1>3. IsFiniteSet(before) /\ Cardinality(before) \in Nat /\ Cardinality(before) <= from
    <2>1. \A j \in before : Place(j, S) \in 0..(from - 1)
      BY PlaceFacts
    <2> QED
      BY <2>1, PlaceRange
  <1>4. ASSUME NEW j \in page PROVE Place(j, S) < from + Cardinality(page)
    <2>1. j \notin Older(j, S) /\ Older(j, S) \in SUBSET S
      BY DEF Older, TypeOK
    <2>2. \A i \in Older(j, S) : Place(i, S) < Place(j, S)
      BY <1>1, PlaceFacts DEF Older
    <2>3. Older(j, S) \in SUBSET (before \cup (page \ {j}))
      BY <1>1, <2>1, <2>2, PlaceFacts, LimitAssumption DEF Page, Place
    <2>4. IsFiniteSet(page \ {j}) /\ Cardinality(page \ {j}) = Cardinality(page) - 1
      BY <1>2, FS_RemoveElement
    <2>5. /\ IsFiniteSet(before \cup (page \ {j}))
          /\ Cardinality(before \cup (page \ {j}))
               <= Cardinality(before) + Cardinality(page \ {j})
      <3>1. /\ IsFiniteSet(before \cup (page \ {j}))
            /\ Cardinality(before \cup (page \ {j}))
                 = Cardinality(before) + Cardinality(page \ {j})
                     - Cardinality(before \cap (page \ {j}))
        BY <1>3, <2>4, FS_Union
      <3>2. Cardinality(before \cap (page \ {j})) \in Nat
        BY <1>3, FS_Intersection, FS_CardinalityType
      <3> QED
        BY <1>2, <1>3, <2>4, <3>1, <3>2
    <2>6. Place(j, S) <= Cardinality(before \cup (page \ {j}))
      BY <2>3, <2>5, FS_Subset DEF Place
    <2>7. Cardinality(before \cup (page \ {j})) \in Nat /\ Place(j, S) \in Nat
      BY <1>1, <2>5, FS_CardinalityType, PlaceFacts
    <2> QED
      BY <1>2, <1>3, <2>4, <2>5, <2>6, <2>7
  <1>5. ASSUME NEW j \in S \ page
        PROVE  Place(j, S) < from \/ Place(j, S) >= from + Cardinality(page)
    <2>1. Place(j, S) \notin from..(from + Limit - 1) /\ Place(j, S) \in Nat
      BY PlaceFacts DEF Page, Place
    <2> QED
      BY <1>2, <2>1, LimitAssumption
  <1> QED
    BY <1>2, <1>4, <1>5

-----------------------------------------------------------------------------
(* What a client that follows the cursors has seen.                         *)

WalkTypeOK ==
  /\ filter \in Filters
  /\ offset \in Nat
  /\ walk \in {"idle", "more", "end"}
  /\ listed \in [Job -> Nat]
  /\ base \in SUBSET Job

\* Keys are never used again, and born is the order of submission.
OrderInv ==
  /\ \A j \in jobs : born[j] <= submitted
  /\ \A i, j \in jobs : i # j => born[i] # born[j]

Steady == filter \in {"all", "queued"}

\* What was listed is before the cursor.
ListedInv ==
  /\ \A j \in Job : listed[j] > 0 => ~Fresh(j)
  /\ walk = "idle" => \A j \in Job : listed[j] = 0
  /\ Steady => \A j \in Selected(filter, jobs) :
       listed[j] > 0 => Place(j, Selected(filter, jobs)) < offset

\* What was not listed is after it, as long as nothing is missing.
BaseInv ==
  /\ \A j \in base : ~Fresh(j)
  /\ filter = "all" /\ walk # "idle" /\ base \subseteq jobs =>
       \A j \in base :
         /\ \A i \in jobs : born[i] < born[j] => i \in base
         /\ listed[j] = 0 => Place(j, jobs) >= offset
         /\ walk = "end" => listed[j] > 0

WalkInv ==
  IndInv /\ WalkTypeOK /\ OrderInv /\ ListedInv /\ BaseInv /\ NoRepeat

\* A step of the store adds at most one job, which is new and the youngest, and
\* queues no other.
StoreStep ==
  /\ \A j \in Job : ~Fresh(j) => ~Fresh(j)' /\ born'[j] = born[j]
  /\ \A j \in Job : ~Fresh(j) /\ status'[j] = "queued" => status[j] = "queued"
  /\ \A j \in jobs' \ jobs : Fresh(j) /\ born'[j] = submitted' /\ submitted' > submitted
  /\ \A i, j \in jobs' \ jobs : i = j
  /\ submitted' >= submitted

LEMMA StoresOld == ASSUME IndInv, NEW j \in jobs PROVE j \in Job /\ ~Fresh(j)
  BY DEF IndInv, TypeOK, JobInv, Fresh

LEMMA NextIsStoreStep == IndInv /\ [Next]_vars => StoreStep
  <1> SUFFICES ASSUME IndInv, [Next]_vars PROVE StoreStep
    OBVIOUS
  <1> USE DEF StoreStep, Fresh
  <1>1. ASSUME NEW j \in Job, Submit(j) PROVE StoreStep
    <2>1. \A S : Pruned(S) \subseteq S /\ Evicted(S) \subseteq S
      BY DEF Pruned, Evicted
    <2>2. CASE SubmitClosed(j) \/ SubmitFull(j)
      BY <2>1, <2>2 DEF SubmitClosed, SubmitFull, IndInv, TypeOK
    <2>3. CASE SubmitAccepted(j)
      <3>1. jobs' \subseteq jobs \cup {j} /\ submitted' = submitted + 1
        BY <2>1, <2>3 DEF SubmitAccepted
      <3>2. Fresh(j) /\ born' = [born EXCEPT ![j] = submitted + 1]
            /\ status' = [status EXCEPT ![j] = "queued"]
            /\ handle' = [handle EXCEPT ![j] = "open"]
        BY <2>3 DEF SubmitAccepted
      <3> QED
        BY <3>1, <3>2 DEF IndInv, TypeOK
    <2> QED
      BY <1>1, <2>2, <2>3 DEF Submit
  <1>2. ASSUME NEW j \in Job, TaskStep(j) PROVE StoreStep
    BY <1>2 DEF TaskStep, Start, RunnerReturns, RunnerRaises, RunnerCancelled,
                CancelledUnstarted, Leave, Settle, Release, IndInv, TypeOK
  <1>3. CASE Query
    BY <1>3 DEF Query, Pruned, IndInv, TypeOK
  <1>4. CASE Close
    BY <1>4 DEF Close, CloseIdle, CloseBegin, CloseFinish, CloseInterrupted,
                FinalPass, IndInv, TypeOK
  <1>5. CASE ClockStep \/ UNCHANGED vars
    BY <1>5 DEF ClockStep, vars, IndInv, TypeOK
  <1> QED
    BY <1>1, <1>2, <1>3, <1>4, <1>5 DEF Next

LEMMA SelectedOrdered ==
  ASSUME IndInv, OrderInv, NEW f
  PROVE  Selected(f, jobs) \in SUBSET Job /\ Ordered(Selected(f, jobs))
  BY FS_Subset DEF Selected, Ordered, IndInv, TypeOK, OrderInv

LEMMA OrderKept == IndInv /\ IndInv' /\ OrderInv /\ StoreStep => OrderInv'
  <1> SUFFICES ASSUME IndInv, IndInv', OrderInv, StoreStep PROVE OrderInv'
    OBVIOUS
  <1>1. submitted \in Nat /\ submitted' \in Nat /\ submitted <= submitted'
    BY DEF IndInv, TypeOK, StoreStep
  <1>2. ASSUME NEW j \in jobs', j \in jobs
        PROVE  born'[j] = born[j] /\ born'[j] <= submitted /\ born'[j] \in Nat
    BY <1>2, StoresOld DEF OrderInv, StoreStep, IndInv, TypeOK
  <1>3. ASSUME NEW j \in jobs', j \notin jobs
        PROVE  born'[j] = submitted' /\ submitted' > submitted
    BY <1>3 DEF StoreStep
  <1>4. \A j \in jobs' : born'[j] <= submitted'
    BY <1>1, <1>2, <1>3
  <1>5. ASSUME NEW i \in jobs', NEW j \in jobs', i # j PROVE born'[i] # born'[j]
    <2>1. i \in jobs \/ j \in jobs
      BY <1>5 DEF StoreStep
    <2> QED
      BY <1>1, <1>2, <1>3, <1>5, <2>1 DEF OrderInv
  <1> QED
    BY <1>4, <1>5 DEF OrderInv

\* A job that stays in a steady list does not move towards its end.
LEMMA PlaceShrinks ==
  ASSUME IndInv, IndInv', OrderInv, StoreStep, NEW f \in {"all", "queued"},
         NEW j \in Selected(f, jobs)', ~Fresh(j)
  PROVE  /\ j \in Selected(f, jobs)
         /\ Place(j, Selected(f, jobs))' <= Place(j, Selected(f, jobs))
  <1>1. \A i \in Selected(f, jobs)' : ~Fresh(i) => i \in Selected(f, jobs)
    BY DEF Selected, StoreStep, IndInv, TypeOK
  <1>2. born'[j] = born[j] /\ born[j] <= submitted /\ born[j] \in Nat
    BY <1>1 DEF StoreStep, OrderInv, Selected, IndInv, TypeOK
  <1>3. \A i \in jobs' : born'[i] < born'[j] => ~Fresh(i) /\ born'[i] = born[i]
    BY <1>2, StoresOld DEF StoreStep, IndInv, TypeOK
  <1>4. Older(j, Selected(f, jobs))' \in SUBSET Older(j, Selected(f, jobs))
    BY <1>1, <1>2, <1>3 DEF Older, Selected
  <1>5. IsFiniteSet(Older(j, Selected(f, jobs)))
    BY FS_Subset DEF Older, Selected, IndInv
  <1> QED
    BY <1>1, <1>4, <1>5, FS_Subset DEF Place

\* What the client has seen keeps its relation to the cursor when the store
\* takes a step.
LEMMA WalkKept ==
  ASSUME WalkInv, IndInv', StoreStep,
         UNCHANGED walkVars
  PROVE  WalkInv'
  <1>1. WalkTypeOK' /\ OrderInv' /\ NoRepeat'
    BY OrderKept DEF WalkInv, WalkTypeOK, walkVars, NoRepeat
  <1>2. ListedInv'
    <2>1. ASSUME Steady, NEW j \in Selected(filter, jobs)', listed[j] > 0
          PROVE  Place(j, Selected(filter, jobs))' < offset
      <3>1. ~Fresh(j)
        BY <2>1 DEF WalkInv, ListedInv, Selected, IndInv, TypeOK
      <3>2. /\ j \in Selected(filter, jobs)
            /\ Place(j, Selected(filter, jobs))' <= Place(j, Selected(filter, jobs))
        BY <2>1, <3>1, PlaceShrinks DEF WalkInv, Steady, walkVars
      <3>3. Place(j, Selected(filter, jobs)) < offset
        BY <2>1, <3>2 DEF WalkInv, ListedInv
      <3>4. Place(j, Selected(filter, jobs)) \in Nat
        BY <3>2, SelectedOrdered, PlaceFacts DEF WalkInv, IndInv
      <3>5. Place(j, Selected(filter, jobs))' \in Nat
        BY FS_Subset, FS_CardinalityType DEF Place, Older, Selected, IndInv
      <3> QED
        BY <3>2, <3>3, <3>4, <3>5 DEF WalkInv, WalkTypeOK
    <2> QED
      BY <2>1 DEF ListedInv, WalkInv, StoreStep, walkVars, Steady
  <1>3. BaseInv'
    <2>1. \A j \in base : ~Fresh(j)'
      BY DEF WalkInv, BaseInv, WalkTypeOK, StoreStep
    <2>2. ASSUME base \subseteq jobs', filter = "all", walk # "idle", NEW j \in base
          PROVE  /\ \A i \in jobs' : born'[i] < born'[j] => i \in base
                 /\ Place(j, jobs)' = Place(j, jobs)
                 /\ listed[j] = 0 => Place(j, jobs) >= offset
                 /\ walk = "end" => listed[j] > 0
      <3>1. base \subseteq jobs
        BY <2>2 DEF WalkInv, BaseInv, StoreStep
      <3>2. born'[j] = born[j] /\ born[j] <= submitted /\ j \in jobs
        BY <3>1 DEF WalkInv, BaseInv, WalkTypeOK, OrderInv, StoreStep
      <3>3. \A i \in jobs' : born'[i] < born'[j] =>
              i \in jobs /\ born'[i] = born[i]
        BY <3>2, StoresOld DEF WalkInv, StoreStep, IndInv, TypeOK
      <3>4. \A i \in jobs : born[i] < born[j] => i \in base
        BY <2>2, <3>1 DEF WalkInv, BaseInv
      <3>5. Older(j, jobs)' = Older(j, jobs)
        BY <2>2, <3>1, <3>2, <3>3, <3>4 DEF Older, StoreStep, WalkInv, BaseInv, WalkTypeOK
      <3> QED
        BY <2>2, <3>1, <3>2, <3>3, <3>4, <3>5 DEF Place, WalkInv, BaseInv
    <2> QED
      BY <2>1, <2>2 DEF BaseInv, walkVars
  <1> QED
    BY <1>1, <1>2, <1>3 DEF WalkInv

\* A page is taken at the cursor from, before which everything listed is.
LEMMA PageTaken ==
  ASSUME IndInv, IndInv', OrderInv, WalkTypeOK, NEW f \in Filters, NEW from \in Nat,
         ListPage(f, from), filter' = f,
         \A j \in Job : listed[j] > 0 => ~Fresh(j),
         Steady' => \A j \in Job : listed[j] <= 1,
         Steady' => \A j \in Selected(f, Pruned(jobs)) :
           listed[j] > 0 => Place(j, Selected(f, Pruned(jobs))) < from
  PROVE  /\ offset' \in Nat /\ from <= offset'
         /\ listed' \in [Job -> Nat]
         /\ ListedInv' /\ NoRepeat'
         /\ \A j \in Selected(f, jobs') :
              Place(j, Selected(f, jobs')) >= from /\ listed'[j] = 0 =>
                Place(j, Selected(f, jobs')) >= offset'
         /\ \A j \in Selected(f, jobs') :
              walk' = "end" => Place(j, Selected(f, jobs')) < offset'
  <1> DEFINE S == Selected(f, jobs')
             page == Page(S, from)
  <1>1. /\ jobs' = Pruned(jobs) /\ offset' = from + Cardinality(page)
        /\ walk' = IF MoreAfter(offset', S) THEN "more" ELSE "end"
        /\ listed' = [j \in Job |-> listed[j] + IF j \in page THEN 1 ELSE 0]
        /\ UNCHANGED <<born, status, handle>>
    BY DEF ListPage
  <1>2. S \in SUBSET Job /\ Ordered(S)
    BY <1>1, FS_Subset DEF Pruned, Ended, Selected, Ordered, IndInv, TypeOK, OrderInv
  <1>3. /\ offset' \in Nat /\ from <= offset'
        /\ \A j \in page : Place(j, S) < offset'
        /\ \A j \in S \ page : Place(j, S) < from \/ Place(j, S) >= offset'
    BY <1>1, <1>2, PageFacts DEF IndInv
  <1>4. \A j \in S : Place(j, S) \in Nat /\ Place(j, S) < Cardinality(S)
    BY <1>2, PlaceFacts DEF IndInv
  <1>5. page \in SUBSET S /\ \A j \in page : Place(j, S) >= from
    BY <1>2, <1>4 DEF Page, Place
  <1>6. listed' \in [Job -> Nat]
    BY <1>1 DEF WalkTypeOK
  <1>7. /\ Selected(f, jobs)' = S
        /\ \A j : Place(j, Selected(f, jobs))' = Place(j, S)
    BY <1>1 DEF Selected, Place, Older
  <1>8. Steady' => \A j \in page : listed[j] = 0
    BY <1>1, <1>2, <1>4, <1>5 DEF WalkTypeOK
  <1>9. NoRepeat'
    BY <1>1, <1>8 DEF NoRepeat, Steady, WalkTypeOK
  <1>10. ListedInv'
    <2>1. \A j \in Job : listed'[j] > 0 => ~Fresh(j)'
      <3>1. \A j \in page : ~Fresh(j)
        BY <1>1, <1>5, StoresOld DEF Selected, Pruned
      <3> QED
        BY <1>1, <3>1 DEF Fresh, WalkTypeOK
    <2>2. walk' # "idle"
      BY <1>1
    <2>3. Steady' => \A j \in S : listed'[j] > 0 => Place(j, S) < offset'
      BY <1>1, <1>2, <1>3, <1>4 DEF WalkTypeOK
    <2>4. filter' = f /\ Selected(filter, jobs)' = S
      BY <1>1 DEF Selected
    <2> QED
      BY <2>1, <2>2, <2>3, <2>4, <1>7 DEF ListedInv
  <1>11. \A j \in S : walk' = "end" => Place(j, S) < offset'
    <2>1. Cardinality(S) \in Nat
      BY <1>2, PlaceFacts DEF IndInv
    <2> QED
      BY <1>1, <1>3, <1>4, <2>1 DEF MoreAfter
  <1>12. \A j \in S : Place(j, S) >= from /\ listed'[j] = 0 => Place(j, S) >= offset'
    BY <1>1, <1>2, <1>3, <1>4 DEF WalkTypeOK
  <1> QED
    BY <1>3, <1>6, <1>9, <1>10, <1>11, <1>12

LEMMA PageIsQuery ==
  ASSUME IndInv, NEW f, NEW from, ListPage(f, from)
  PROVE  IndInv' /\ StoreStep /\ Query
  <1>1. Query
    BY DEF ListPage, Query
  <1> QED
    BY <1>1, QueryStep, NextIsStoreStep DEF Next

LEMMA FirstPage ==
  ASSUME WalkInv, NEW f \in Filters, ListFirst(f)
  PROVE  WalkInv'
  <1>1. IndInv' /\ OrderInv'
    BY PageIsQuery, OrderKept DEF ListFirst, WalkInv
  <1>2. \A j \in Job : listed[j] = 0
    BY DEF ListFirst, WalkInv, ListedInv
  <1>3. /\ offset' \in Nat
        /\ listed' \in [Job -> Nat]
        /\ ListedInv' /\ NoRepeat'
        /\ \A j \in Selected(f, jobs') :
             Place(j, Selected(f, jobs')) >= 0 /\ listed'[j] = 0 =>
               Place(j, Selected(f, jobs')) >= offset'
        /\ \A j \in Selected(f, jobs') :
             walk' = "end" => Place(j, Selected(f, jobs')) < offset'
    <2>1. \A j \in Selected(f, Pruned(jobs)) : j \in Job
      BY DEF WalkInv, IndInv, TypeOK, Selected, Pruned
    <2>2. ListPage(f, 0) /\ filter' = f
      BY DEF ListFirst
    <2>3. IndInv /\ OrderInv /\ WalkTypeOK
      BY DEF WalkInv
    <2> QED
      BY <1>1, <1>2, <2>1, <2>2, <2>3, PageTaken
  <1>4. base' = jobs' /\ jobs' \in SUBSET Job /\ walk' \in {"more", "end"}
        /\ filter' = f /\ UNCHANGED <<born, status>>
    BY <1>1 DEF ListFirst, ListPage, IndInv, TypeOK
  <1>5. WalkTypeOK'
    BY <1>3, <1>4 DEF WalkTypeOK
  <1>6. BaseInv'
    <2>1. \A j \in base' : ~Fresh(j)'
      BY <1>1, <1>4, StoresOld DEF ListFirst, ListPage, Fresh, Pruned, WalkInv
    <2>2. ASSUME filter' = "all", NEW j \in jobs'
          PROVE  /\ listed'[j] = 0 => Place(j, jobs)' >= offset'
                 /\ walk' = "end" => listed'[j] > 0
      <3>1. Selected(f, jobs') = jobs' /\ Place(j, jobs)' = Place(j, jobs')
        BY <1>4, <2>2 DEF Selected, Place, Older
      <3>2. Place(j, jobs') \in Nat
        <4>1. Older(j, jobs') \in SUBSET jobs' /\ IsFiniteSet(jobs')
          BY <1>1 DEF Older, IndInv
        <4> QED
          BY <4>1, FS_Subset, FS_CardinalityType DEF Place
      <3> QED
        BY <1>3, <1>4, <3>1, <3>2
    <2> QED
      BY <1>4, <2>1, <2>2 DEF BaseInv
  <1> QED
    BY <1>1, <1>3, <1>5, <1>6 DEF WalkInv

LEMMA NextPage ==
  ASSUME WalkInv, ListNext
  PROVE  WalkInv'
  <1> DEFINE kept == Selected(filter, Pruned(jobs))
  <1>1. IndInv' /\ OrderInv' /\ StoreStep
    BY PageIsQuery, OrderKept DEF ListNext, WalkInv
  <1>2. /\ ListPage(filter, offset) /\ filter' = filter /\ base' = base /\ walk = "more"
        /\ IndInv /\ OrderInv /\ WalkTypeOK /\ NoRepeat
        /\ filter \in Filters /\ offset \in Nat
    BY DEF ListNext, WalkInv, WalkTypeOK
  <1>3. jobs' = Pruned(jobs) /\ walk' \in {"more", "end"} /\ UNCHANGED <<born, status>>
    BY <1>2 DEF ListPage
  <1>4. kept \in SUBSET Selected(filter, jobs) /\ Selected(filter, jobs) \in SUBSET Job
    BY <1>2 DEF Selected, Pruned, IndInv, TypeOK
  <1>5. Steady' => \A j \in kept : listed[j] > 0 => Place(j, kept) < offset
    <2> SUFFICES ASSUME Steady', NEW j \in kept, listed[j] > 0
                 PROVE  Place(j, kept) < offset
      OBVIOUS
    <2>1. Place(j, Selected(filter, jobs)) < offset
      BY <1>2, <1>4 DEF WalkInv, ListedInv, Steady
    <2>2. IsFiniteSet(Selected(filter, jobs))
      BY <1>2, SelectedOrdered DEF Ordered
    <2>3. IsFiniteSet(Older(j, Selected(filter, jobs)))
          /\ Older(j, kept) \in SUBSET Older(j, Selected(filter, jobs))
      BY <1>4, <2>2, FS_Subset DEF Older
    <2>4. /\ Place(j, kept) \in Nat /\ Place(j, Selected(filter, jobs)) \in Nat
          /\ Place(j, kept) <= Place(j, Selected(filter, jobs))
      BY <2>3, FS_Subset, FS_CardinalityType DEF Place
    <2> QED
      BY <1>2, <2>1, <2>4
  <1>6. /\ offset' \in Nat /\ offset <= offset'
        /\ listed' \in [Job -> Nat]
        /\ ListedInv' /\ NoRepeat'
        /\ \A j \in Selected(filter, jobs') :
             Place(j, Selected(filter, jobs')) >= offset /\ listed'[j] = 0 =>
               Place(j, Selected(filter, jobs')) >= offset'
        /\ \A j \in Selected(filter, jobs') :
             walk' = "end" => Place(j, Selected(filter, jobs')) < offset'
    <2>1. \A j \in Job : listed[j] > 0 => ~Fresh(j)
      BY DEF WalkInv, ListedInv
    <2>2. Steady' => \A j \in Job : listed[j] <= 1
      BY <1>2 DEF NoRepeat, Steady
    <2> HIDE DEF kept
    <2>3. Steady' => \A j \in Selected(filter, Pruned(jobs)) :
            listed[j] > 0 => Place(j, Selected(filter, Pruned(jobs))) < offset
      BY <1>5 DEF kept
    <2> QED
      BY <1>1, <1>2, <2>1, <2>2, <2>3, PageTaken
  <1>7. WalkTypeOK'
    BY <1>2, <1>3, <1>6 DEF WalkTypeOK
  <1>8. BaseInv'
    <2>1. \A j \in base : ~Fresh(j)'
      BY <1>1, <1>2 DEF WalkInv, BaseInv, WalkTypeOK, StoreStep
    <2>2. ASSUME filter = "all", base \subseteq jobs', NEW j \in base
          PROVE  /\ \A i \in jobs' : born[i] < born[j] => i \in base
                 /\ listed'[j] = 0 => Place(j, jobs)' >= offset'
                 /\ walk' = "end" => listed'[j] > 0
      <3>1. jobs' \subseteq jobs /\ jobs \subseteq Job
        BY <1>2, <1>3 DEF Pruned, IndInv, TypeOK
      <3>2. /\ \A i \in jobs : born[i] < born[j] => i \in base
            /\ listed[j] = 0 => Place(j, jobs) >= offset
        BY <1>2, <2>2, <3>1 DEF WalkInv, BaseInv
      <3>3. Older(j, jobs') = Older(j, jobs)
        BY <2>2, <3>1, <3>2 DEF Older
      <3>4. Selected(filter, jobs') = jobs' /\ Place(j, jobs)' = Place(j, jobs')
            /\ Place(j, jobs') = Place(j, jobs)
        BY <1>3, <2>2, <3>3 DEF Selected, Place, Older
      <3>5. Place(j, jobs') \in Nat
        <4>1. Older(j, jobs') \in SUBSET jobs' /\ IsFiniteSet(jobs')
          BY <1>1 DEF Older, IndInv
        <4> QED
          BY <4>1, FS_Subset, FS_CardinalityType DEF Place
      <3>6. listed'[j] = 0 => listed[j] = 0
        BY <1>2, <2>2, <3>1 DEF ListPage, WalkTypeOK
      <3>7. listed'[j] \in Nat
        BY <1>6, <2>2, <3>1
      <3> QED
        BY <1>6, <2>2, <3>1, <3>2, <3>4, <3>5, <3>6, <3>7
    <2> QED
      BY <1>2, <1>3, <2>1, <2>2 DEF BaseInv
  <1> QED
    BY <1>1, <1>6, <1>7, <1>8 DEF WalkInv

LEMMA WalkInvHolds == ListingSpec => []WalkInv
  <1>1. ListInit => WalkInv
    BY InitIndInv DEF ListInit, Init, WalkInv, WalkTypeOK, OrderInv, ListedInv, BaseInv,
                      NoRepeat, Filters, Fresh, Selected
  <1>2. WalkInv /\ [ListingNext]_listingVars => WalkInv'
    <2> SUFFICES ASSUME WalkInv, [ListingNext]_listingVars PROVE WalkInv'
      OBVIOUS
    <2>1. ASSUME [Next]_vars, UNCHANGED walkVars PROVE WalkInv'
      <3>1. IndInv' /\ StoreStep
        BY <2>1, NextIndInv, NextIsStoreStep DEF WalkInv
      <3> QED
        BY <2>1, <3>1, WalkKept
    <2>2. ASSUME NEW f \in Filters, ListFirst(f) PROVE WalkInv'
      BY <2>2, FirstPage
    <2>3. CASE ListNext
      BY <2>3, NextPage
    <2>4. CASE UNCHANGED listingVars
      BY <2>1, <2>4 DEF listingVars
    <2> QED
      BY <2>1, <2>2, <2>3, <2>4 DEF ListingNext
  <1> QED
    BY <1>1, <1>2, PTL DEF ListingSpec

\* Following the cursors of list() through all jobs or the queued ones shows no
\* job twice, for any number of jobs, any capacity and any page size, whatever
\* happens to the store between two pages.
THEOREM ListingNoRepeat == ListingSpec => []NoRepeat
  <1>1. WalkInv => NoRepeat
    BY DEF WalkInv
  <1> QED
    BY <1>1, WalkInvHolds, PTL

\* It shows every job that was there when it began, if none of those went.
THEOREM ListingNoSkip == ListingSpec => []NoSkip
  <1>1. WalkInv => NoSkip
    <2> SUFFICES ASSUME WalkInv, filter = "all", walk = "end", base \subseteq jobs,
                        NEW j \in base
                 PROVE  listed[j] = 1
      BY DEF NoSkip
    <2>1. listed[j] > 0 /\ listed[j] \in Nat
      BY DEF WalkInv, BaseInv, WalkTypeOK
    <2>2. listed[j] <= 1
      BY DEF WalkInv, NoRepeat, WalkTypeOK
    <2> QED
      BY <2>1, <2>2
  <1> QED
    BY <1>1, WalkInvHolds, PTL

-----------------------------------------------------------------------------
(* The application                                                         *)

\* The resources of Needed that are older than k.
Below(k) == {l \in Needed(settings) : Rank(l) < Rank(k)}

UpTo(k) == {l \in Needed(settings) : Rank(l) <= Rank(k)}

\* Where the process is determines which resources exist and are still listed.
ResourceInv ==
  /\ phase \in {"new", "pinging", "unreachable"} =>
       opened = {} /\ live = Constructed(settings)
  /\ phase = "active" =>
       opened = Needed(settings) /\ live = Needed(settings)
  /\ phase \in {"closing", "unwinding"} =>
       /\ shutting \in Needed(settings)
       /\ opened = Below(shutting)
       /\ live = UpTo(shutting)
  /\ phase \notin {"closing", "unwinding"} => shutting = None
  /\ phase \in {"closed", "broken", "failed"} =>
       IF raised = None THEN live = {}
       ELSE raised \in Needed(settings) /\ live = UpTo(raised)
  /\ phase \notin {"closed", "broken", "failed"} => raised = None
  /\ phase = "broken" => raised # None

AtRest == \A j \in Job : task[j] \in {"none", "done"}

\* Where the process is determines what the upload store can be doing.
StoreInv ==
  /\ phase \in {"new", "pinging", "unreachable", "active"} => ~closed
  /\ phase \notin {"active", "closing", "broken"} => AtRest
  /\ phase \notin {"active", "closing", "closed", "broken"} => registered = {}
  /\ "upload_job_store" \notin Needed(settings) => AtRest /\ registered = {}
  /\ phase = "closing" =>
       \/ shutting = "upload_job_store" /\ closer = "gathering"
       \/ AtRest /\ shutting # "upload_job_store"
  /\ phase = "closing" /\ shutting # "upload_job_store" =>
       closed \/ "upload_job_store" \notin Needed(settings)
  /\ phase = "unwinding" => shutting # "upload_job_store"
  /\ phase = "broken" =>
       /\ raised = "upload_job_store" \/ AtRest
       /\ closed \/ "upload_job_store" \notin Needed(settings)

AppIndInv ==
  /\ AppTypeOK
  /\ IndInv
  /\ ResourceInv
  /\ StoreInv

-----------------------------------------------------------------------------
(* The order of the resources.                                             *)

LEMMA Ranks ==
  /\ Rank("auth_store") = 1 /\ Rank("oauth_callback") = 2
  /\ Rank("disk_client") = 3 /\ Rank("wiki_client") = 4
  /\ Rank("recovery_store") = 5 /\ Rank("signed_client") = 6
  /\ Rank("upload_job_store") = 7
  /\ Resource = {"auth_store", "oauth_callback", "disk_client", "wiki_client",
                 "recovery_store", "signed_client", "upload_job_store"}
  <1>1. 1..7 = {1, 2, 3, 4, 5, 6, 7}
    OBVIOUS
  <1>2. /\ Kinds[1] = "auth_store" /\ Kinds[2] = "oauth_callback"
        /\ Kinds[3] = "disk_client" /\ Kinds[4] = "wiki_client"
        /\ Kinds[5] = "recovery_store" /\ Kinds[6] = "signed_client"
        /\ Kinds[7] = "upload_job_store"
    BY DEF Kinds
  <1>3. Resource = {"auth_store", "oauth_callback", "disk_client", "wiki_client",
                    "recovery_store", "signed_client", "upload_job_store"}
    BY <1>1, <1>2 DEF Resource
  <1> QED
    BY <1>1, <1>2, <1>3 DEF Rank

LEMMA Newest ==
  ASSUME NEW S \in SUBSET Resource, S # {}
  PROVE  NewestOf(S) \in S /\ \A l \in S : Rank(l) <= Rank(NewestOf(S))
  <1>1. \E k \in S : \A l \in S : Rank(l) <= Rank(k)
    <2>1. CASE "upload_job_store" \in S
      BY <2>1, Ranks
    <2>2. CASE "upload_job_store" \notin S /\ "signed_client" \in S
      BY <2>2, Ranks
    <2>3. CASE /\ S \cap {"upload_job_store", "signed_client"} = {}
               /\ "recovery_store" \in S
      BY <2>3, Ranks
    <2>4. CASE /\ S \cap {"upload_job_store", "signed_client", "recovery_store"} = {}
               /\ "wiki_client" \in S
      BY <2>4, Ranks
    <2>5. CASE /\ S \subseteq {"auth_store", "oauth_callback", "disk_client"}
               /\ "disk_client" \in S
      BY <2>5, Ranks
    <2>6. CASE S = {"auth_store", "oauth_callback"}
      BY <2>6, Ranks
    <2>7. CASE S = {"oauth_callback"} \/ S = {"auth_store"}
      BY <2>7, Ranks
    <2> QED
      BY <2>1, <2>2, <2>3, <2>4, <2>5, <2>6, <2>7, Ranks
  <1> QED
    BY <1>1 DEF NewestOf

LEMMA NeededTyped == Needed(settings) \subseteq Resource
  BY Ranks DEF Needed

LEMMA ConstructedNeeded == Constructed(settings) \subseteq Needed(settings)
  BY DEF Constructed, Needed

LEMMA ScopesTyped ==
  ASSUME NEW s \in Settings, NEW t \in SUBSET Class
  PROVE  PrincipalScopes(s, t) \in SUBSET Class
  <1>1. Ceiling(s) \in SUBSET Class
    <2>1. s.allows["disk"] \in SUBSET Class /\ s.allows["wiki"] \in SUBSET Class
      BY DEF Settings, Service
    <2>2. \A c \in Class : Implied(c) \in SUBSET Class
      BY DEF Implied, Class
    <2> QED
      BY <2>1, <2>2 DEF Ceiling, Expanded
  <1> QED
    BY <1>1 DEF PrincipalScopes, StaticScopes

\* Where each resource is needed.
LEMMA OperationNeeds ==
  ASSUME NEW o \in Operation
  PROVE  /\ o.service \in {"disk", "wiki"}
         /\ o.needs \subseteq {"signed_client", "upload_job_store", "recovery_store"}
         /\ "signed_client" \in o.needs =>
              \/ o = InlineUpload
              \/ o.service = "disk" /\ o.class = "read"
              \/ o.class = "write" /\ o.extra = "local dirs"
         /\ "upload_job_store" \in o.needs =>
              o.service = "disk" /\ o.class = "write" /\ o.extra = "local dirs"
         /\ "recovery_store" \in o.needs => o.service = "wiki" /\ o.class = "delete"
  <1>1. CASE o = Tool("disk", "read", "none", {})
    BY <1>1 DEF Tool
  <1>2. CASE o = Tool("disk", "read", "none", {"signed_client"})
    BY <1>2 DEF Tool
  <1>3. CASE o = Tool("disk", "read", "public keys", {})
    BY <1>3 DEF Tool
  <1>4. CASE o = Tool("disk", "write", "none", {})
    BY <1>4 DEF Tool
  <1>5. CASE o = InlineUpload
    BY <1>5 DEF InlineUpload, Tool
  <1>6. CASE o = Tool("disk", "write", "url hosts", {})
    BY <1>6 DEF Tool
  <1>7. CASE o = Tool("disk", "write", "local dirs", {"signed_client"})
    BY <1>7 DEF Tool
  <1>8. CASE o = BackgroundUpload
    BY <1>8 DEF BackgroundUpload, Tool
  <1>16. CASE o = UploadQuery
    BY <1>16 DEF UploadQuery, Tool
  <1>9. CASE o = Tool("disk", "delete", "none", {})
    BY <1>9 DEF Tool
  <1>10. CASE o = Tool("disk", "delete", "whole disk", {})
    BY <1>10 DEF Tool
  <1>11. CASE o = Tool("wiki", "read", "none", {})
    BY <1>11 DEF Tool
  <1>12. CASE o = Tool("wiki", "write", "none", {})
    BY <1>12 DEF Tool
  <1>13. CASE o = Tool("wiki", "write", "local dirs", {"signed_client"})
    BY <1>13 DEF Tool
  <1>14. CASE o = Tool("wiki", "delete", "none", {})
    BY <1>14 DEF Tool
  <1>15. CASE o = Tool("wiki", "delete", "none", {"recovery_store"})
    BY <1>15 DEF Tool
  <1> QED
    BY <1>1, <1>2, <1>3, <1>4, <1>5, <1>6, <1>7, <1>8,
       <1>9, <1>10, <1>11, <1>12, <1>13, <1>14, <1>15, <1>16
       DEF Operation, DiskReadTools, DiskWriteTools, DiskDeleteTools, WikiReadTools,
           WikiWriteTools, WikiDeleteTools

LEMMA ReachesTyped ==
  ASSUME NEW s, NEW t \in Registered(s), NEW o \in Reaches(t)
  PROVE  o \in Operation /\ o.class = t.class
  <1>1. CASE t = CommonTool
    <2>1. t.class = "read"
      BY <1>1 DEF CommonTool, Tool
    <2>2. o \in DiskReadTools \cup WikiReadTools
      BY <1>1 DEF Reaches
    <2>3. CASE o = Tool("disk", "read", "none", {}) \/ o = Tool("wiki", "read", "none", {})
      BY <2>1, <2>2, <2>3 DEF Tool, Operation
    <2>4. CASE o = Tool("disk", "read", "none", {"signed_client"})
      BY <2>1, <2>2, <2>4 DEF Tool, Operation
    <2>5. CASE o = Tool("disk", "read", "public keys", {})
      BY <2>1, <2>2, <2>5 DEF Tool, Operation
    <2> QED
      BY <2>2, <2>3, <2>4, <2>5 DEF DiskReadTools, WikiReadTools
  <1>2. CASE t # CommonTool
    BY <1>2 DEF Reaches, Registered
  <1> QED
    BY <1>1, <1>2

-----------------------------------------------------------------------------
(* The initial states.                                                     *)

LEMMA FreshProcess ==
  ASSUME AppTypeOK, IndInv, AtRest, registered = {}, ~closed,
         phase = "new", opened = {}, live = Constructed(settings),
         shutting = None, raised = None, \A c \in Call : call[c] = NoCall
  PROVE  AppIndInv
  BY DEF AppIndInv, ResourceInv, StoreInv

LEMMA InitAppIndInv == AppInit => AppIndInv
  <1> SUFFICES ASSUME AppInit PROVE AppIndInv
    OBVIOUS
  <1>1. IndInv
    BY InitIndInv DEF AppInit
  <1>2. Constructed(settings) \in SUBSET Resource
    BY NeededTyped, ConstructedNeeded
  <1>3. AppTypeOK
    BY <1>2, ConfigurationAssumption DEF AppInit, AppTypeOK, CallType, Class
  <1> QED
    BY <1>1, <1>3, FreshProcess DEF AppInit, Init, AtRest

-----------------------------------------------------------------------------
(* Closing: the listed resources are always those below the one that is    *)
(* being closed.                                                           *)

LEMMA NextClosed ==
  ASSUME AppTypeOK, NEW n \in 0..7, NEW mode \in {"closing", "unwinding"},
         NEW S, S = {l \in Needed(settings) : Rank(l) <= n},
         CloseNext(S, mode), live' = S, raised = None,
         UNCHANGED <<settings, raised, call, token, restarts>>
  PROVE  /\ AppTypeOK'
         /\ ResourceInv'
         /\ S # {} => phase' = mode /\ shutting' \in S
                        /\ \A l \in S : Rank(l) <= Rank(shutting')
         /\ S = {} => phase' = Rest(mode)
  <1>1. S \subseteq Needed(settings) /\ S \in SUBSET Resource
    BY NeededTyped
  <1>2. Needed(settings)' = Needed(settings)
    OBVIOUS
  <1>3. CASE S = {}
    <2>1. /\ shutting' = None /\ opened' = {} /\ live' = {} /\ raised' = None
          /\ phase' \in {"closed", "failed"}
      BY <1>3 DEF CloseNext, Rest
    <2> QED
      BY <2>1, <1>3 DEF AppTypeOK, ResourceInv, CloseNext
  <1>4. CASE S # {}
    <2>1. /\ shutting' = NewestOf(S) /\ opened' = S \ {shutting'} /\ phase' = mode
      BY <1>4 DEF CloseNext
    <2>2. shutting' \in S /\ \A l \in S : Rank(l) <= Rank(shutting')
      BY <1>1, <1>4, <2>1, Newest
    <2>3. \A k, l \in Resource : Rank(k) \in 1..7 /\ (Rank(k) = Rank(l) => k = l)
      BY Ranks
    <2>4. \A l \in Needed(settings) :
            /\ l \in S <=> Rank(l) <= Rank(shutting')
            /\ l \in S \ {shutting'} <=> Rank(l) < Rank(shutting')
      BY <1>1, <2>2, <2>3, NeededTyped
    <2>5. opened' = Below(shutting)' /\ live' = UpTo(shutting)'
      BY <2>1, <2>2, <2>4, <1>1, <1>2 DEF Below, UpTo
    <2>6. shutting' # None
      BY <2>2, <1>1, Ranks DEF None
    <2>7. ResourceInv'
      BY <2>1, <2>2, <2>5, <1>1, <1>2 DEF ResourceInv
    <2>8. AppTypeOK'
      BY <2>1, <2>2, <1>1 DEF AppTypeOK
    <2> QED
      BY <1>4, <2>1, <2>2, <2>7, <2>8
  <1> QED
    BY <1>3, <1>4

LEMMA AllClosed ==
  ASSUME AppIndInv, NEW n \in 0..7, NEW mode \in {"closing", "unwinding"},
         NEW S, S = {l \in Needed(settings) : Rank(l) <= n},
         CloseAll(S, S, mode), raised = None, ~closed,
         mode = "closing" => S = Needed(settings),
         mode = "unwinding" => AtRest /\ registered = {},
         UNCHANGED <<settings, raised, call, token, restarts>>
  PROVE  AppIndInv'
  <1>1. AppTypeOK /\ IndInv /\ StoreInv
    BY DEF AppIndInv
  <1>3. S \subseteq Needed(settings)
    OBVIOUS
  <1>4. CASE /\ "upload_job_store" \notin S
             /\ CloseNext(S, mode) /\ live' = S /\ UNCHANGED vars
    <2>1. /\ AppTypeOK' /\ ResourceInv'
          /\ S # {} => phase' = mode /\ shutting' \in S
          /\ S = {} => phase' = Rest(mode)
      BY <1>1, <1>4, NextClosed
    <2>2. IndInv'
      BY <1>1, <1>4 DEF vars, IndInv, TypeOK, JobInv, HandleOwned, CloserInv,
                        ClosedClean
    <2>3. AtRest /\ registered = {}
      BY <1>1, <1>4 DEF StoreInv
    <2>4. mode = "closing" => "upload_job_store" \notin Needed(settings)
      BY <1>4
    <2>5. AtRest' /\ registered' = {} /\ Needed(settings)' = Needed(settings)
      BY <2>3, <1>4 DEF vars, AtRest
    <2>6. \/ phase' = mode /\ shutting' # "upload_job_store"
          \/ phase' = Rest(mode)
      BY <2>1, <1>4
    <2>7. StoreInv'
      BY <2>1, <2>4, <2>5, <2>6, <1>4 DEF StoreInv, Rest
    <2> QED
      BY <2>1, <2>2, <2>7 DEF AppIndInv
  <1>5. CASE /\ "upload_job_store" \in S
             /\ CloseBegin /\ CloseNext(S, mode) /\ live' = S
    <2>1. /\ AppTypeOK' /\ ResourceInv'
          /\ phase' = mode /\ shutting' \in S
          /\ \A l \in S : Rank(l) <= Rank(shutting')
      BY <1>1, <1>5, NextClosed
    <2>2. IndInv'
      BY <1>1, <1>5, CloseStep DEF Close
    <2>3. mode = "closing" /\ closer' = "gathering" /\ closed'
      BY <1>5 DEF CloseBegin
    <2>4. shutting' = "upload_job_store"
      BY <2>1, <1>3, <1>5, NeededTyped, Ranks
    <2>5. StoreInv'
      BY <2>1, <2>3, <2>4, <1>3, <1>5 DEF StoreInv
    <2> QED
      BY <2>1, <2>2, <2>5 DEF AppIndInv
  <1>6. CASE /\ "upload_job_store" \in S
             /\ CloseIdle
             /\ CloseNext(S \ {"upload_job_store"}, mode)
             /\ live' = S \ {"upload_job_store"}
    <2>1. S \ {"upload_job_store"} = {l \in Needed(settings) : Rank(l) <= 6}
      <3>1. n >= 7
        BY <1>6, Ranks
      <3>2. \A l \in Needed(settings) :
              /\ Rank(l) <= n
              /\ l # "upload_job_store" <=> Rank(l) <= 6
        BY <3>1, NeededTyped, Ranks
      <3> QED
        BY <3>2
    <2>2. /\ AppTypeOK' /\ ResourceInv'
          /\ phase' \in {mode, Rest(mode)} /\ shutting' # "upload_job_store"
      <3> DEFINE T == S \ {"upload_job_store"}
      <3>1. /\ AppTypeOK' /\ ResourceInv'
            /\ T # {} => phase' = mode /\ shutting' \in T
            /\ T = {} => phase' = Rest(mode)
        BY <1>1, <1>6, <2>1, NextClosed
      <3>2. T = {} => shutting' = None
        BY <1>6 DEF CloseNext
      <3> QED
        BY <3>1, <3>2 DEF None
    <2>3. IndInv'
      BY <1>1, <1>6, CloseStep DEF Close
    <2>4. /\ registered' = {} /\ closed' /\ closer' = "done"
      BY <1>6 DEF CloseIdle, FinalPass
    <2>5. AtRest'
      BY <2>3, <2>4 DEF IndInv, ClosedClean, AtRest
    <2>6. StoreInv'
      BY <2>2, <2>4, <2>5 DEF StoreInv, Rest
    <2> QED
      BY <2>2, <2>3, <2>6 DEF AppIndInv
  <1> QED
    BY <1>4, <1>5, <1>6 DEF CloseAll

LEMMA SameStore == IndInv /\ UNCHANGED vars => IndInv'
  BY DEF vars, IndInv, TypeOK, JobInv, HandleOwned, CloserInv, ClosedClean

LEMMA CloseReturnsStep == AppIndInv /\ CloseReturns => AppIndInv'
  <1> SUFFICES ASSUME AppIndInv, CloseReturns PROVE AppIndInv'
    OBVIOUS
  <1> DEFINE n == Rank(shutting) - 1
  <1>1. /\ AppTypeOK /\ IndInv /\ ResourceInv /\ StoreInv
        /\ shutting \notin {None, "upload_job_store"}
        /\ UNCHANGED <<vars, settings, raised, call, token, restarts>>
    BY DEF AppIndInv, CloseReturns
  <1>2. phase \in {"closing", "unwinding"} /\ raised = None
    BY <1>1 DEF ResourceInv
  <1>3. shutting \in Needed(settings) /\ opened = Below(shutting) /\ live = UpTo(shutting)
    BY <1>1, <1>2 DEF ResourceInv
  <1>4. n \in 0..7
    BY <1>3, NeededTyped, Ranks
  <1>5. opened = {l \in Needed(settings) : Rank(l) <= n}
    BY <1>3, NeededTyped, Ranks DEF Below
  <1>6. live \ {shutting} = opened
    BY <1>3, NeededTyped, Ranks DEF Below, UpTo
  <1>7. CloseNext(opened, phase) /\ live' = opened
    BY <1>6 DEF CloseReturns
  <1> HIDE DEF n
  <1>8. /\ AppTypeOK' /\ ResourceInv'
        /\ opened # {} => phase' = phase /\ shutting' \in opened
        /\ opened = {} => phase' = Rest(phase)
    BY <1>1, <1>2, <1>4, <1>5, <1>7, NextClosed
  <1>9. shutting' # "upload_job_store"
    <2>1. "upload_job_store" \notin opened
      BY <1>5, <1>3, <1>4, NeededTyped, Ranks DEF n
    <2>2. opened = {} => shutting' = None
      BY <1>7 DEF CloseNext
    <2> QED
      BY <1>8, <2>1, <2>2 DEF None
  <1>10. IndInv' /\ AtRest' = AtRest /\ registered' = registered /\ closed' = closed
    BY <1>1, SameStore DEF vars, AtRest
  <1>11. StoreInv'
    <2>1. phase' \in {phase, Rest(phase)}
      BY <1>8
    <2>2. AtRest
      BY <1>1, <1>2 DEF StoreInv
    <2> QED
      BY <1>1, <1>2, <1>9, <1>10, <2>1, <2>2 DEF StoreInv, Rest
  <1> QED
    BY <1>8, <1>10, <1>11 DEF AppIndInv

LEMMA JobStoreClosesStep == AppIndInv /\ JobStoreCloses => AppIndInv'
  <1> SUFFICES ASSUME AppIndInv, JobStoreCloses PROVE AppIndInv'
    OBVIOUS
  <1>1. /\ AppTypeOK /\ IndInv /\ ResourceInv /\ StoreInv
        /\ shutting = "upload_job_store" /\ CloseFinish
        /\ UNCHANGED <<settings, raised, call, token, restarts>>
    BY DEF AppIndInv, JobStoreCloses
  <1>2. phase = "closing" /\ raised = None
    BY <1>1 DEF ResourceInv, StoreInv, None
  <1>3. shutting \in Needed(settings) /\ opened = Below(shutting) /\ live = UpTo(shutting)
    BY <1>1, <1>2 DEF ResourceInv
  <1>4. opened = {l \in Needed(settings) : Rank(l) <= 6}
    BY <1>1, <1>3, NeededTyped, Ranks DEF Below
  <1>5. live \ {shutting} = opened
    BY <1>1, <1>3, NeededTyped, Ranks DEF Below, UpTo
  <1>6. CloseNext(opened, phase) /\ live' = opened
    BY <1>5 DEF JobStoreCloses
  <1>7. /\ AppTypeOK' /\ ResourceInv'
        /\ opened # {} => phase' = phase /\ shutting' \in opened
        /\ opened = {} => phase' = Rest(phase) /\ shutting' = None
    <2>1. 6 \in 0..7
      OBVIOUS
    <2>2. /\ AppTypeOK' /\ ResourceInv'
          /\ opened # {} => phase' = phase /\ shutting' \in opened
          /\ opened = {} => phase' = Rest(phase)
      BY <1>1, <1>2, <1>4, <1>6, <2>1, NextClosed
    <2>3. opened = {} => shutting' = None
      BY <1>6 DEF CloseNext
    <2> QED
      BY <2>2, <2>3
  <1>8. shutting' # "upload_job_store"
    BY <1>4, <1>7, Ranks DEF None
  <1>9. IndInv' /\ closed' /\ closer' = "done"
    BY <1>1, CloseStep DEF Close, CloseFinish, FinalPass, IndInv, CloserInv
  <1>10. AtRest'
    BY <1>9 DEF IndInv, ClosedClean, AtRest
  <1>11. StoreInv'
    BY <1>1, <1>2, <1>3, <1>7, <1>8, <1>9, <1>10 DEF StoreInv, Rest
  <1> QED
    BY <1>7, <1>9, <1>11 DEF AppIndInv

LEMMA InterruptedStep ==
  ASSUME AppIndInv, Interrupted,
         \/ /\ UNCHANGED vars
            /\ shutting \notin {None, "upload_job_store"}
         \/ CloseInterrupted /\ shutting = "upload_job_store"
  PROVE  AppIndInv'
  <1>1. /\ AppTypeOK /\ IndInv /\ ResourceInv /\ StoreInv
        /\ shutting # None
        /\ raised' = shutting /\ shutting' = None
        /\ phase' = IF phase = "closing" THEN "broken" ELSE "failed"
        /\ UNCHANGED <<settings, opened, live, call, token, restarts>>
    BY DEF AppIndInv, Interrupted, None
  <1>2. /\ phase \in {"closing", "unwinding"}
        /\ shutting \in Needed(settings) /\ live = UpTo(shutting)
    BY <1>1 DEF ResourceInv
  <1>3. AppTypeOK'
    BY <1>1, <1>2, NeededTyped DEF AppTypeOK
  <1>4. live' = UpTo(raised)'
    BY <1>1, <1>2 DEF UpTo
  <1>5. ResourceInv'
    BY <1>1, <1>2, <1>4 DEF ResourceInv
  <1>7. CASE UNCHANGED vars /\ shutting # "upload_job_store"
    <2>1. IndInv' /\ AtRest' = AtRest /\ registered' = registered /\ closed' = closed
      BY <1>1, <1>7, SameStore DEF vars, AtRest
    <2>2. StoreInv'
      BY <1>1, <1>2, <1>7, <2>1 DEF StoreInv
    <2> QED
      BY <1>3, <1>5, <2>1, <2>2 DEF AppIndInv
  <1>8. CASE CloseInterrupted /\ shutting = "upload_job_store"
    <2>1. IndInv' /\ AtRest' = AtRest /\ registered' = registered /\ closed'
      BY <1>1, <1>8, CloseStep DEF Close, CloseInterrupted, AtRest, IndInv, CloserInv
    <2>2. phase = "closing"
      BY <1>1, <1>2, <1>8 DEF StoreInv
    <2>3. StoreInv'
      BY <1>1, <1>2, <1>8, <2>1, <2>2 DEF StoreInv
    <2> QED
      BY <1>3, <1>5, <2>1, <2>3 DEF AppIndInv
  <1> QED
    BY <1>7, <1>8

LEMMA ClosingStep == AppIndInv /\ Closing => AppIndInv'
  BY CloseReturnsStep, JobStoreClosesStep, InterruptedStep
     DEF Closing, CloseRaises, JobStoreInterrupted

-----------------------------------------------------------------------------
(* open() and the lifespan.                                                *)

LEMMA CredentialOfMultiUser == AppTypeOK => (CredentialMissing(settings) => ~MultiUser(settings))
  BY ConfigurationAssumption DEF AppTypeOK, Valid, CredentialMissing, MultiUser

LEMMA BuildFailsStep == AppIndInv /\ BuildFails => AppIndInv'
  <1> SUFFICES ASSUME AppIndInv, BuildFails PROVE AppIndInv'
    OBVIOUS
  <1>1. /\ AppTypeOK /\ ResourceInv /\ StoreInv
        /\ phase \in {"new", "pinging"}
        /\ UNCHANGED <<settings, raised, call, token, restarts>>
    BY DEF AppIndInv, BuildFails, Ready
  <1>2. /\ opened = {} /\ live = Constructed(settings) /\ raised = None
        /\ ~closed /\ AtRest /\ registered = {}
    BY <1>1 DEF ResourceInv, StoreInv
  <1>3. PICK n \in 1..7 :
          LET made == {k \in Needed(settings) : Rank(k) <= n} IN
            /\ Constructed(settings) \subseteq made
            /\ CloseAll(Listed(made), live \cup made, "unwinding")
    BY DEF BuildFails
  <1> DEFINE made == {k \in Needed(settings) : Rank(k) <= n}
  <1>4. Listed(made) = made /\ live \cup made = made
    BY <1>2, <1>3 DEF Listed
  <1>5. CloseAll(made, made, "unwinding")
    BY <1>3, <1>4
  <1>6. n \in 0..7
    OBVIOUS
  <1> QED
    BY <1>1, <1>2, <1>5, <1>6, AllClosed

LEMMA LifespanExitStep == AppIndInv /\ LifespanExit => AppIndInv'
  <1> SUFFICES ASSUME AppIndInv, LifespanExit PROVE AppIndInv'
    OBVIOUS
  <1>1. /\ AppTypeOK /\ ResourceInv /\ StoreInv
        /\ phase = "active"
        /\ UNCHANGED <<settings, raised, call, token, restarts>>
    BY DEF AppIndInv, LifespanExit
  <1>2. /\ opened = Needed(settings) /\ live = Needed(settings) /\ raised = None
        /\ ~closed
    BY <1>1 DEF ResourceInv, StoreInv
  <1>3. Needed(settings) = {l \in Needed(settings) : Rank(l) <= 7}
    BY NeededTyped, Ranks
  <1>4. CloseAll(Needed(settings), Needed(settings), "closing")
    BY <1>2 DEF LifespanExit
  <1>5. 7 \in 0..7
    OBVIOUS
  <1> QED
    BY <1>1, <1>2, <1>3, <1>4, <1>5, AllClosed

LEMMA OpenStep ==
  ASSUME AppIndInv, Refuse \/ OpenStore \/ PingFails \/ Build
  PROVE  AppIndInv'
  <1>1. /\ AppTypeOK /\ IndInv /\ ResourceInv /\ StoreInv
        /\ UNCHANGED <<vars, settings, shutting, raised, call, token, restarts>>
        /\ phase \in {"new", "pinging"}
    BY DEF AppIndInv, Refuse, OpenStore, PingFails, Build, Ready
  <1>2. IndInv' /\ AtRest' = AtRest /\ registered' = registered /\ closed' = closed
        /\ closer' = closer
    BY <1>1, SameStore DEF vars, AtRest
  <1>3. Needed(settings)' = Needed(settings) /\ Constructed(settings)' = Constructed(settings)
    BY <1>1
  <1>4. CASE Refuse \/ OpenStore \/ PingFails
    <2>1. /\ UNCHANGED <<opened, live>>
          /\ phase' \in {"failed", "pinging", "unreachable"}
          /\ phase' = "failed" => CredentialMissing(settings)
      BY <1>4 DEF Refuse, OpenStore, PingFails
    <2>2. phase' = "failed" => live = {}
      BY <1>1, <2>1, CredentialOfMultiUser DEF ResourceInv, Constructed
    <2>3. AppTypeOK'
      BY <1>1, <2>1 DEF AppTypeOK
    <2>4. ResourceInv'
      BY <1>1, <1>3, <2>1, <2>2 DEF ResourceInv
    <2>5. StoreInv'
      BY <1>1, <1>2, <1>3, <2>1 DEF StoreInv
    <2> QED
      BY <1>2, <2>3, <2>4, <2>5 DEF AppIndInv
  <1>5. CASE Build
    <2>1. /\ phase' = "active" /\ live' = live \cup Needed(settings)
          /\ opened' = Needed(settings)
      BY <1>5 DEF Build, Listed
    <2>2. live' = Needed(settings)
      BY <1>1, <2>1, ConstructedNeeded DEF ResourceInv
    <2>3. AppTypeOK'
      BY <1>1, <2>1, <2>2, NeededTyped DEF AppTypeOK
    <2>4. ResourceInv'
      BY <1>1, <1>3, <2>1, <2>2 DEF ResourceInv
    <2>5. StoreInv'
      BY <1>1, <1>2, <1>3, <2>1 DEF StoreInv
    <2> QED
      BY <1>2, <2>3, <2>4, <2>5 DEF AppIndInv
  <1> QED
    BY <1>4, <1>5

LEMMA RestartStep == AppIndInv /\ Restart => AppIndInv'
  <1> SUFFICES ASSUME AppIndInv, Restart PROVE AppIndInv'
    OBVIOUS
  <1>1. AppTypeOK /\ now \in 0..MaxTime
    BY DEF AppIndInv, IndInv, TypeOK
  <1>2. /\ (jobs = {})' /\ (registered = {})' /\ (cancelling = {})'
        /\ (submitted = 0)' /\ (closed = FALSE)' /\ (closer = "idle")'
        /\ (now \in 0..MaxTime)'
        /\ (born = [j \in Job |-> 0])' /\ (expires = [j \in Job |-> 0])'
        /\ (status = [j \in Job |-> "none"])' /\ (handle = [j \in Job |-> "none"])'
        /\ (task = [j \in Job |-> "none"])'
    BY <1>1 DEF Restart
  <1>3. (IndInv /\ AtRest)'
    <2>1. TypeOK'
      BY <1>2 DEF TypeOK, Active, Terminal
    <2>2. IsFiniteSet(jobs')
      BY <1>2, FS_EmptySet
    <2> QED
      BY <1>2, <2>1, <2>2 DEF IndInv, JobInv, HandleOwned, CloserInv, ClosedClean,
                              AtRest, Active, Terminal
  <1>4. /\ settings' \in Configurations /\ phase' = "new" /\ opened' = {}
        /\ live' = Constructed(settings') /\ shutting' = None /\ raised' = None
        /\ call' = [c \in Call |-> NoCall] /\ token' \in SUBSET Class
        /\ restarts' \in 0..MaxRestarts
    BY <1>1, ConfigurationAssumption DEF Restart, AppTypeOK
  <1>5. Constructed(settings') \subseteq Resource
    BY Ranks DEF Constructed
  <1>6. AppTypeOK'
    BY <1>4, <1>5 DEF AppTypeOK, CallType
  <1>7. ResourceInv' /\ StoreInv'
    BY <1>2, <1>3, <1>4 DEF ResourceInv, StoreInv
  <1> QED
    BY <1>3, <1>6, <1>7 DEF AppIndInv

-----------------------------------------------------------------------------
(* Calls, and the steps of the upload store while the process lives.       *)

LEMMA CallStep ==
  ASSUME AppIndInv, NEW c \in Call, StartCall(c) \/ Resolve(c) \/ EndCall(c)
  PROVE  AppIndInv'
  <1>1. /\ AppTypeOK /\ IndInv /\ ResourceInv /\ StoreInv
        /\ UNCHANGED <<vars, settings, phase, opened, live, shutting, raised,
                       token, restarts>>
    BY DEF AppIndInv, StartCall, Resolve, EndCall
  <1>2. IndInv' /\ AtRest' = AtRest
    BY <1>1, SameStore DEF vars, AtRest
  <1>3. ResourceInv' /\ StoreInv'
    BY <1>1, <1>2 DEF ResourceInv, StoreInv, vars, UpTo, Below
  <1>4. call \in [Call -> CallType]
    BY <1>1 DEF AppTypeOK
  <1>5. CASE StartCall(c)
    <2>0. PICK t \in Registered(settings) : \E o \in Reaches(t) :
            /\ Admitted(t, o, Scopes)
            /\ call' = [call EXCEPT ![c] = [at |-> "resolving", operation |-> o,
                                            scopes |-> Scopes]]
      BY <1>5 DEF StartCall
    <2>1. PICK o \in Reaches(t) :
            /\ Admitted(t, o, Scopes)
            /\ call' = [call EXCEPT ![c] = [at |-> "resolving", operation |-> o,
                                            scopes |-> Scopes]]
      BY <2>0
    <2>2. Scopes \in SUBSET Class
      BY <1>1, ConfigurationAssumption, ScopesTyped DEF Scopes, AppTypeOK
    <2>3. o \in Operation
      BY <2>1, ReachesTyped DEF Admitted
    <2> DEFINE new == [at |-> "resolving", operation |-> o, scopes |-> Scopes]
    <2>4. new \in CallType
      BY <2>2, <2>3 DEF CallType
    <2> HIDE DEF new
    <2>5. call' = [call EXCEPT ![c] = new]
      BY <2>1 DEF new
    <2>6. AppTypeOK'
      BY <1>1, <1>4, <2>4, <2>5 DEF AppTypeOK
    <2> QED
      BY <1>2, <1>3, <2>6 DEF AppIndInv
  <1>6. CASE Resolve(c)
    <2>1. call[c].at = "resolving" /\ call' = [call EXCEPT ![c].at = "sending"]
      BY <1>6 DEF Resolve
    <2>2. call[c] # NoCall
      BY <2>1 DEF NoCall
    <2> DEFINE new == [call[c] EXCEPT !.at = "sending"]
    <2>3. call[c] \in [at : {"resolving", "sending"}, operation : Operation,
                       scopes : SUBSET Class]
      BY <1>4, <2>2 DEF CallType
    <2>4. new \in CallType
      BY <2>3 DEF CallType
    <2>5. call' = [call EXCEPT ![c] = new]
      BY <2>1
    <2> HIDE DEF new
    <2>6. AppTypeOK'
      BY <1>1, <1>4, <2>4, <2>5 DEF AppTypeOK
    <2> QED
      BY <1>2, <1>3, <2>6 DEF AppIndInv
  <1>7. CASE EndCall(c)
    <2>1. call' = [call EXCEPT ![c] = NoCall] /\ NoCall \in CallType
      BY <1>7 DEF EndCall, CallType
    <2>2. AppTypeOK'
      BY <1>1, <1>4, <2>1 DEF AppTypeOK
    <2> QED
      BY <1>2, <1>3, <2>2 DEF AppIndInv
  <1> QED
    BY <1>5, <1>6, <1>7

\* A step of the upload store alone that starts no task where none may run.
LEMMA StoreAlone ==
  ASSUME AppIndInv, UNCHANGED app, IndInv', StoreInv'
  PROVE  AppIndInv'
  <1>1. AppTypeOK' /\ ResourceInv'
    BY DEF AppIndInv, app, AppTypeOK, ResourceInv, UpTo, Below
  <1> QED
    BY <1>1 DEF AppIndInv

LEMMA SubmitUploadStep ==
  ASSUME AppIndInv, NEW j \in Job, SubmitUpload(j)
  PROVE  AppIndInv'
  <1>1. /\ IndInv /\ StoreInv /\ ResourceInv /\ Submit(j) /\ UNCHANGED app
        /\ Serving
    BY DEF AppIndInv, SubmitUpload, Admitted
  <1>2. IndInv'
    BY <1>1, SubmitStep
  <1>3. "upload_job_store" \in Needed(settings)
    <2>1. BackgroundUpload.needs \subseteq Needed(settings)
      BY DEF SubmitUpload, Admitted
    <2>2. "upload_job_store" \in BackgroundUpload.needs
      BY DEF BackgroundUpload, Tool
    <2> QED
      BY <2>1, <2>2
  <1>4. CASE phase = "active"
    <2>1. closed' = closed
      BY <1>1 DEF Submit, SubmitClosed, SubmitFull, SubmitAccepted
    <2> QED
      BY <1>1, <1>2, <1>3, <1>4, <2>1, StoreAlone DEF StoreInv, app
  <1>5. CASE phase \in {"closing", "broken"}
    <2>1. closed
      BY <1>1, <1>3, <1>5 DEF StoreInv, IndInv, CloserInv
    <2>2. UNCHANGED <<task, registered, closed, closer>>
      BY <1>1, <2>1 DEF Submit, SubmitClosed, SubmitFull, SubmitAccepted
    <2>3. AtRest' = AtRest
      BY <2>2 DEF AtRest
    <2>4. StoreInv'
      BY <1>1, <1>3, <1>5, <2>2, <2>3 DEF StoreInv, app
    <2> QED
      BY <1>1, <1>2, <2>4, StoreAlone
  <1> QED
    BY <1>1, <1>4, <1>5 DEF Serving

LEMMA RunTaskStep ==
  ASSUME AppIndInv, NEW j \in Job, RunTask(j)
  PROVE  AppIndInv'
  <1>1. /\ IndInv /\ StoreInv /\ TaskStep(j) /\ UNCHANGED app
    BY DEF AppIndInv, RunTask
  <1>2. IndInv'
    BY <1>1, TaskStepStep
  <1>3. task[j] \in {"created", "awaiting"}
    BY <1>1 DEF TaskStep, Start, RunnerReturns, RunnerRaises, RunnerCancelled,
                CancelledUnstarted, Leave
  <1>4. ~AtRest
    BY <1>3 DEF AtRest
  <1>5. UNCHANGED <<closed, closer>>
    BY <1>1 DEF TaskStep, Start, RunnerReturns, RunnerRaises, RunnerCancelled,
                CancelledUnstarted, Leave
  <1>6. StoreInv'
    BY <1>1, <1>4, <1>5 DEF StoreInv, app
  <1> QED
    BY <1>1, <1>2, <1>6, StoreAlone

LEMMA QuietStep ==
  ASSUME AppIndInv, UNCHANGED app, Query \/ ClockStep
  PROVE  AppIndInv'
  <1>1. IndInv'
    <2>1. CASE Query
      BY <2>1, QueryStep DEF AppIndInv
    <2>2. CASE ClockStep
      BY <2>2, NextIndInv DEF AppIndInv, Next
    <2> QED
      BY <2>1, <2>2
  <1>2. UNCHANGED <<task, registered, closed, closer>>
    BY DEF Query, ClockStep
  <1>3. StoreInv'
    BY <1>2 DEF AppIndInv, StoreInv, app, AtRest
  <1> QED
    BY <1>1, <1>3, StoreAlone

LEMMA IssueTokenStep == AppIndInv /\ IssueToken => AppIndInv'
  <1> SUFFICES ASSUME AppIndInv, IssueToken PROVE AppIndInv'
    OBVIOUS
  <1>1. /\ AppTypeOK /\ IndInv /\ ResourceInv /\ StoreInv
        /\ UNCHANGED <<vars, settings, phase, opened, live, shutting, raised,
                       call, restarts>>
    BY DEF AppIndInv, IssueToken
  <1>2. token' \in SUBSET Class
    <2>1. \A c \in {"read", "write", "delete"} : Implied(c) \in SUBSET Class
      BY DEF Implied, Class
    <2>2. Ceiling(settings) \subseteq {"read", "write", "delete"}
      <3>1. settings.allows["disk"] \subseteq Class /\ settings.allows["wiki"] \subseteq Class
        BY <1>1, ConfigurationAssumption DEF AppTypeOK, Settings, Service
      <3> QED
        BY <2>1, <3>1 DEF Ceiling, Expanded, Class
    <2> QED
      BY <2>1, <2>2 DEF IssueToken
  <1>3. IndInv' /\ AtRest' = AtRest
    BY <1>1, SameStore DEF vars, AtRest
  <1>4. AppTypeOK'
    BY <1>1, <1>2 DEF AppTypeOK
  <1>5. ResourceInv' /\ StoreInv'
    BY <1>1, <1>3 DEF ResourceInv, StoreInv, vars, UpTo, Below
  <1> QED
    BY <1>3, <1>4, <1>5 DEF AppIndInv

LEMMA NextAppIndInv == AppIndInv /\ [AppNext]_allVars => AppIndInv'
  <1> SUFFICES ASSUME AppIndInv, [AppNext]_allVars PROVE AppIndInv'
    OBVIOUS
  <1>1. CASE Open
    BY <1>1, OpenStep, BuildFailsStep DEF Open
  <1>2. CASE LifespanExit
    BY <1>2, LifespanExitStep
  <1>3. CASE Closing
    BY <1>3, ClosingStep
  <1>4. CASE Restart
    BY <1>4, RestartStep
  <1>5. CASE \E c \in Call : StartCall(c) \/ Resolve(c) \/ EndCall(c)
    BY <1>5, CallStep
  <1>6. CASE \E j \in Job : SubmitUpload(j) \/ RunTask(j)
    BY <1>6, SubmitUploadStep, RunTaskStep
  <1>7. CASE QueryUploads
    BY <1>7, QuietStep DEF QueryUploads
  <1>8. CASE IssueToken
    BY <1>8, IssueTokenStep
  <1>9. CASE ClockStep /\ UNCHANGED app
    BY <1>9, QuietStep
  <1>10. CASE UNCHANGED allVars
    <2>1. UNCHANGED vars /\ UNCHANGED app
      BY <1>10 DEF allVars
    <2>2. IndInv'
      BY <2>1, SameStore DEF AppIndInv
    <2>3. StoreInv'
      BY <2>1 DEF AppIndInv, StoreInv, vars, app, AtRest
    <2> QED
      BY <2>1, <2>2, <2>3, StoreAlone
  <1> QED
    BY <1>1, <1>2, <1>3, <1>4, <1>5, <1>6, <1>7, <1>8, <1>9, <1>10 DEF AppNext

-----------------------------------------------------------------------------
(* Theorems.                                                               *)

THEOREM AppInvariant == AppSpec => []AppIndInv
  BY InitAppIndInv, NextAppIndInv, PTL DEF AppSpec

\* Every variable of the process keeps its type (server.py:100-126).
THEOREM AppTypeCorrect == AppSpec => []AppTypeOK
  <1>1. AppIndInv => AppTypeOK
    BY DEF AppIndInv
  <1> QED
    BY <1>1, AppInvariant, PTL

\* Resources are closed after everything that uses them, on every way open(),
\* the lifespan and close() can end (server.py:331-334, 375-387).
THEOREM ReverseOrder == AppSpec => []ClosedAfterUsers
  <1>1. AppIndInv => ClosedAfterUsers
    <2> SUFFICES ASSUME AppIndInv, phase \notin {"new", "pinging", "unreachable"},
                        NEW k \in InUse \cap Needed(settings)
                 PROVE  k \in live \ {shutting}
      BY DEF ClosedAfterUsers
    <2>1. AppTypeOK /\ IndInv /\ ResourceInv /\ StoreInv
      BY DEF AppIndInv
    <2>2. live \subseteq Needed(settings)
      BY <2>1 DEF ResourceInv, UpTo, AppTypeOK
    <2>3. \A l \in Resource : \A m \in Uses(l) : Rank(m) < Rank(l) /\ m \in Resource
      BY Ranks DEF Uses
    <2>4. Running => "upload_job_store" \in live
      <3>1. Running => ~AtRest
        BY DEF Running, AtRest
      <3>2. Running => phase \in {"active", "closing", "broken"}
                         /\ "upload_job_store" \in Needed(settings)
        BY <2>1, <3>1 DEF StoreInv
      <3>3. Running /\ phase = "closing" => shutting = "upload_job_store"
        BY <2>1, <3>1 DEF StoreInv
      <3>4. Running /\ phase = "broken" => raised = "upload_job_store"
        BY <2>1, <3>1 DEF StoreInv
      <3> QED
        BY <2>1, <3>2, <3>3, <3>4, Ranks DEF ResourceInv, UpTo, None
    <2>5. PICK l \in live : k \in Uses(l)
      BY <2>4 DEF InUse
    <2>6. /\ l \in Needed(settings) /\ l \in Resource
          /\ Rank(k) < Rank(l) /\ k \in Resource
      BY <2>2, <2>3, <2>5, NeededTyped
    <2>7. CASE phase = "active"
      <3>1. k # None
        BY <2>6, Ranks DEF None
      <3> QED
        BY <2>1, <2>7, <3>1 DEF ResourceInv
    <2>8. CASE phase \in {"closing", "unwinding"}
      BY <2>1, <2>5, <2>6, <2>8, NeededTyped, Ranks DEF ResourceInv, UpTo
    <2>9. CASE phase \in {"closed", "broken", "failed"}
      <3>1. raised \in Needed(settings) /\ live = UpTo(raised) /\ shutting = None
        BY <2>1, <2>5, <2>9 DEF ResourceInv
      <3>2. k # None
        BY <2>6, Ranks DEF None
      <3> QED
        BY <2>5, <2>6, <3>1, <3>2, NeededTyped, Ranks DEF UpTo
    <2> QED
      BY <2>1, <2>7, <2>8, <2>9 DEF AppTypeOK
  <1> QED
    BY <1>1, AppInvariant, PTL

\* A process at rest has closed everything it made, also when open() failed half
\* way, unless a close() raised (server.py:331-334, 375-387).
THEOREM AllClosedAtRest == AppSpec => []ClosedUnlessRaised
  <1>1. AppIndInv => ClosedUnlessRaised
    BY DEF AppIndInv, ResourceInv, ClosedUnlessRaised
  <1> QED
    BY <1>1, AppInvariant, PTL

\* Nothing that the services would do with the resources there are goes beyond
\* what is registered as a tool of its own, but for local uploads over HTTP
\* (server.py:241-263, tools/*.py, services/*.py).
THEOREM ServedOnlyRegistered == AppSpec => []ServedAreRegistered
  <1>1. AppIndInv => ServedAreRegistered
    <2> SUFFICES ASSUME AppIndInv, Serving, NEW o \in Operation,
                        ServiceAccepts(o, settings), o.needs \subseteq live,
                        ~TransportGap(o, settings)
                 PROVE  Offered(o, settings)
      BY DEF ServedAreRegistered, Registered
    <2>1. live \subseteq Needed(settings)
      BY DEF AppIndInv, ResourceInv, UpTo, Serving
    <2>2. ASSUME "upload_job_store" \in o.needs
          PROVE  /\ Stdio(settings)
                 /\ "write" \in settings.allows["disk"]
                 /\ LocalDirs(settings, "disk")
      BY <2>1, <2>2 DEF Needed
    <2>3. CASE o = UploadQuery
      <3>1. /\ o.service = "disk" /\ o.class = "write" /\ o.extra = "local dirs"
            /\ "upload_job_store" \in o.needs
        BY <2>3 DEF UploadQuery, Tool
      <3> QED
        BY <2>2, <3>1 DEF Offered, ServiceAccepts, Stdio, LocalDirs
    <2>4. CASE o # UploadQuery
      <3>1. o.extra = "local dirs" => Stdio(settings)
        BY <2>2 DEF TransportGap
      <3> QED
        BY <2>4, <3>1 DEF Offered, ServiceAccepts, Stdio
    <2> QED
      BY <2>3, <2>4
  <1> QED
    BY <1>1, AppInvariant, PTL

\* Every registered tool has the resources, the permissions and the scope that
\* it needs, but for the inline upload of a server that may only write
\* (server.py:241-251).
THEOREM RegisteredToolsWork == AppSpec => []ToolsBacked
  <1>1. AppIndInv => ToolsBacked
    <2> SUFFICES ASSUME AppIndInv, phase = "active", NEW o \in Operation,
                        o \in Registered(settings), ~UploadGap(o, settings)
                 PROVE  /\ o.needs \cup {IF o.service = "disk" THEN "disk_client"
                                                  ELSE "wiki_client"} \subseteq live
                        /\ ServiceAccepts(o, settings)
                        /\ o.class \in Ceiling(settings)
      BY DEF ToolsBacked
    <2>1. live = Needed(settings) /\ settings \in Settings
      BY ConfigurationAssumption DEF AppIndInv, ResourceInv, AppTypeOK
    <2>2. Offered(o, settings)
      <3>1. o.service # "workspace"
        BY OperationNeeds
      <3>2. CommonTool.service = "workspace"
        BY DEF CommonTool, Tool
      <3> QED
        BY <3>1, <3>2 DEF Registered
    <2>3. ServiceAccepts(o, settings)
      BY <2>2 DEF Offered, ServiceAccepts
    <2>4. o.service \in {"disk", "wiki"} /\ o.class \in Class
      <3>1. o.service \in Service
        BY <2>1, <2>2 DEF Offered, Settings
      <3> QED
        BY <2>1, <2>2, <3>1 DEF Offered, Settings, Service
    <2>5. o.class \in Ceiling(settings)
      <3>1. o.class \in settings.allows["disk"] \cup settings.allows["wiki"]
        BY <2>2, <2>4 DEF Offered
      <3>2. o.class \in Implied(o.class)
        BY <2>4 DEF Implied, Class
      <3> QED
        BY <3>1, <3>2 DEF Ceiling, Expanded
    <2>6. {IF o.service = "disk" THEN "disk_client" ELSE "wiki_client"}
            \subseteq Needed(settings)
      BY <2>2, <2>4 DEF Offered, Needed
    <2>7. o.needs \subseteq Needed(settings)
      <3>1. ASSUME "signed_client" \in o.needs PROVE NeedsSigned(settings)
        <4>1. CASE o.service = "disk" /\ o.class = "read"
          BY <2>2, <4>1 DEF Offered, NeedsSigned
        <4>2. CASE o.class = "write" /\ o.extra = "local dirs"
          BY <2>2, <2>4, <4>2 DEF Offered, NeedsSigned, TrustedLocalUpload, Stdio,
                                  LocalDirs, Service
        <4>3. CASE o = InlineUpload
          <5>1. o.service = "disk"
            BY <4>3 DEF InlineUpload, Tool
          <5> QED
            BY <2>2, <4>3, <5>1 DEF Offered, NeedsSigned, UploadGap
        <4> QED
          BY <3>1, <4>1, <4>2, <4>3, OperationNeeds
      <3>2. "upload_job_store" \in o.needs => "upload_job_store" \in Needed(settings)
        BY <2>2, OperationNeeds DEF Offered, Needed, Stdio, LocalDirs
      <3>3. "recovery_store" \in o.needs => "recovery_store" \in Needed(settings)
        BY <2>2, OperationNeeds DEF Offered, Needed
      <3>4. "signed_client" \in o.needs => "signed_client" \in Needed(settings)
        BY <3>1 DEF Needed
      <3> QED
        BY <3>2, <3>3, <3>4, OperationNeeds
    <2> QED
      BY <2>1, <2>3, <2>5, <2>6, <2>7
  <1> QED
    BY <1>1, AppInvariant, PTL
=============================================================================
