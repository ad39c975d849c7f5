----------------------- MODULE OperationPolling_proofs -----------------------
(* Proofs about OperationPolling, for all delays and timeouts. *)
EXTENDS OperationPolling, TLAPS

USE DelayAssumption, PollAssumption

\* The attempts counted by the loop are the attempts made.
LoopCounts ==
  /\ at = "credential" => sent = 0 /\ attempt = 0
  /\ at = "attempt" => sent = attempt
  /\ at \in {"yandex", "sleep"} => sent = attempt + 1
  /\ Active /\ ~safe => attempt = 0
  /\ at = "sleep" => safe /\ attempt < MaxAttempts - 1

\* A wait between attempts ends before the deadline, and time does not pass
\* the deadline while the call is under way.
CallTimed ==
  /\ at # "idle" => clock <= deadline
  /\ at = "sleep" => clock <= wake /\ wake < deadline

\* What the poller keeps about time.
PollTimed ==
  /\ polledAt <= clock
  /\ pollStart <= clock
  /\ stage = "poll" => deadline <= pollStart + Timeout + LeastTimeout
  /\ stage = "pause" => clock <= pollWake + 1 /\ pollWake < pollStart + Timeout
  /\ stage = "pause" => pollWake >= polledAt + PollDelay
  /\ stage = "next" /\ polls > 0 => clock >= polledAt + PollDelay
  /\ stage \in {"next", "pause"} => polls < MaxPolls
  /\ stage \in {"start", "mutate"} => polls = 0

\* A success that is on its way is one that Yandex has reached.
Answers == (body = "success" => remote = "success") /\ Honest

IndInv ==
  TypeOK /\ AttemptsBounded /\ LoopCounts /\ CallTimed /\ PollTimed /\ Answers

LEMMA InitInv == Init => IndInv
  BY SMT DEF Init, CallInit, IndInv, TypeOK, CallTypeOK, Outcomes, Status, MaxAttempts,
     AttemptsBounded, LoopCounts, Active, Waiting, CallTimed, PollTimed, Answers, Honest
LEMMA StutterInv == IndInv /\ UNCHANGED vars => IndInv'
  BY SMT DEF IndInv, TypeOK, CallTypeOK, Outcomes, Status, MaxAttempts,
     AttemptsBounded, LoopCounts, Active, Waiting, CallTimed, PollTimed, Answers, Honest, vars, call, poller

LEMMA RemoteInv == IndInv /\ (Accept \/ Complete) => IndInv'
  BY SMT DEF Accept, Complete, IndInv, TypeOK, CallTypeOK, Outcomes, Status, MaxAttempts,
     AttemptsBounded, LoopCounts, Active, Waiting, CallTimed, PollTimed, Answers, Honest, vars, call, poller

LEMMA TickInv == IndInv /\ Tick => IndInv'
  BY SMT DEF Tick, TimerDue, IndInv, TypeOK, CallTypeOK, Outcomes, Status, MaxAttempts,
     AttemptsBounded, LoopCounts, Active, Waiting, CallTimed, PollTimed, Answers, Honest, vars, call, poller

LEMMA MutateInv == IndInv /\ Mutate => IndInv'
<1> SUFFICES ASSUME IndInv, Mutate PROVE IndInv'
  OBVIOUS
<1>1. /\ at' \in {"credential", "attempt"} /\ safe' = FALSE /\ attempt' = 0
      /\ deadline' = clock + Timeout /\ outcome' = "none" /\ sent' = 0
      /\ clock' = clock /\ wake' = wake /\ stage = "start" /\ stage' = "mutate"
  BY DEF Mutate, Begin
<1>s. safe' \in BOOLEAN
  BY <1>1
<1>2. TypeOK'
  BY <1>1, <1>s, SMT DEF Mutate, IndInv, TypeOK, CallTypeOK, Outcomes, Status, MaxAttempts
<1>3. (AttemptsBounded /\ LoopCounts /\ CallTimed)'
  BY <1>1, SMT DEF IndInv, TypeOK, CallTypeOK, AttemptsBounded, LoopCounts, CallTimed,
     Active, Waiting, MaxAttempts
<1>4. ( PollTimed /\ Answers)'
  BY <1>1, SMT DEF Mutate, IndInv, PollTimed, Answers, Honest
<1> QED
  BY <1>2, <1>3, <1>4 DEF IndInv

LEMMA CallingInv == IndInv /\ Calling => IndInv'
<1> SUFFICES ASSUME IndInv, CallStep, Records PROVE IndInv'
  BY DEF Calling
<1>1. CASE CredentialFound
  BY <1>1, SMT DEF CredentialFound, Records, IndInv, TypeOK, CallTypeOK, Outcomes, Status, MaxAttempts,
     AttemptsBounded, LoopCounts, Active, Waiting, CallTimed, PollTimed, Answers, Honest, vars, call, poller
<1>2. CASE CredentialRefused
  BY <1>2, SMT DEF CredentialRefused, End, Records, IndInv, TypeOK, CallTypeOK, Outcomes, Status, MaxAttempts,
     AttemptsBounded, LoopCounts, Active, Waiting, CallTimed, PollTimed, Answers, Honest, vars, call, poller
<1>3. CASE Expires \/ TooLate
  BY <1>3, SMT DEF Expires, TooLate, End, Records, IndInv, TypeOK, CallTypeOK, Outcomes, Status, MaxAttempts,
     AttemptsBounded, LoopCounts, Active, Waiting, CallTimed, PollTimed, Answers, Honest, vars, call, poller
<1>4. CASE Attempt
  BY <1>4, SMT DEF Attempt, Records, IndInv, TypeOK, CallTypeOK, Outcomes, Status, MaxAttempts,
     AttemptsBounded, LoopCounts, Active, Waiting, CallTimed, PollTimed, Answers, Honest, vars, call, poller
<1>5. CASE Answered
  BY <1>5, SMT DEF Answered, End, Records, IndInv, TypeOK, CallTypeOK, Outcomes, Status, MaxAttempts,
     AttemptsBounded, LoopCounts, Active, Waiting, CallTimed, PollTimed, Answers, Honest, vars, call, poller
<1>6. CASE GivesUp
  BY <1>6, SMT DEF GivesUp, End, Records, IndInv, TypeOK, CallTypeOK, Outcomes, Status, MaxAttempts,
     AttemptsBounded, LoopCounts, Active, Waiting, CallTimed, PollTimed, Answers, Honest, vars, call, poller
<1>7. CASE Wakes
  BY <1>7, SMT DEF Wakes, Records, IndInv, TypeOK, CallTypeOK, Outcomes, Status, MaxAttempts,
     AttemptsBounded, LoopCounts, Active, Waiting, CallTimed, PollTimed, Answers, Honest, vars, call, poller
<1>8. ASSUME NEW hinted \in BOOLEAN, Retries(hinted) PROVE IndInv'
  <2>1. PICK delay \in Int : /\ 0 <= delay
                            /\ \/ End("timeout")
                               \/ /\ ~TooLong(delay)
                                  /\ at' = "sleep"
                                  /\ wake' = clock + delay
                                  /\ UNCHANGED <<clock, safe, attempt, deadline, outcome, sent>>
    BY <1>8, SMT DEF Retries
  <2>2. at = "yandex" /\ ~Last
    BY <1>8 DEF Retries
  <2> QED
    BY <2>1, <2>2, SMT DEF TooLong, Last, End, Records, IndInv, TypeOK, CallTypeOK, Outcomes, Status, MaxAttempts,
     AttemptsBounded, LoopCounts, Active, Waiting, CallTimed, PollTimed, Answers, Honest, vars, call, poller
<1> QED
  BY <1>1, <1>2, <1>3, <1>4, <1>5, <1>6, <1>7, <1>8 DEF CallStep, OwnCallStep

LEMMA MutatedInv == IndInv /\ Mutated => IndInv'
  BY SMT DEF Mutated, Forget, Finish, IndInv, TypeOK, CallTypeOK, Outcomes, Status, MaxAttempts,
     AttemptsBounded, LoopCounts, Active, Waiting, CallTimed, PollTimed, Answers, Honest, vars, call, poller

LEMMA CallFailedInv == IndInv /\ CallFailed => IndInv'
  BY SMT DEF CallFailed, Forget, Finish, IndInv, TypeOK, CallTypeOK, Outcomes, Status, MaxAttempts,
     AttemptsBounded, LoopCounts, Active, Waiting, CallTimed, PollTimed, Answers, Honest, vars, call, poller

LEMMA PollInv == IndInv /\ Poll => IndInv'
  BY SMT DEF Poll, Begin, Remaining, RequestTimeout, IndInv, TypeOK, CallTypeOK, Outcomes, Status, MaxAttempts,
     AttemptsBounded, LoopCounts, Active, Waiting, CallTimed, PollTimed, Answers, Honest, vars, call, poller

LEMMA PolledInv == IndInv /\ Polled => IndInv'
  BY SMT DEF Polled, Succeeded, CapReached, Delay, Remaining, Forget, Finish, IndInv, TypeOK, CallTypeOK, Outcomes, Status, MaxAttempts,
     AttemptsBounded, LoopCounts, Active, Waiting, CallTimed, PollTimed, Answers, Honest, vars, call, poller

LEMMA PollerInv == IndInv /\ (PollTooLate \/ Resume) => IndInv'
  BY SMT DEF PollTooLate, Resume, Finish, IndInv, TypeOK, CallTypeOK, Outcomes, Status, MaxAttempts,
     AttemptsBounded, LoopCounts, Active, Waiting, CallTimed, PollTimed, Answers, Honest, vars, call, poller

LEMMA NextInv == IndInv /\ [Next]_vars => IndInv'
  BY StutterInv, RemoteInv, TickInv, MutateInv, CallingInv, MutatedInv, CallFailedInv,
     PollInv, PolledInv, PollerInv DEF Next, Step

LEMMA Invariance == Spec => []IndInv
  BY InitInv, NextInv, PTL DEF Spec

-----------------------------------------------------------------------------
\* The variables have their types: in particular a status is asked for at most
\* MaxPolls times.
THEOREM TypeCorrect == Spec => []TypeOK
<1>1. IndInv => TypeOK
  BY DEF IndInv
<1> QED
  BY <1>1, Invariance, PTL

\* A read is attempted at most three times, anything else once.
THEOREM RetriesBounded == Spec => []AttemptsBounded
<1>1. IndInv => AttemptsBounded
  BY DEF IndInv
<1> QED
  BY <1>1, Invariance, PTL

\* No call outlives its deadline.
THEOREM CallsInTime == Spec => []InTime
<1>1. IndInv => InTime
  BY DEF IndInv, CallTimed, InTime, Active, Waiting
<1> QED
  BY <1>1, Invariance, PTL

\* Polling ends at its deadline or, at the latest, LeastTimeout after it.
THEOREM PollingEndsInTime == Spec => []PollingInTime
<1>1. IndInv => PollingInTime
  BY SMT DEF IndInv, TypeOK, CallTypeOK, CallTimed, PollTimed, PollingInTime
<1> QED
  BY <1>1, Invariance, PTL

\* Completion is reported only of a completed operation.
THEOREM HonestResult == Spec => []Honest
<1>1. IndInv => Honest
  BY DEF IndInv, Answers
<1> QED
  BY <1>1, Invariance, PTL

\* Status requests keep their distance.
THEOREM PollsKeepApart == Spec => PollsApart
<1>1. IndInv /\ [Next]_vars => [polls' > polls /\ polls > 0 => polledAt' >= polledAt + PollDelay]_vars
  <2> SUFFICES ASSUME IndInv, Next, polls' > polls, polls > 0
               PROVE polledAt' >= polledAt + PollDelay
    OBVIOUS
  <2>1. polls \in Nat /\ polls' # polls
    BY SMT DEF IndInv, TypeOK
  <2>2. Poll
    BY <2>1, Zenon DEF Next, Step, Accept, Complete, Tick, Mutate, Calling, Records, Mutated,
       CallFailed, PollTooLate, Polled, Resume, poller
  <2> QED
    BY <2>1, <2>2, SMT DEF Poll, IndInv, PollTimed
<1> QED
  BY <1>1, Invariance, PTL DEF Spec, PollsApart
=============================================================================
