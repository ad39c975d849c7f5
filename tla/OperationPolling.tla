-------------------------- MODULE OperationPolling --------------------------
(***************************************************************************)
(* A mutation that Yandex carries out in the background: the call that     *)
(* starts it and the polling of its status: _map_mutation_response         *)
(* (clients/disk.py), clone_page (clients/wiki.py) and poll_operation      *)
(* (policies/urls.py), over the calls of YandexRequest.                    *)
(***************************************************************************)
EXTENDS YandexRequest

CONSTANTS
  Timeout,       \* the timeout of the call and of the poller, 30 seconds
  PollDelay,     \* the wait between polls, at least 0.5 seconds
  LeastTimeout,  \* the shortest timeout of a status request, 0.1 seconds
  MaxPolls       \* 100 in the code

ASSUME PollAssumption ==
  /\ Timeout \in Nat \ {0} /\ PollDelay \in Nat \ {0}
  /\ LeastTimeout \in Nat /\ MaxPolls \in Nat \ {0}

VARIABLES
  stage,      \* where the operation is
  polls,      \* the status requests made
  pollStart,  \* started_at of the poller
  pollWake,   \* the end of the wait between polls
  result,     \* what the caller is told
  \* Yandex
  remote,     \* the operation there
  body,       \* the status in the answer that is on its way
  \* history
  polledAt    \* when the last status request began

poller == <<stage, polls, pollStart, pollWake, result>>
vars == <<clock, call, poller, remote, body, polledAt>>

Status == {"running", "success", "failed"}

TypeOK ==
  /\ CallTypeOK
  /\ stage \in {"start", "mutate", "next", "poll", "pause", "over"}
  /\ polls \in 0..MaxPolls
  /\ pollStart \in Nat
  /\ pollWake \in Nat
  /\ result \in {"none", "completed", "error", "timeout"}
  /\ result # "none" <=> stage = "over"
  /\ remote \in Status \cup {"none"}
  /\ body \in Status \cup {"none"}
  /\ polledAt \in Nat
  /\ stage \in {"mutate", "poll"} <=> at # "idle"

Init ==
  /\ CallInit
  /\ stage = "start"
  /\ polls = 0
  /\ pollStart = 0
  /\ pollWake = 0
  /\ result = "none"
  /\ remote = "none"
  /\ body = "none"
  /\ polledAt = 0

Finish(what) == stage' = "over" /\ result' = what

\* The call returned; its variables are of no more use.
Forget ==
  /\ at' = "idle"
  /\ outcome' = "none"
  /\ UNCHANGED <<clock, safe, attempt, deadline, wake, sent>>

-----------------------------------------------------------------------------
(* The operation at Yandex                                                 *)

\* The mutation reaches Yandex, whether or not its answer will come back.
Accept ==
  /\ stage = "mutate"
  /\ at = "yandex"
  /\ remote = "none"
  /\ remote' \in {"running", "success"}
  /\ UNCHANGED <<clock, call, poller, body, polledAt>>

Complete ==
  /\ remote = "running"
  /\ remote' \in {"success", "failed"}
  /\ UNCHANGED <<clock, call, poller, body, polledAt>>

-----------------------------------------------------------------------------
Mutate ==
  /\ stage = "start"
  /\ Begin(FALSE, Timeout)
  /\ stage' = "mutate"
  /\ UNCHANGED <<polls, pollStart, pollWake, result, remote, body, polledAt>>

\* A step of the call under way.  A result tells what the operation is at the
\* moment Yandex answers.
Records ==
  /\ outcome' = "answer" => remote # "none"
  /\ body' = IF outcome' = "answer" THEN remote ELSE body
  /\ UNCHANGED <<poller, remote, polledAt>>

Calling == CallStep /\ Records

\* The mutation was carried out, or accepted with a status link (202), or the
\* answer is malformed.
Mutated ==
  /\ stage = "mutate"
  /\ outcome = "answer"
  /\ Forget
  /\ \/ body = "success" /\ Finish("completed") /\ UNCHANGED pollStart
     \/ Finish("error") /\ UNCHANGED pollStart
     \/ stage' = "next" /\ pollStart' = clock /\ UNCHANGED result
  /\ UNCHANGED <<polls, pollWake, remote, body, polledAt>>

\* The call failed: the error is passed on.
CallFailed ==
  /\ stage \in {"mutate", "poll"}
  /\ at = "over"
  /\ outcome # "answer"
  /\ Forget
  /\ Finish(IF outcome = "timeout" THEN "timeout" ELSE "error")
  /\ UNCHANGED <<polls, pollStart, pollWake, remote, body, polledAt>>

-----------------------------------------------------------------------------
(* poll_operation()                                                        *)

Remaining == pollStart + Timeout - clock

WholeTimeout == Timeout

RequestTimeout == IF Remaining > LeastTimeout THEN Remaining ELSE LeastTimeout

Poll ==
  /\ stage = "next"
  /\ Remaining > 0
  /\ Begin(TRUE, RequestTimeout)
  /\ stage' = "poll"
  /\ polls' = polls + 1
  /\ polledAt' = clock
  /\ UNCHANGED <<pollStart, pollWake, result, remote, body>>

PollTooLate ==
  /\ stage = "next"
  /\ Remaining <= 0
  /\ Finish("timeout")
  /\ UNCHANGED <<clock, call, polls, pollStart, pollWake, remote, body, polledAt>>

Succeeded(status) == status = "success"

CapReached == polls = MaxPolls

Delay == PollDelay

\* A failed operation, a redirect and a malformed answer are errors.
Polled ==
  /\ stage = "poll"
  /\ outcome = "answer"
  /\ Forget
  /\ \/ Succeeded(body) /\ Finish("completed") /\ UNCHANGED pollWake
     \/ Finish("error") /\ UNCHANGED pollWake
     \/ /\ ~Succeeded(body) /\ body = "running"
        /\ \/ CapReached \/ Delay >= Remaining
        /\ Finish("timeout")
        /\ UNCHANGED pollWake
     \/ /\ ~Succeeded(body) /\ body = "running"
        /\ ~CapReached /\ Delay < Remaining
        /\ stage' = "pause"
        /\ pollWake' = clock + Delay
        /\ UNCHANGED result
  /\ UNCHANGED <<polls, pollStart, remote, body, polledAt>>

Resume ==
  /\ stage = "pause"
  /\ clock >= pollWake
  /\ stage' = "next"
  /\ UNCHANGED <<clock, call, polls, pollStart, pollWake, result, remote, body,
                 polledAt>>

-----------------------------------------------------------------------------
\* The wait between polls may end a unit late.
Tick ==
  /\ Waiting \/ stage = "pause"
  /\ ~TimerDue
  /\ stage = "pause" => clock <= pollWake
  /\ clock < MaxClock
  /\ clock' = clock + 1
  /\ UNCHANGED <<call, poller, remote, body, polledAt>>

Step ==
  Mutate \/ Calling \/ Mutated \/ CallFailed \/ Poll \/ PollTooLate \/ Polled \/ Resume

Next == Step \/ Accept \/ Complete \/ Tick

Spec == Init /\ [][Next]_vars

\* What needs no answer of Yandex or of the token store.
Own ==
  \/ OwnCallStep /\ Records
  \/ Mutated \/ CallFailed \/ Poll \/ PollTooLate \/ Polled \/ Resume

\* The event loop runs what is ready and time passes; no answer is assumed.
LiveSpec == Spec /\ WF_vars(Own) /\ WF_vars(Tick)

-----------------------------------------------------------------------------
(* Properties                                                              *)

\* "polled with a 0.5-second minimum interval, 30-second deadline, and 100-poll
\* cap" (docs/architecture.md:27).  The last status request gets at least
\* LeastTimeout, so polling may end that much later.
PollingInTime ==
  stage \in {"poll", "pause"} => clock <= pollStart + Timeout + LeastTimeout

\* Its interval: a status request begins at least PollDelay after the last one.
PollsApart ==
  [][polls' > polls /\ polls > 0 => polledAt' >= polledAt + PollDelay]_vars

\* The caller is told that the operation completed only if it did, however old
\* the answer is when it is read; an error or a timeout says nothing.
Honest == result = "completed" => remote = "success"

\* The operation ends for the caller, even if Yandex never answers.
Ends == stage = "mutate" ~> stage = "over"

=============================================================================
