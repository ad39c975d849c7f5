--------------------------- MODULE YandexRequest ---------------------------
(***************************************************************************)
(* One call of BaseYandexClient._request (clients/base.py): the credential *)
(* lookup, up to three attempts with waits between them, and the deadline  *)
(* over all of it.                                                         *)
(*                                                                         *)
(* Time is a monotonic clock in whole units.  It moves only while the call *)
(* waits, and a timer that is due fires before the clock moves on.         *)
(***************************************************************************)
EXTENDS Integers

CONSTANTS
  FirstDelay,  \* the back-off before jitter, 0.5 seconds
  MaxDelay,    \* the longest wait between attempts, 3 seconds
  MaxClock     \* bound on the clock

ASSUME DelayAssumption ==
  FirstDelay \in Nat /\ MaxDelay \in Nat /\ MaxClock \in Nat

MaxAttempts == 3

VARIABLES
  clock,
  at,        \* where the call is
  safe,      \* a read, so it may be repeated
  attempt,   \* the loop variable
  deadline,  \* started_at + operation_timeout
  wake,      \* the end of the wait
  outcome,   \* how the call ended
  sent       \* history: the attempts made

call == <<at, safe, attempt, deadline, wake, outcome, sent>>

\* The call waits for the credential, for Yandex, or for the next attempt.
Waiting == at \in {"credential", "yandex", "sleep"}
Active == Waiting \/ at = "attempt"

Outcomes == {"none", "answer", "refused", "timeout", "unavailable"}

CallTypeOK ==
  /\ clock \in Nat
  /\ at \in {"idle", "credential", "attempt", "yandex", "sleep", "over"}
  /\ safe \in BOOLEAN
  /\ attempt \in 0..(MaxAttempts - 1)
  /\ deadline \in Nat
  /\ wake \in Nat
  /\ outcome \in Outcomes
  /\ outcome # "none" <=> at = "over"
  /\ sent \in Nat

CallInit ==
  /\ clock = 0
  /\ at = "idle"
  /\ safe = TRUE
  /\ attempt = 0
  /\ deadline = 0
  /\ wake = 0
  /\ outcome = "none"
  /\ sent = 0

\* The caller passes credentials, or the provider is asked for them.
Begin(read, timeout) ==
  /\ ~Active
  /\ at' \in {"credential", "attempt"}
  /\ safe' = read
  /\ attempt' = 0
  /\ deadline' = clock + timeout
  /\ outcome' = "none"
  /\ sent' = 0
  /\ UNCHANGED <<clock, wake>>

End(how) ==
  /\ at' = "over"
  /\ outcome' = how
  /\ UNCHANGED <<clock, safe, attempt, deadline, wake, sent>>

-----------------------------------------------------------------------------
CredentialFound ==
  /\ at = "credential"
  /\ at' = "attempt"
  /\ UNCHANGED <<clock, safe, attempt, deadline, wake, outcome, sent>>

CredentialRefused == at = "credential" /\ End("refused")

NeverExpires == FALSE

\* fail_after(remaining) around the credential lookup or the HTTP request
Expires ==
  /\ at \in {"credential", "yandex"}
  /\ clock >= deadline
  /\ End("timeout")

\* The head of the loop.
TooLate == at = "attempt" /\ clock >= deadline /\ End("timeout")

Attempt ==
  /\ at = "attempt"
  /\ clock < deadline
  /\ at' = "yandex"
  /\ sent' = sent + 1
  /\ UNCHANGED <<clock, safe, attempt, deadline, wake, outcome>>

\* An answer that is not repeated: the result, an error of its own, 408, or a 5xx
\* that is none of those below.
Answered ==
  /\ at = "yandex"
  /\ \E how \in {"answer", "refused", "timeout", "unavailable"} : End(how)

LastForReads == attempt = MaxAttempts - 1

Last == ~safe \/ attempt = MaxAttempts - 1

\* 429, 502, 503 and 504, and transport errors, on the last attempt.
GivesUp ==
  /\ at = "yandex"
  /\ Last
  /\ \E how \in {"timeout", "unavailable"} : End(how)

SleepsAnyway(delay) == FALSE

TooLong(delay) == clock + delay >= deadline

BackoffLimit ==
  LET backoff == FirstDelay * 2 ^ attempt IN
    IF backoff < MaxDelay THEN backoff ELSE MaxDelay

\* _wait_before_retry(): jitter, or what Retry-After says
Retries(hinted) ==
  /\ at = "yandex"
  /\ ~Last
  /\ \E delay \in 0..(IF hinted THEN MaxDelay ELSE BackoffLimit) :
       \/ TooLong(delay) /\ End("timeout")
       \/ /\ ~TooLong(delay)
          /\ at' = "sleep"
          /\ wake' = clock + delay
          /\ UNCHANGED <<clock, safe, attempt, deadline, outcome, sent>>

Wakes ==
  /\ at = "sleep"
  /\ clock >= wake
  /\ at' = "attempt"
  /\ attempt' = attempt + 1
  /\ UNCHANGED <<clock, safe, deadline, wake, outcome, sent>>

\* What the process does without being answered.
OwnCallStep == Expires \/ TooLate \/ Attempt \/ Wakes

CallStep ==
  \/ OwnCallStep
  \/ CredentialFound \/ CredentialRefused \/ Answered \/ GivesUp
  \/ \E hinted \in BOOLEAN : Retries(hinted)

\* A timer of the call is due.
TimerDue ==
  \/ at = "attempt"
  \/ at \in {"credential", "yandex"} /\ clock >= deadline
  \/ at = "sleep" /\ clock >= wake

-----------------------------------------------------------------------------
(* Properties                                                              *)

\* "Safe reads and logical read POSTs may retry at most twice. Mutations,
\* destructive calls, and signed upload PUTs are attempted once."
\* (docs/security.md:28)
AttemptsBounded == sent <= IF safe THEN MaxAttempts ELSE 1

\* "API requests enforce the remaining overall operation deadline, including
\* credential lookup/refresh and an in-flight response"
\* (docs/deployment.md:35): no call is under way after its deadline, whatever
\* its lookups, answers and waits took.
InTime == Active => clock <= deadline

=============================================================================
