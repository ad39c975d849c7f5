---------------------------- MODULE AtomicRecord ----------------------------
(***************************************************************************)
(* What the OAuth code relies on for one record of the token store (the    *)
(* Protocol class in auth/stores.py): every call takes effect at one       *)
(* instant between its start and its return.                               *)
(***************************************************************************)
CONSTANTS Request, Value, None, NoAnswer

VARIABLES
  content,  \* the record, or None
  asked,    \* the call each request is in
  answer    \* what the store answered it

vars == <<content, asked, answer>>

Init ==
  /\ content \in Value \cup {None}
  /\ asked = [r \in Request |-> "nothing"]
  /\ answer = [r \in Request |-> NoAnswer]

Call(r, op) ==
  /\ asked[r] = "nothing"
  /\ asked' = [asked EXCEPT ![r] = op]
  /\ UNCHANGED <<content, answer>>

Answered(r) == answer' = [answer EXCEPT ![r] = content]

Read(r) ==
  /\ asked[r] = "get"
  /\ answer[r] = NoAnswer
  /\ Answered(r)
  /\ UNCHANGED <<content, asked>>

Take(r) ==
  /\ asked[r] = "consume"
  /\ answer[r] = NoAnswer
  /\ Answered(r)
  /\ content' = None
  /\ UNCHANGED asked

\* The request has its answer, or gave up waiting for it.
Leave(r) ==
  /\ asked' = [asked EXCEPT ![r] = "nothing"]
  /\ answer' = [answer EXCEPT ![r] = NoAnswer]
  /\ UNCHANGED content

Write(v) == content' = v /\ UNCHANGED <<asked, answer>>

\* Deleted or expired.
Erase == content' = None /\ UNCHANGED <<asked, answer>>

Next ==
  \/ \E r \in Request :
       \/ \E op \in {"get", "consume"} : Call(r, op)
       \/ Read(r) \/ Take(r) \/ Leave(r)
  \/ \E v \in Value : Write(v)
  \/ Erase

Spec == Init /\ [][Next]_vars

=============================================================================
