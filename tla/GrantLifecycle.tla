--------------------------- MODULE GrantLifecycle ---------------------------
(***************************************************************************)
(* What the authorization server promises of one authorization code: it    *)
(* may be exchanged once; from then on there is exactly one current token  *)
(* pair, which a refresh replaces by a new one in a single step, until the *)
(* grant is over for good (revoked or expired).                            *)
(***************************************************************************)
CONSTANTS Code, Pair

VARIABLES
  current,  \* the current pair of a code, or "unissued", or "over"
  spent     \* the pairs ever handed out

Init ==
  /\ current = [k \in Code |-> "unissued"]
  /\ spent = {}

HandOut(k, p) ==
  /\ p \notin spent
  /\ spent' = spent \cup {p}
  /\ current' = [current EXCEPT ![k] = p]

Issue(k, p) == current[k] = "unissued" /\ HandOut(k, p)

Rotate(k, p) == current[k] \in Pair /\ HandOut(k, p)

End(k) ==
  /\ current[k] \in Pair
  /\ current' = [current EXCEPT ![k] = "over"]
  /\ UNCHANGED spent

Next ==
  \E k \in Code : End(k) \/ \E p \in Pair : Issue(k, p) \/ Rotate(k, p)

Spec == Init /\ [][Next]_<<current, spent>>

=============================================================================
