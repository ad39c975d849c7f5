-------------------------- MODULE MCWorkspaceSearch --------------------------
(* Instance of WorkspaceSearch for TLC. *)
EXTENDS WorkspaceSearch, TLC

CONSTANTS f1, f2, f3, f4, other, p1, p2

Files == {f1, f2, f3, f4, other}
Wanted == {f1, f2, f3, f4}

-----------------------------------------------------------------------------
(* The loops of the code, which the model describes by what they return    *)

\* for item in items: skip it, break, or append it
Loop(items, fresh, room) ==
  FoldLeft(LAMBDA picks, k :
             IF Len(picks) < room /\ k \in fresh /\ \A i \in DOMAIN picks : items[picks[i]] # items[k]
             THEN Append(picks, k) ELSE picks,
           <<>>, [k \in DOMAIN items |-> k])

\* On short inputs Picks has one member, what the loop takes.
ASSUME PicksAreTheLoop ==
  \A n \in 0..4 : \A items \in [1..n -> 1..3], fresh \in SUBSET (1..n), room \in 0..3 :
    Picks(items, fresh, room) = {Loop(items, fresh, room)}

\* zip_longest, and the gaps skipped
Zipped(a, b) ==
  LET ith(s, i) == IF i <= Len(s) THEN <<s[i]>> ELSE <<>>
  IN FlattenSeq([i \in 1..(Len(a) + Len(b)) |-> ith(a, i) \o ith(b, i)])

\* On short inputs RoundRobin is that.
ASSUME RoundRobinIsTheZip ==
  \A m, n \in 0..4 :
    LET a == [i \in 1..m |-> <<"wiki", i>>]
        b == [i \in 1..n |-> <<"disk", i>>]
    IN RoundRobin(a, b) = Zipped(a, b)

Symmetry == Permutations(Wanted) \cup Permutations(WikiPage)
=============================================================================
