----------------------- MODULE WorkspaceSearch_proofs ------------------------
(***************************************************************************)
(* Proofs about DiskSearch and WorkspaceSearch, for every set of files and *)
(* pages, every limit and window, and any number of changes and rotations. *)
(***************************************************************************)
EXTENDS WorkspaceSearch, SequenceTheorems, FiniteSetTheorems, NaturalsInduction, TLAPS

Item == File \cup WikiPage

Mark == (0..MaxKey) \X Item

Cursor == [offset : -1..MaxOffset, seen : Seq(Mark)]

\* What the variables hold, in the detail that the proofs need.
TypeInv ==
  /\ TypeOK
  /\ cursor \in Cursor
  /\ scan \in [at : {"idle", "scan"} \cup Ended, offset : Nat, seen : Seq(Mark),
               matched : Seq(File), scanned : Nat, exhausted : BOOLEAN, next : Cursor]
  /\ wiki \in [at : {"idle", "asked"} \cup Ended, results : Seq(WikiPage)]

Marks(entries) == [i \in DOMAIN entries |-> <<entries[i].key, entries[i].item>>]

\* A cursor remembers the last items that were shown.
CursorInv ==
  /\ at = "begin" => cursor = NoCursor
  /\ at = "next" => cursor # NoCursor
  /\ cursor = NoCursor \/ cursor.offset \in 0..MaxOffset
  /\ at # "over" => cursor.seen = LastSeen(Marks(shown))

\* What a scan starts from: the canonical search keeps what was seen to itself.
Remembered == IF kind = "disk" THEN cursor.seen ELSE <<>>

CallInv ==
  /\ kind = "disk" => wiki = NoWiki
  /\ IF at # "call" THEN scan = Idle /\ wiki = NoWiki
     ELSE /\ scan.at # "idle"
          /\ scan.seen = Remembered \o Hashes(scan.matched)
          /\ IsInjective(scan.matched)
          /\ \A f \in ToSet(scan.matched) : Hash(f) \notin ToSet(Remembered)

EndInv ==
  /\ scan.at = "scan" => scan.next = NoCursor
  /\ scan.at = "done" =>
       IF scan.exhausted THEN scan.next = NoCursor
       ELSE scan.next = [offset |-> scan.offset, seen |-> LastSeen(scan.seen)] /\ ~TooFar

Covered(f) == f \in cut \/ \E i \in DOMAIN shown : shown[i].item = f

\* The steady matching files among the first n of the list.
Behind(n) == {f \in steady \cap Matching : \E i \in DOMAIN listing : i <= n /\ listing[i] = f}

\* Nothing behind a cursor is missing, and nothing behind a scan but what it found.
CoverInv ==
  /\ at # "over" => \A f \in Behind(cursor.offset) : Covered(f)
  /\ scan.at \in {"scan", "done"} =>
       \A f \in steady \cap Matching :
         scan.exhausted \/ f \in Behind(scan.offset) => Covered(f) \/ f \in ToSet(scan.matched)

SearchInv == TypeInv /\ CursorInv /\ CallInv /\ EndInv /\ CoverInv /\ NoRepeat /\ NoSkip

-----------------------------------------------------------------------------
(* Sequences                                                               *)

\* A sequence is determined by its length and its elements, whatever they are.
LEMMA FunctionSeq ==
  ASSUME NEW S, NEW n \in Nat, NEW s \in [1..n -> S]
  PROVE  s \in Seq(S) /\ Len(s) = n /\ DOMAIN s = 1..n
  <1>1. s \in Seq(S)
    BY SeqDef
  <1> QED
    BY <1>1, LenProperties

LEMMA ConcatElements ==
  ASSUME NEW S, NEW s \in Seq(S), NEW t \in Seq(S)
  PROVE  /\ s \o t \in Seq(S)
         /\ ToSet(s \o t) = ToSet(s) \cup ToSet(t)
  <1> DEFINE u == s \o t
  <1>1. /\ u \in Seq(S) /\ Len(u) = Len(s) + Len(t)
        /\ \A i \in 1..(Len(s) + Len(t)) : u[i] = IF i <= Len(s) THEN s[i] ELSE t[i - Len(s)]
    BY ConcatProperties
  <1>2. /\ Len(s) \in Nat /\ DOMAIN s = 1..Len(s)
        /\ Len(t) \in Nat /\ DOMAIN t = 1..Len(t) /\ DOMAIN u = 1..Len(u)
    BY <1>1, LenProperties
  <1> HIDE DEF u
  <1>3. ToSet(u) \subseteq ToSet(s) \cup ToSet(t)
    <2> SUFFICES ASSUME NEW i \in 1..Len(u) PROVE u[i] \in ToSet(s) \cup ToSet(t)
      BY <1>2 DEF ToSet
    <2>1. CASE i <= Len(s)
      <3>1. i \in DOMAIN s /\ u[i] = s[i]
        BY <2>1, <1>1, <1>2
      <3> QED
        BY <3>1 DEF ToSet
    <2>2. CASE ~(i <= Len(s))
      <3>1. i - Len(s) \in DOMAIN t /\ u[i] = t[i - Len(s)]
        BY <2>2, <1>1, <1>2
      <3> QED
        BY <3>1 DEF ToSet
    <2> QED
      BY <2>1, <2>2
  <1>4. ToSet(s) \subseteq ToSet(u)
    BY <1>1, <1>2 DEF ToSet
  <1>5. ToSet(t) \subseteq ToSet(u)
    <2> SUFFICES ASSUME NEW i \in 1..Len(t) PROVE t[i] \in ToSet(u)
      BY <1>2 DEF ToSet
    <2>1. i + Len(s) \in DOMAIN u /\ u[i + Len(s)] = t[i]
      BY <1>1, <1>2
    <2> QED
      BY <2>1 DEF ToSet
  <1> QED
    BY <1>1, <1>3, <1>4, <1>5 DEF u

\* What a cursor remembers of a sequence: its last Window elements.
LEMMA LastSeenElements ==
  ASSUME NEW S, NEW s \in Seq(S)
  PROVE  /\ LastSeen(s) \in Seq(S)
         /\ Len(LastSeen(s)) = Smaller(Window, Len(s))
         /\ \A i \in 1..Len(LastSeen(s)) : LastSeen(s)[i] = s[Len(s) - Smaller(Window, Len(s)) + i]
  <1> DEFINE m == IF Len(s) > Window THEN Len(s) - Window + 1 ELSE 1
             u == SubSeq(s, m, Len(s))
  <1>1. Len(s) \in Nat /\ Window \in Nat \ {0}
    BY LenProperties, SearchAssumption
  <1>2. m \in 1..(Len(s) + 1)
    BY <1>1
  <1>3. \A i \in m..Len(s) : s[i] \in S
    BY <1>2, <1>1, ElementOfSeq
  <1>4. /\ u \in Seq(S)
        /\ Len(u) = IF m <= Len(s) THEN Len(s) - m + 1 ELSE 0
        /\ \A i \in 1..(Len(s) - m + 1) : u[i] = s[m + i - 1]
    <2> HIDE DEF m
    <2> QED
      BY <1>1, <1>2, <1>3, SubSeqProperties
  <1>5. Len(u) = Smaller(Window, Len(s)) /\ m = Len(s) - Smaller(Window, Len(s)) + 1
    <2>1. CASE Len(s) > Window
      <3>1. m = Len(s) - Window + 1 /\ Smaller(Window, Len(s)) = Window
        BY <2>1, <1>1 DEF Smaller
      <3> HIDE DEF m, u
      <3> QED
        BY <2>1, <3>1, <1>1, <1>4
    <2>2. CASE ~(Len(s) > Window)
      <3>1. m = 1 /\ Smaller(Window, Len(s)) = Len(s)
        BY <2>2, <1>1 DEF Smaller
      <3> HIDE DEF m, u
      <3> QED
        BY <2>2, <3>1, <1>1, <1>4
    <2> QED
      BY <2>1, <2>2
  <1>6. LastSeen(s) = u
    BY DEF LastSeen
  <1>7. Smaller(Window, Len(s)) \in 0..Len(s)
    BY <1>1 DEF Smaller
  <1> HIDE DEF u, m
  <1>8. ASSUME NEW i \in 1..Len(u)
        PROVE  u[i] = s[Len(s) - Smaller(Window, Len(s)) + i]
    <2>1. u[i] = s[m + i - 1]
      BY <1>1, <1>2, <1>4, <1>5, <1>7
    <2>2. m + i - 1 = Len(s) - Smaller(Window, Len(s)) + i
      BY <1>1, <1>5, <1>7
    <2> QED
      BY <2>1, <2>2
  <1> QED
    BY <1>4, <1>5, <1>6, <1>8

LEMMA LastSeenSet ==
  ASSUME NEW S, NEW s \in Seq(S)
  PROVE  /\ ToSet(LastSeen(s)) \subseteq ToSet(s)
         /\ \A i \in DOMAIN s : i > Len(s) - Window => s[i] \in ToSet(LastSeen(s))
  <1> DEFINE u == LastSeen(s)
             n == Smaller(Window, Len(s))
  <1>1. /\ u \in Seq(S) /\ Len(u) = n /\ \A i \in 1..n : u[i] = s[Len(s) - n + i]
    BY LastSeenElements
  <1>2. /\ Len(s) \in Nat /\ DOMAIN s = 1..Len(s) /\ Window \in Nat \ {0}
        /\ DOMAIN u = 1..n /\ n \in 0..Len(s)
    BY <1>1, LenProperties, SearchAssumption DEF Smaller
  <1>3. ToSet(u) \subseteq ToSet(s)
    <2> SUFFICES ASSUME NEW i \in 1..n PROVE u[i] \in ToSet(s)
      BY <1>2 DEF ToSet
    <2>1. Len(s) - n + i \in DOMAIN s
      BY <1>2
    <2> QED
      BY <2>1, <1>1 DEF ToSet
  <1>4. ASSUME NEW i \in DOMAIN s, i > Len(s) - Window
        PROVE  s[i] \in ToSet(u)
    <2>1. i - (Len(s) - n) \in 1..n
      BY <1>2, <1>4 DEF Smaller
    <2>2. u[i - (Len(s) - n)] = s[i]
      BY <2>1, <1>1, <1>2
    <2> QED
      BY <2>1, <2>2, <1>2 DEF ToSet
  <1> QED
    BY <1>3, <1>4

\* Forgetting may be put off: what is forgotten early would be forgotten anyway.
LEMMA LastSeenConcat ==
  ASSUME NEW S, NEW s \in Seq(S), NEW t \in Seq(S)
  PROVE  LastSeen(LastSeen(s) \o t) = LastSeen(s \o t)
  <1> DEFINE l == LastSeen(s)
             n == Smaller(Window, Len(s))
             u == l \o t
             v == s \o t
             m == Smaller(Window, Len(v))
  <1>1. /\ l \in Seq(S) /\ Len(l) = n /\ \A i \in 1..n : l[i] = s[Len(s) - n + i]
    BY LastSeenElements
  <1>2. /\ u \in Seq(S) /\ Len(u) = n + Len(t)
        /\ \A i \in 1..(n + Len(t)) : u[i] = IF i <= n THEN l[i] ELSE t[i - n]
    BY <1>1, ConcatProperties
  <1>3. /\ v \in Seq(S) /\ Len(v) = Len(s) + Len(t)
        /\ \A i \in 1..(Len(s) + Len(t)) : v[i] = IF i <= Len(s) THEN s[i] ELSE t[i - Len(s)]
    BY ConcatProperties
  <1>4. /\ Len(s) \in Nat /\ Len(t) \in Nat /\ Window \in Nat \ {0}
    BY LenProperties, SearchAssumption
  <1>5. /\ LastSeen(u) \in Seq(S) /\ Len(LastSeen(u)) = Smaller(Window, Len(u))
        /\ \A i \in 1..Len(LastSeen(u)) : LastSeen(u)[i] = u[Len(u) - Smaller(Window, Len(u)) + i]
    BY <1>2, LastSeenElements
  <1>6. /\ LastSeen(v) \in Seq(S) /\ Len(LastSeen(v)) = m
        /\ \A i \in 1..Len(LastSeen(v)) : LastSeen(v)[i] = v[Len(v) - m + i]
    BY <1>3, LastSeenElements
  <1>7. /\ m = Smaller(Window, Len(u)) /\ n \in 0..Len(s) /\ m \in 0..(n + Len(t))
        /\ Len(t) - m + n >= 0 /\ (n = Len(s) \/ m <= n)
    BY <1>2, <1>3, <1>4 DEF Smaller
  <1> HIDE DEF u, v, l, m, n
  <1>8. ASSUME NEW i \in 1..m
        PROVE  LastSeen(u)[i] = LastSeen(v)[i]
    <2> DEFINE p == Len(u) - m + i
               q == Len(v) - m + i
    <2>1. LastSeen(u)[i] = u[p]
      BY <1>5, <1>7
    <2>2. LastSeen(v)[i] = v[q]
      BY <1>6
    <2>3. /\ p \in 1..(n + Len(t)) /\ q \in 1..(Len(s) + Len(t))
          /\ p \in Int /\ q \in Int /\ p - n = q - Len(s)
      <3>1. Len(u) = n + Len(t) /\ Len(v) = Len(s) + Len(t)
        BY <1>2, <1>3
      <3>2. /\ n \in Nat /\ m \in Nat /\ i \in Nat /\ i >= 1 /\ i <= m
            /\ n <= Len(s) /\ m <= n + Len(t)
        BY <1>4, <1>7
      <3> QED
        BY <3>1, <3>2, <1>4
    <2> HIDE DEF p, q
    <2>4. CASE p <= n
      <3>1. p \in 1..n /\ q = Len(s) - n + p /\ q <= Len(s)
        BY <2>3, <2>4, <1>4, <1>7
      <3>2. u[p] = l[p] /\ l[p] = s[Len(s) - n + p]
        BY <2>3, <3>1, <1>1, <1>2, <1>4, <1>7
      <3>3. v[q] = s[q]
        BY <2>3, <3>1, <1>3
      <3> QED
        BY <2>1, <2>2, <3>1, <3>2, <3>3
    <2>5. CASE ~(p <= n)
      <3>1. ~(q <= Len(s))
        BY <2>3, <2>5, <1>4, <1>7
      <3>2. u[p] = t[p - n]
        BY <2>3, <2>5, <1>2
      <3>3. v[q] = t[q - Len(s)]
        BY <2>3, <3>1, <1>3
      <3> QED
        BY <2>1, <2>2, <2>3, <3>2, <3>3
    <2> QED
      BY <2>4, <2>5
  <1>9. LastSeen(u) = LastSeen(v)
    BY <1>5, <1>6, <1>7, <1>8, SeqEqual
  <1> QED
    BY <1>9 DEF u, v, l

-----------------------------------------------------------------------------
(* The loops                                                               *)

LEMMA PicksIndices ==
  ASSUME NEW items, NEW fresh, NEW room \in Nat, NEW picks \in Picks(items, fresh, room)
  PROVE  /\ Len(picks) \in 0..room
         /\ picks \in [1..Len(picks) -> fresh]
         /\ DOMAIN picks = 1..Len(picks)
         /\ Taken(items, picks) = [i \in 1..Len(picks) |-> items[picks[i]]]
  <1>1. PICK n \in 0..room : picks \in [1..n -> fresh]
    BY DEF Picks
  <1>2. n \in Nat /\ Len(picks) = n /\ DOMAIN picks = 1..n
    BY <1>1, FunctionSeq
  <1> QED
    BY <1>1, <1>2 DEF Taken

\* The well-foundedness of < on Nat, as the proofs use it.
LEMMA LeastNatural ==
  ASSUME NEW T \in SUBSET Nat, T # {}
  PROVE  \E m \in T : \A l \in T : ~(l < m)
  <1>1. PICK m \in T : \A l \in T : <<l, m>> \notin OpToRel(<, Nat)
    BY NatLessThanWellFounded, WFMin, Zenon
  <1>2. ASSUME NEW l \in T, l < m PROVE <<l, m>> \in OpToRel(<, Nat)
    <2>1. <<l, m>> \in Nat \X Nat
      OBVIOUS
    <2>2. <<l, m>>[1] = l /\ <<l, m>>[2] = m
      OBVIOUS
    <2> QED
      BY <1>2, <2>1, <2>2, Zenon DEF OpToRel
  <1> QED
    BY <1>1, <1>2

\* A loop takes what it takes: Picks has no second member.
LEMMA PicksUnique ==
  ASSUME NEW items, NEW fresh \in SUBSET Nat, NEW room \in Nat,
         NEW p \in Picks(items, fresh, room), NEW q \in Picks(items, fresh, room)
  PROVE  p = q
  <1> DEFINE Runs == Picks(items, fresh, room)
  <1>1. ASSUME NEW r \in Runs
        PROVE  /\ Len(r) \in 0..room /\ DOMAIN r = 1..Len(r)
               /\ r \in [1..Len(r) -> fresh]
               /\ \A i \in 1..Len(r) : r[i] \in Nat
               /\ \A i, j \in 1..Len(r) : i < j => r[i] < r[j] /\ items[r[i]] # items[r[j]]
               /\ \A k \in fresh :
                    \/ \E i \in 1..Len(r) : r[i] <= k /\ items[r[i]] = items[k]
                    \/ Len(r) = room /\ \A i \in 1..Len(r) : r[i] < k
    <2>1. /\ Len(r) \in 0..room /\ DOMAIN r = 1..Len(r) /\ r \in [1..Len(r) -> fresh]
      BY PicksIndices
    <2>2. \A i \in 1..Len(r) : r[i] \in Nat
      BY <2>1
    <2> QED
      BY <2>1, <2>2 DEF Picks
  \* If two runs agree before i, one takes at i what the other takes there, or earlier.
  <1>2. ASSUME NEW r \in Runs, NEW s \in Runs, NEW i \in 1..Len(r),
               \A j \in 1..(i - 1) : j \in 1..Len(s) /\ r[j] = s[j]
        PROVE  i \in 1..Len(s) /\ s[i] <= r[i]
    <2>1. r[i] \in fresh /\ r[i] \in Nat /\ Len(r) \in 0..room /\ Len(s) \in 0..room
      BY <1>1
    <2>2. CASE \E j \in 1..Len(s) : s[j] <= r[i] /\ items[s[j]] = items[r[i]]
      <3>1. PICK j \in 1..Len(s) : s[j] <= r[i] /\ items[s[j]] = items[r[i]]
        BY <2>2
      <3>2. ~(j < i)
        <4> SUFFICES ASSUME j < i PROVE FALSE
          OBVIOUS
        <4>1. j \in 1..(i - 1) /\ j \in 1..Len(r)
          BY <2>1
        <4>2. r[j] = s[j] /\ items[r[j]] # items[r[i]]
          BY <4>1, <1>1, <1>2
        <4> QED
          BY <4>2, <3>1
      <3>3. i \in 1..Len(s) /\ (i = j \/ i < j)
        BY <3>2, <2>1
      <3>4. s[i] <= s[j]
        <4>1. s[i] \in Nat /\ s[j] \in Nat
          BY <3>3, <1>1
        <4>2. i < j => s[i] < s[j]
          BY <3>3, <1>1
        <4> QED
          BY <3>3, <4>1, <4>2
      <3>5. s[i] \in Nat /\ s[j] \in Nat
        BY <3>3, <1>1
      <3> QED
        BY <3>1, <3>3, <3>4, <3>5, <2>1
    <2>3. CASE Len(s) = room /\ \A j \in 1..Len(s) : s[j] < r[i]
      <3>1. i \in 1..Len(s)
        BY <2>1, <2>3
      <3>2. s[i] \in Nat /\ s[i] < r[i]
        BY <3>1, <2>3, <1>1
      <3> QED
        BY <3>1, <3>2, <2>1
    <2> QED
      BY <2>1, <2>2, <2>3, <1>1
  <1> DEFINE Agree(i) == i \in DOMAIN p /\ i \in DOMAIN q /\ p[i] = q[i]
             Differ == {i \in DOMAIN p \cup DOMAIN q : ~Agree(i)}
  <1>3. Differ \subseteq Nat
    BY <1>1
  <1>4. CASE Differ # {}
    <2>1. PICK i \in Differ : \A j \in Differ : ~(j < i)
      <3> HIDE DEF Differ
      <3> QED
        BY <1>3, <1>4, LeastNatural
    <2>2. \A j \in 1..(i - 1) : Agree(j)
      <3> SUFFICES ASSUME NEW j \in 1..(i - 1) PROVE Agree(j)
        OBVIOUS
      <3>1. i \in 1..Len(p) \/ i \in 1..Len(q)
        BY <1>1
      <3>2. j < i /\ (j \in 1..Len(p) \/ j \in 1..Len(q))
        BY <3>1, <1>1
      <3> QED
        BY <2>1, <3>2, <1>1
    <2>3. \A j \in 1..(i - 1) : j \in 1..Len(p) /\ j \in 1..Len(q) /\ p[j] = q[j]
      BY <2>2, <1>1
    <2>4. i \in 1..Len(p) => i \in 1..Len(q) /\ q[i] <= p[i]
      BY <2>3, <1>2
    <2>5. i \in 1..Len(q) => i \in 1..Len(p) /\ p[i] <= q[i]
      BY <2>3, <1>2
    <2>6. i \in 1..Len(p) /\ i \in 1..Len(q)
      BY <2>4, <2>5, <1>1
    <2>7. p[i] \in Nat /\ q[i] \in Nat
      BY <2>6, <1>1
    <2>8. p[i] = q[i]
      BY <2>4, <2>5, <2>6, <2>7
    <2> QED
      BY <2>6, <2>8, <1>1
  <1>5. CASE Differ = {}
    <2>1. DOMAIN p = DOMAIN q /\ \A i \in DOMAIN p : p[i] = q[i]
      BY <1>5
    <2>2. p \in [DOMAIN p -> fresh] /\ q \in [DOMAIN p -> fresh]
      BY <2>1, <1>1
    <2> QED
      BY <2>1, <2>2
  <1> QED
    BY <1>4, <1>5

\* A loop ends: Picks has a member.  By induction on how many items there are,
\* as the absence of a least number of items for which it has none.
LEMMA PicksExist ==
  ASSUME NEW items, NEW n \in Nat, NEW fresh \in SUBSET (1..n), NEW room \in Nat
  PROVE  \E picks : picks \in Picks(items, fresh, room)
  <1> DEFINE Upto(m) == fresh \cap (1..m)
             Stuck == {m \in 0..n : ~\E picks : picks \in Picks(items, Upto(m), room)}
  <1>1. CASE Stuck # {}
    <2>1. Stuck \subseteq 0..n /\ Stuck \subseteq Nat
      OBVIOUS
    <2> HIDE DEF Stuck
    <2>2. PICK m \in Stuck : \A l \in Stuck : ~(l < m)
      BY <2>1, <1>1, LeastNatural
    <2>3. m \in 0..n
      BY <2>1
    <2>4. /\ ~\E picks : picks \in Picks(items, Upto(m), room)
          /\ \A l \in 0..n : l < m => \E picks : picks \in Picks(items, Upto(l), room)
      BY <2>2, <2>3 DEF Stuck
    <2>5. CASE m = 0
      <3>1. <<>> \in Picks(items, Upto(m), room)
        <4>1. Upto(m) = {} /\ Len(<<>>) = 0 /\ DOMAIN <<>> = {}
          BY <2>5
        <4>2. <<>> \in UNION {[1..l -> Upto(m)] : l \in 0..room}
          <5>1. <<>> \in [1..0 -> Upto(m)] /\ 0 \in 0..room
            BY <4>1
          <5> QED
            BY <5>1
        <4> HIDE DEF Upto
        <4> QED
          BY <4>1, <4>2 DEF Picks
      <3> QED
        BY <3>1, <2>4
    <2>6. CASE m # 0
      <3>1. m - 1 \in 0..n /\ m - 1 < m /\ m \in 1..n
        BY <2>3, <2>6
      <3>2. PICK p : p \in Picks(items, Upto(m - 1), room)
        BY <2>4, <3>1
      <3>3. /\ Len(p) \in 0..room /\ p \in [1..Len(p) -> Upto(m - 1)] /\ DOMAIN p = 1..Len(p)
        BY <3>2, PicksIndices
      <3>4. /\ \A i, j \in DOMAIN p : i < j => p[i] < p[j] /\ items[p[i]] # items[p[j]]
            /\ \A k \in Upto(m - 1) :
                 \/ \E i \in DOMAIN p : p[i] <= k /\ items[p[i]] = items[k]
                 \/ Len(p) = room /\ \A i \in DOMAIN p : p[i] < k
        BY <3>2 DEF Picks
      <3>5. /\ \/ Upto(m) = Upto(m - 1)
               \/ (m \in fresh /\ Upto(m) = Upto(m - 1) \cup {m})
            /\ \A k \in Upto(m - 1) : k \in Int /\ k < m
        BY <3>1
      <3>6. \A i \in DOMAIN p : p[i] \in Upto(m - 1) /\ p[i] \in Int /\ p[i] < m
        BY <3>3, <3>5
      <3> HIDE DEF Upto
      <3>7. CASE \/ Upto(m) = Upto(m - 1)
                 \/ Len(p) = room \/ \E i \in DOMAIN p : items[p[i]] = items[m]
        <4>1. p \in [1..Len(p) -> Upto(m)]
          BY <3>3, <3>5
        <4>2. ASSUME NEW k \in Upto(m)
              PROVE  \/ \E i \in DOMAIN p : p[i] <= k /\ items[p[i]] = items[k]
                     \/ Len(p) = room /\ \A i \in DOMAIN p : p[i] < k
          <5>1. CASE k \in Upto(m - 1)
            BY <5>1, <3>4
          <5>2. CASE k \notin Upto(m - 1)
            <6>1. k = m
              BY <5>2, <3>5
            <6>2. \A i \in DOMAIN p : p[i] < k /\ p[i] <= k
              BY <6>1, <3>1, <3>6
            <6> QED
              BY <6>1, <6>2, <5>2, <3>7
          <5> QED
            BY <5>1, <5>2
        <4>3. p \in Picks(items, Upto(m), room)
          BY <4>1, <4>2, <3>3, <3>4 DEF Picks
        <4> QED
          BY <4>3, <2>4
      <3>8. CASE /\ m \in fresh /\ Upto(m) = Upto(m - 1) \cup {m}
                 /\ Len(p) # room /\ \A i \in DOMAIN p : items[p[i]] # items[m]
        <4> DEFINE last == Len(p) + 1
                   q == [i \in 1..last |-> IF i = last THEN m ELSE p[i]]
        <4>1. /\ last \in 0..room /\ last \in Nat /\ last \in 1..last
              /\ \A i \in 1..last : i = last \/ (i \in DOMAIN p /\ i < last)
          <5> DEFINE l == Len(p)
          <5>1. l \in 0..room /\ l # room /\ DOMAIN p = 1..l /\ last = l + 1
            BY <3>3, <3>8
          <5> HIDE DEF l, last
          <5>2. last \in 0..room /\ last \in Nat /\ last \in 1..last
            BY <5>1
          <5>3. \A i \in 1..last : i = last \/ (i \in 1..l /\ i < last)
            BY <5>1
          <5> QED
            BY <5>1, <5>2, <5>3
        <4>2. q \in [1..last -> Upto(m)]
          BY <4>1, <3>3, <3>8
        <4>3. /\ DOMAIN q = 1..last /\ q[last] = m
              /\ \A i \in DOMAIN p : i \in DOMAIN q /\ q[i] = p[i] /\ i < last
          BY <4>1, <3>3
        <4> HIDE DEF q, last
        <4>4. ASSUME NEW i \in DOMAIN q, NEW j \in DOMAIN q, i < j
              PROVE  q[i] < q[j] /\ items[q[i]] # items[q[j]]
          <5>1. i \in DOMAIN p /\ q[i] = p[i]
            BY <4>1, <4>3, <4>4
          <5>2. CASE j = last
            BY <5>1, <5>2, <4>3, <3>6, <3>8
          <5>3. CASE j \in DOMAIN p
            BY <5>1, <5>3, <4>3, <4>4, <3>4
          <5> QED
            BY <5>2, <5>3, <4>1, <4>3
        <4>5. ASSUME NEW k \in Upto(m)
              PROVE  \E i \in DOMAIN q : q[i] <= k /\ items[q[i]] = items[k]
          <5>1. CASE k \in Upto(m - 1)
            <6>1. PICK i \in DOMAIN p : p[i] <= k /\ items[p[i]] = items[k]
              BY <5>1, <3>4, <3>8
            <6> QED
              BY <6>1, <4>3
          <5>2. CASE k = m
            <6>1. last \in DOMAIN q /\ q[last] = k
              BY <5>2, <4>1, <4>3, <3>3
            <6>2. k <= k
              BY <5>2, <3>1
            <6> QED
              BY <6>1, <6>2
          <5> QED
            BY <5>1, <5>2, <3>8
        <4>6. q \in Picks(items, Upto(m), room)
          <5>1. q \in UNION {[1..l -> Upto(m)] : l \in 0..room}
            BY <4>1, <4>2
          <5> QED
            BY <5>1, <4>4, <4>5 DEF Picks
        <4> QED
          BY <4>6, <2>4
      <3> QED
        BY <3>5, <3>7, <3>8
    <2> QED
      BY <2>5, <2>6
  <1>2. CASE Stuck = {}
    <2>1. n \in 0..n
      OBVIOUS
    <2>2. Upto(n) = fresh
      OBVIOUS
    <2>3. \E picks : picks \in Picks(items, Upto(n), room)
      BY <2>1, <1>2
    <2> QED
      BY <2>2, <2>3
  <1> QED
    BY <1>1, <1>2

\* The loops over a page and over the merged halves are determinate: for any
\* items, seen or not, and any room, Picks has exactly one member.
THEOREM PicksAreOne ==
  ASSUME NEW S, NEW items \in Seq(S), NEW fresh \in SUBSET (DOMAIN items), NEW room \in Nat
  PROVE  \E picks : Picks(items, fresh, room) = {picks}
  <1>1. Len(items) \in Nat /\ DOMAIN items = 1..Len(items)
    BY LenProperties
  <1>2. PICK picks : picks \in Picks(items, fresh, room)
    BY <1>1, PicksExist
  <1>3. fresh \in SUBSET Nat
    BY <1>1
  <1>4. \A q \in Picks(items, fresh, room) : q = picks
    BY <1>2, <1>3, PicksUnique
  <1> QED
    BY <1>2, <1>4

\* What a loop takes: no item twice, items at fresh only, and all of these
\* unless there is no room for one.
LEMMA PicksTaken ==
  ASSUME NEW S, NEW items \in Seq(S), NEW fresh \in SUBSET (DOMAIN items), NEW room \in Nat,
         NEW picks \in Picks(items, fresh, room)
  PROVE  /\ Taken(items, picks) \in Seq(S)
         /\ IsInjective(Taken(items, picks))
         /\ Len(Taken(items, picks)) <= room
         /\ ToSet(Taken(items, picks)) \subseteq {items[k] : k \in fresh}
         /\ Len(Taken(items, picks)) < room =>
              \A k \in fresh : items[k] \in ToSet(Taken(items, picks))
  <1> DEFINE taken == Taken(items, picks)
             n == Len(picks)
  <1>1. n \in 0..room /\ picks \in [1..n -> fresh]
    BY PicksIndices
  <1>2. DOMAIN picks = 1..n /\ taken = [i \in 1..n |-> items[picks[i]]]
    BY PicksIndices
  <1>3. DOMAIN items = 1..Len(items) /\ \A k \in fresh : items[k] \in S
    BY LenProperties, ElementOfSeq
  <1>4. taken \in [1..n -> S] /\ n \in Nat
    BY <1>1, <1>2, <1>3
  <1> HIDE DEF n, taken
  <1>5. taken \in Seq(S) /\ Len(taken) = n /\ DOMAIN taken = 1..n
    BY <1>4, FunctionSeq
  <1>6. IsInjective(taken)
    <2> SUFFICES ASSUME NEW i \in 1..n, NEW j \in 1..n, taken[i] = taken[j], i # j
                 PROVE  FALSE
      BY <1>5 DEF IsInjective
    <2>1. i < j \/ j < i
      BY <1>4
    <2>2. items[picks[i]] = items[picks[j]]
      BY <1>2
    <2> QED
      BY <2>1, <2>2, <1>2 DEF Picks
  <1>7. ASSUME n < room, NEW k \in fresh
        PROVE  items[k] \in ToSet(taken)
    <2>1. PICK i \in 1..n : items[picks[i]] = items[k]
      BY <1>2, <1>4, <1>7 DEF Picks, n
    <2> QED
      BY <2>1, <1>2, <1>5 DEF ToSet
  <1>8. ToSet(taken) \subseteq {items[k] : k \in fresh}
    BY <1>1, <1>2, <1>5 DEF ToSet
  <1> QED
    BY <1>1, <1>4, <1>5, <1>6, <1>7, <1>8 DEF taken

\* A loop with room for all items takes all that are fresh.
LEMMA RoomForAll ==
  ASSUME NEW S, NEW items \in Seq(S), NEW fresh \in SUBSET (DOMAIN items), NEW room \in Nat,
         NEW picks \in Picks(items, fresh, room), Len(items) <= room,
         NEW k \in fresh
  PROVE  items[k] \in ToSet(Taken(items, picks))
  <1>1. Len(picks) \in 0..room /\ picks \in [1..Len(picks) -> fresh] /\ DOMAIN picks = 1..Len(picks)
    BY PicksIndices
  <1>2. Taken(items, picks) = [i \in 1..Len(picks) |-> items[picks[i]]]
    BY PicksIndices
  <1>3. Len(items) \in Nat /\ DOMAIN items = 1..Len(items)
    BY LenProperties
  <1>4. CASE Len(picks) = room /\ \A i \in DOMAIN picks : picks[i] < k
    <2> DEFINE g == [i \in 1..(room + 1) |-> IF i <= room THEN picks[i] ELSE k]
    <2>1. g \in [1..(room + 1) -> 1..Len(items)]
      BY <1>1, <1>3, <1>4
    <2>2. /\ IsFiniteSet(1..(room + 1)) /\ Cardinality(1..(room + 1)) = room + 1
          /\ IsFiniteSet(1..Len(items)) /\ Cardinality(1..Len(items)) = Len(items)
      <3>1. ASSUME NEW m \in Nat PROVE IsFiniteSet(1..m) /\ Cardinality(1..m) = m
        <4>1. 1 \in Int /\ m \in Int
          OBVIOUS
        <4>2. IsFiniteSet(1..m) /\ Cardinality(1..m) = IF 1 > m THEN 0 ELSE m - 1 + 1
          BY <4>1, FS_Interval
        <4> QED
          BY <4>2
      <3> QED
        BY <3>1, <1>3
    <2>3. PICK i, j \in 1..(room + 1) : i # j /\ g[i] = g[j]
      <3>1. Cardinality(1..Len(items)) < Cardinality(1..(room + 1))
        BY <2>2, <1>3
      <3> HIDE DEF g
      <3> QED
        BY <2>1, <2>2, <3>1, FS_PigeonHole
    <2>4. PICK x, y \in 1..(room + 1) : x < y /\ g[x] = g[y]
      BY <2>3
    <2>5. x \in 1..room /\ x \in DOMAIN picks /\ g[x] = picks[x]
      BY <2>4, <1>1, <1>4
    <2>6. CASE y = room + 1
      <3>1. g[y] = k
        BY <2>6, <1>3
      <3>2. k \in Int
        BY <1>3
      <3>3. picks[x] \in Int
        BY <2>5, <1>1, <1>3
      <3>4. picks[x] < k
        BY <2>5, <1>4
      <3> QED
        BY <2>4, <2>5, <3>1, <3>2, <3>3, <3>4
    <2>7. CASE y # room + 1
      <3>1. y \in DOMAIN picks /\ g[y] = picks[y]
        BY <2>7, <1>1, <1>4
      <3>2. picks[x] < picks[y] /\ picks[x] \in Int
        BY <2>4, <2>5, <3>1, <1>1, <1>3 DEF Picks
      <3> QED
        BY <2>4, <2>5, <3>1, <3>2
    <2> QED
      BY <2>6, <2>7
  <1>5. CASE \E i \in DOMAIN picks : picks[i] <= k /\ items[picks[i]] = items[k]
    <2>1. PICK i \in DOMAIN picks : items[picks[i]] = items[k]
      BY <1>5
    <2>2. i \in DOMAIN Taken(items, picks) /\ Taken(items, picks)[i] = items[k]
      BY <2>1, <1>1, <1>2
    <2> QED
      BY <2>2 DEF ToSet
  <1>6. \/ \E i \in DOMAIN picks : picks[i] <= k /\ items[picks[i]] = items[k]
        \/ Len(picks) = room /\ \A i \in DOMAIN picks : picks[i] < k
    BY DEF Picks
  <1> QED
    BY <1>4, <1>5, <1>6

LEMMA HashesElements ==
  ASSUME NEW S, NEW items \in Seq(S)
  PROVE  /\ Hashes(items) \in Seq({key} \X S)
         /\ Len(Hashes(items)) = Len(items)
         /\ \A i \in 1..Len(items) : Hashes(items)[i] = Hash(items[i])
         /\ \A x : Hash(x) \in ToSet(Hashes(items)) <=> x \in ToSet(items)
  <1>1. Len(items) \in Nat /\ DOMAIN items = 1..Len(items)
    BY LenProperties
  <1>2. Hashes(items) \in [1..Len(items) -> {key} \X S]
    BY <1>1, ElementOfSeq DEF Hashes, Hash
  <1>3. /\ Hashes(items) \in Seq({key} \X S)
        /\ Len(Hashes(items)) = Len(items)
        /\ DOMAIN Hashes(items) = 1..Len(items)
    BY <1>1, <1>2, FunctionSeq
  <1>4. \A i \in 1..Len(items) : Hashes(items)[i] = Hash(items[i])
    BY <1>1 DEF Hashes
  <1>5. ASSUME NEW x
        PROVE  Hash(x) \in ToSet(Hashes(items)) <=> x \in ToSet(items)
    <2>1. \A i \in 1..Len(items) : Hashes(items)[i] = Hash(x) <=> items[i] = x
      BY <1>4 DEF Hash
    <2> QED
      BY <2>1, <1>1, <1>3 DEF ToSet
  <1> QED
    BY <1>3, <1>4, <1>5

\* zip_longest loses nothing.
LEMMA RoundRobinElements ==
  ASSUME NEW S, NEW a \in Seq(S), NEW b \in Seq(S)
  PROVE  /\ RoundRobin(a, b) \in Seq(S)
         /\ ToSet(b) \subseteq ToSet(RoundRobin(a, b))
  <1> DEFINE both == Smaller(Len(a), Len(b))
             rest == IF Len(a) > both THEN a ELSE b
             n == Len(a) + Len(b)
             r == RoundRobin(a, b)
  <1>0. /\ DOMAIN b = 1..Len(b)
        /\ \A i \in 1..Len(a) : a[i] \in S
        /\ \A i \in 1..Len(b) : b[i] \in S
    BY LenProperties, ElementOfSeq
  <1>1. Len(a) \in Nat /\ Len(b) \in Nat
    BY LenProperties
  <1>2. /\ both \in Nat /\ both <= Len(a) /\ both <= Len(b)
        /\ both = Len(a) \/ both = Len(b)
    BY <1>1 DEF Smaller
  <1>3. r = [k \in 1..n |->
               IF k > 2 * both THEN rest[k - both]
               ELSE IF k % 2 = 1 THEN a[(k + 1) \div 2] ELSE b[k \div 2]]
    BY DEF RoundRobin
  <1>4. ASSUME NEW k \in 1..n PROVE r[k] \in S
    <2>1. CASE k > 2 * both
      <3>1. r[k] = rest[k - both]
        BY <2>1, <1>3
      <3>2. CASE Len(a) > both
        BY <3>1, <3>2, <2>1, <1>0, <1>1, <1>2
      <3>3. CASE ~(Len(a) > both)
        BY <3>1, <3>3, <2>1, <1>0, <1>1, <1>2
      <3> QED
        BY <3>2, <3>3
    <2>2. CASE ~(k > 2 * both) /\ k % 2 = 1
      <3>1. r[k] = a[(k + 1) \div 2]
        BY <2>2, <1>3
      <3>2. (k + 1) \div 2 \in 1..Len(a)
        <4> HIDE DEF both
        <4> QED
          BY <2>2, <1>1, <1>2
      <3> QED
        BY <3>1, <3>2, <1>0
    <2>3. CASE ~(k > 2 * both) /\ k % 2 # 1
      <3>1. r[k] = b[k \div 2]
        BY <2>3, <1>3
      <3>2. k \div 2 \in 1..Len(b)
        <4> HIDE DEF both
        <4> QED
          BY <2>3, <1>1, <1>2
      <3> QED
        BY <3>1, <3>2, <1>0
    <2> QED
      BY <2>1, <2>2, <2>3
  <1>5. r \in [1..n -> S]
    BY <1>3, <1>4
  <1>6. r \in Seq(S) /\ DOMAIN r = 1..n
    <2> HIDE DEF r
    <2> QED
      BY <1>1, <1>5, FunctionSeq
  <1>7. ASSUME NEW i \in 1..Len(b)
        PROVE  \E k \in 1..n : r[k] = b[i]
    <2>1. CASE i <= both
      <3>1. 2 * i \in 1..n /\ ~(2 * i > 2 * both) /\ (2 * i) % 2 # 1 /\ (2 * i) \div 2 = i
        <4> HIDE DEF both
        <4> QED
          BY <2>1, <1>1, <1>2
      <3>2. r[2 * i] = b[i]
        BY <3>1, <1>3
      <3> QED
        BY <3>1, <3>2
    <2>2. CASE ~(i <= both)
      <3>1. /\ i + both \in 1..n /\ i + both > 2 * both /\ (i + both) - both = i
            /\ ~(Len(a) > both)
        <4> HIDE DEF both
        <4> QED
          BY <2>2, <1>1, <1>2
      <3>2. r[i + both] = b[i]
        BY <3>1, <1>3
      <3> QED
        BY <3>1, <3>2
    <2> QED
      BY <2>1, <2>2
  <1>8. ToSet(b) \subseteq ToSet(r)
    <2> HIDE DEF r
    <2> QED
      BY <1>0, <1>6, <1>7 DEF ToSet
  <1> QED
    BY <1>6, <1>8

-----------------------------------------------------------------------------
(* The file list                                                           *)

LEMMA PageElements ==
  ASSUME listing \in Seq(File), NEW offset \in Nat, NEW size \in Nat \ {0}
  PROVE  /\ Page(offset, size) \in Seq(File)
         /\ Len(Page(offset, size)) \in 0..size
         /\ Len(Page(offset, size)) < size => offset + Len(Page(offset, size)) >= Len(listing)
         /\ \A k \in 1..Len(Page(offset, size)) : Page(offset, size)[k] = listing[offset + k]
  <1> DEFINE end == Smaller(offset + size, Len(listing))
             page == Page(offset, size)
  <1>1. Len(listing) \in Nat /\ \A k \in 1..Len(listing) : listing[k] \in File
    BY LenProperties, ElementOfSeq
  <1>2. CASE offset >= Len(listing)
    <2>1. page = <<>>
      BY <1>2 DEF Page
    <2> QED
      BY <1>1, <1>2, <2>1
  <1>3. CASE ~(offset >= Len(listing))
    <2>1. page = SubSeq(listing, offset + 1, end)
      BY <1>3 DEF Page
    <2>2. /\ end \in Nat /\ end <= Len(listing) /\ offset + 1 <= end
          /\ end = offset + size \/ (end = Len(listing) /\ end < offset + size)
      BY <1>1, <1>3 DEF Smaller
    <2> HIDE DEF end, page
    <2>3. \A k \in (offset + 1)..end : listing[k] \in File
      BY <1>1, <2>2
    <2>4. /\ page \in Seq(File)
          /\ Len(page) = end - (offset + 1) + 1
          /\ \A k \in 1..(end - (offset + 1) + 1) : page[k] = listing[(offset + 1) + k - 1]
      <3>1. offset + 1 \in Int /\ end \in Int /\ offset + 1 <= end
        BY <2>2
      <3> QED
        BY <2>1, <2>3, <3>1, SubSeqProperties
    <2>5. Len(page) = end - offset
      BY <2>2, <2>4
    <2>6. ASSUME NEW k \in 1..Len(page) PROVE page[k] = listing[offset + k]
      <3>1. page[k] = listing[(offset + 1) + k - 1]
        BY <2>4
      <3>2. (offset + 1) + k - 1 = offset + k
        BY <2>2, <2>5
      <3> QED
        BY <3>1, <3>2
    <2>7. Len(page) \in 0..size /\ (Len(page) < size => offset + Len(page) >= Len(listing))
      BY <1>1, <2>2, <2>5
    <2> QED
      BY <2>4, <2>6, <2>7 DEF page
  <1> QED
    BY <1>2, <1>3

\* An upload moves files to the right only.
LEMMA InsertElements ==
  ASSUME NEW s \in Seq(File), IsInjective(s), NEW f \in File \ ToSet(s), NEW i \in 1..(Len(s) + 1)
  PROVE  /\ InsertAt(s, i, f) \in Seq(File) /\ IsInjective(InsertAt(s, i, f))
         /\ ToSet(s) \subseteq ToSet(InsertAt(s, i, f))
         /\ \A j \in DOMAIN InsertAt(s, i, f) :
              \/ InsertAt(s, i, f)[j] = f
              \/ \E k \in DOMAIN s : k <= j /\ s[k] = InsertAt(s, i, f)[j]
  <1> DEFINE left == SubSeq(s, 1, i - 1)
             right == SubSeq(s, i, Len(s))
             half == left \o <<f>>
             t == InsertAt(s, i, f)
  <1>1. Len(s) \in Nat /\ DOMAIN s = 1..Len(s) /\ \A k \in 1..Len(s) : s[k] \in File
    BY LenProperties, ElementOfSeq
  <1>2. /\ left \in Seq(File) /\ Len(left) = i - 1 /\ \A k \in 1..(i - 1) : left[k] = s[k]
    <2>1. 1 \in Int /\ i - 1 \in Int /\ \A k \in 1..(i - 1) : s[k] \in File
      BY <1>1
    <2>2. /\ left \in Seq(File) /\ Len(left) = (IF 1 <= i - 1 THEN (i - 1) - 1 + 1 ELSE 0)
          /\ \A k \in 1..((i - 1) - 1 + 1) : left[k] = s[1 + k - 1]
      BY <2>1, SubSeqProperties
    <2> QED
      BY <2>2, <1>1
  <1>3. /\ right \in Seq(File) /\ Len(right) = Len(s) - i + 1
        /\ \A k \in 1..(Len(s) - i + 1) : right[k] = s[i + k - 1]
    <2>1. i \in Int /\ Len(s) \in Int /\ \A k \in i..Len(s) : s[k] \in File
      BY <1>1
    <2>2. /\ right \in Seq(File) /\ Len(right) = (IF i <= Len(s) THEN Len(s) - i + 1 ELSE 0)
          /\ \A k \in 1..(Len(s) - i + 1) : right[k] = s[i + k - 1]
      BY <2>1, SubSeqProperties
    <2> QED
      BY <2>2, <1>1
  <1> HIDE DEF left, right
  <1>4. /\ half \in Seq(File) /\ Len(half) = i
        /\ \A k \in 1..i : half[k] = IF k < i THEN s[k] ELSE f
    <2>1. <<f>> \in Seq(File) /\ Len(<<f>>) = 1 /\ <<f>>[1] = f
      OBVIOUS
    <2>2. /\ half \in Seq(File) /\ Len(half) = Len(left) + 1
          /\ \A k \in 1..(Len(left) + 1) : half[k] = IF k <= Len(left) THEN left[k] ELSE <<f>>[k - Len(left)]
      BY <1>2, <2>1, ConcatProperties
    <2> QED
      BY <1>1, <1>2, <2>1, <2>2
  <1>5. t = half \o right
    BY DEF InsertAt, left, right
  <1> HIDE DEF half, t
  <1>6. /\ t \in Seq(File) /\ Len(t) = Len(s) + 1 /\ DOMAIN t = 1..(Len(s) + 1)
        /\ \A k \in 1..(Len(s) + 1) : t[k] = IF k < i THEN s[k] ELSE IF k = i THEN f ELSE s[k - 1]
    <2>1. /\ t \in Seq(File) /\ Len(t) = i + (Len(s) - i + 1)
          /\ \A k \in 1..(i + (Len(s) - i + 1)) : t[k] = IF k <= i THEN half[k] ELSE right[k - i]
      BY <1>3, <1>4, <1>5, ConcatProperties
    <2>2. Len(t) = Len(s) + 1 /\ DOMAIN t = 1..(Len(s) + 1)
      BY <2>1, <1>1, LenProperties
    <2>3. ASSUME NEW k \in 1..(Len(s) + 1)
          PROVE  t[k] = IF k < i THEN s[k] ELSE IF k = i THEN f ELSE s[k - 1]
      <3>1. t[k] = IF k <= i THEN half[k] ELSE right[k - i]
        BY <2>1, <1>1
      <3>2. CASE k <= i
        BY <3>1, <3>2, <1>4
      <3>3. CASE ~(k <= i)
        <4>1. k - i \in 1..(Len(s) - i + 1) /\ i + (k - i) - 1 = k - 1
          BY <3>3, <1>1
        <4> QED
          BY <3>1, <3>3, <4>1, <1>3
      <3> QED
        BY <3>2, <3>3
    <2> QED
      BY <2>1, <2>2, <2>3
  <1>7. \A k \in 1..Len(s) : s[k] # f
    BY <1>1 DEF ToSet
  <1>8. IsInjective(t)
    <2> SUFFICES ASSUME NEW j \in 1..(Len(s) + 1), NEW k \in 1..(Len(s) + 1), t[j] = t[k]
                 PROVE  j = k
      BY <1>6 DEF IsInjective
    <2>1. CASE j = i \/ k = i
      BY <2>1, <1>1, <1>6, <1>7
    <2>2. CASE j # i /\ k # i
      <3> DEFINE jj == IF j < i THEN j ELSE j - 1
                 kk == IF k < i THEN k ELSE k - 1
      <3>1. jj \in DOMAIN s /\ kk \in DOMAIN s /\ t[j] = s[jj] /\ t[k] = s[kk]
        BY <2>2, <1>1, <1>6
      <3>2. jj = kk
        BY <3>1 DEF IsInjective
      <3> QED
        BY <2>2, <3>2, <1>1
    <2> QED
      BY <2>1, <2>2
  <1>9. ToSet(s) \subseteq ToSet(t)
    <2> SUFFICES ASSUME NEW k \in 1..Len(s) PROVE s[k] \in ToSet(t)
      BY <1>1 DEF ToSet
    <2> DEFINE kk == IF k < i THEN k ELSE k + 1
    <2>1. kk \in DOMAIN t /\ t[kk] = s[k]
      BY <1>1, <1>6
    <2> QED
      BY <2>1 DEF ToSet
  <1>10. ASSUME NEW j \in DOMAIN t, t[j] # f
         PROVE  \E k \in DOMAIN s : k <= j /\ s[k] = t[j]
    <2> DEFINE k == IF j < i THEN j ELSE j - 1
    <2>1. k \in DOMAIN s /\ k <= j /\ s[k] = t[j]
      BY <1>1, <1>6, <1>10
    <2> QED
      BY <2>1
  <1> QED
    BY <1>6, <1>8, <1>9, <1>10 DEF t

\* A removal leaves what was before it where it is.
LEMMA RemoveElements ==
  ASSUME NEW s \in Seq(File), IsInjective(s), NEW i \in DOMAIN s
  PROVE  /\ RemoveAt(s, i) \in Seq(File) /\ IsInjective(RemoveAt(s, i))
         /\ DOMAIN RemoveAt(s, i) = 1..(Len(s) - 1)
         /\ \A k \in 1..(i - 1) : k \in DOMAIN RemoveAt(s, i) /\ RemoveAt(s, i)[k] = s[k]
  <1> DEFINE left == SubSeq(s, 1, i - 1)
             right == SubSeq(s, i + 1, Len(s))
             t == RemoveAt(s, i)
  <1>1. Len(s) \in Nat /\ DOMAIN s = 1..Len(s) /\ \A k \in 1..Len(s) : s[k] \in File
    BY LenProperties, ElementOfSeq
  <1>2. /\ left \in Seq(File) /\ Len(left) = i - 1 /\ \A k \in 1..(i - 1) : left[k] = s[k]
    <2>1. 1 \in Int /\ i - 1 \in Int /\ \A k \in 1..(i - 1) : s[k] \in File
      BY <1>1
    <2>2. /\ left \in Seq(File) /\ Len(left) = (IF 1 <= i - 1 THEN (i - 1) - 1 + 1 ELSE 0)
          /\ \A k \in 1..((i - 1) - 1 + 1) : left[k] = s[1 + k - 1]
      BY <2>1, SubSeqProperties
    <2> QED
      BY <2>2, <1>1
  <1>3. /\ right \in Seq(File) /\ Len(right) = Len(s) - i
        /\ \A k \in 1..(Len(s) - i) : right[k] = s[i + k]
    <2>1. i + 1 \in Int /\ Len(s) \in Int /\ \A k \in (i + 1)..Len(s) : s[k] \in File
      BY <1>1
    <2>2. /\ right \in Seq(File) /\ Len(right) = (IF i + 1 <= Len(s) THEN Len(s) - (i + 1) + 1 ELSE 0)
          /\ \A k \in 1..(Len(s) - (i + 1) + 1) : right[k] = s[(i + 1) + k - 1]
      BY <2>1, SubSeqProperties
    <2> QED
      BY <2>2, <1>1
  <1> HIDE DEF left, right
  <1>4. t = left \o right
    BY DEF RemoveAt, left, right
  <1> HIDE DEF t
  <1>5. /\ t \in Seq(File) /\ DOMAIN t = 1..(Len(s) - 1)
        /\ \A k \in 1..(Len(s) - 1) : t[k] = IF k < i THEN s[k] ELSE s[k + 1]
    <2>1. /\ t \in Seq(File) /\ Len(t) = (i - 1) + (Len(s) - i)
          /\ \A k \in 1..((i - 1) + (Len(s) - i)) :
               t[k] = IF k <= i - 1 THEN left[k] ELSE right[k - (i - 1)]
      BY <1>2, <1>3, <1>4, ConcatProperties
    <2>2. DOMAIN t = 1..(Len(s) - 1)
      BY <2>1, <1>1, LenProperties
    <2>3. ASSUME NEW k \in 1..(Len(s) - 1)
          PROVE  t[k] = IF k < i THEN s[k] ELSE s[k + 1]
      <3>1. t[k] = IF k <= i - 1 THEN left[k] ELSE right[k - (i - 1)]
        BY <2>1, <1>1
      <3>2. CASE k < i
        BY <3>1, <3>2, <1>1, <1>2
      <3>3. CASE ~(k < i)
        <4>1. k - (i - 1) \in 1..(Len(s) - i) /\ i + (k - (i - 1)) = k + 1
          BY <3>3, <1>1
        <4> QED
          BY <3>1, <3>3, <4>1, <1>1, <1>3
      <3> QED
        BY <3>2, <3>3
    <2> QED
      BY <2>1, <2>2, <2>3
  <1>6. IsInjective(t)
    <2> SUFFICES ASSUME NEW j \in 1..(Len(s) - 1), NEW k \in 1..(Len(s) - 1), t[j] = t[k]
                 PROVE  j = k
      BY <1>5 DEF IsInjective
    <2> DEFINE jj == IF j < i THEN j ELSE j + 1
               kk == IF k < i THEN k ELSE k + 1
    <2>1. jj \in DOMAIN s /\ kk \in DOMAIN s /\ t[j] = s[jj] /\ t[k] = s[kk]
      BY <1>1, <1>5
    <2>2. jj = kk
      BY <2>1 DEF IsInjective
    <2> QED
      BY <2>2, <1>1
  <1>7. \A k \in 1..(i - 1) : k \in DOMAIN t /\ t[k] = s[k]
    BY <1>1, <1>5
  <1> QED
    BY <1>5, <1>6, <1>7 DEF t

-----------------------------------------------------------------------------
(* Showing a page                                                          *)

Entries == [item : Item, key : 0..MaxKey]

LEMMA MarksElements ==
  ASSUME NEW s \in Seq(Entries)
  PROVE  /\ Marks(s) \in Seq(Mark) /\ Len(Marks(s)) = Len(s)
         /\ \A i \in 1..Len(s) : Marks(s)[i] = <<s[i].key, s[i].item>>
  <1>1. Len(s) \in Nat /\ DOMAIN s = 1..Len(s) /\ \A i \in 1..Len(s) : s[i] \in Entries
    BY LenProperties, ElementOfSeq
  <1>2. Marks(s) = [i \in 1..Len(s) |-> <<s[i].key, s[i].item>>]
    BY <1>1 DEF Marks
  <1>3. Marks(s) \in [1..Len(s) -> Mark]
    BY <1>1, <1>2 DEF Mark, Entries
  <1> QED
    BY <1>1, <1>2, <1>3, FunctionSeq

\* A page of different items that the cursor does not remember is a page of
\* items that were not shown lately, and the next cursor remembers it.
LEMMA Answered ==
  ASSUME TypeInv, NoRepeat, cursor.seen = LastSeen(Marks(shown)),
         NEW items \in Seq(Item), IsInjective(items),
         \A f \in ToSet(items) : Hash(f) \notin ToSet(cursor.seen),
         shown' = Shown(items)
  PROVE  /\ shown' \in Seq(Entries)
         /\ NoRepeat'
         /\ LastSeen(cursor.seen \o Hashes(items)) = LastSeen(Marks(shown'))
         /\ \A i \in DOMAIN shown : i \in DOMAIN shown' /\ shown'[i] = shown[i]
         /\ \A f \in ToSet(items) : \E i \in DOMAIN shown' : shown'[i].item = f
  <1> DEFINE n == Len(shown)
             m == Len(items)
             new == [i \in DOMAIN items |-> Entry(items[i])]
  <1>1. shown \in Seq(Entries) /\ key \in 0..MaxKey
    BY DEF TypeInv, TypeOK, Entries, Item
  <1>2. /\ n \in Nat /\ DOMAIN shown = 1..n /\ m \in Nat /\ DOMAIN items = 1..m
        /\ \A i \in 1..m : items[i] \in Item
    BY <1>1, LenProperties, ElementOfSeq
  <1>3. new = [i \in 1..m |-> Entry(items[i])] /\ new \in [1..m -> Entries]
    BY <1>1, <1>2 DEF Entry, Entries
  <1>4. new \in Seq(Entries) /\ Len(new) = m
    <2> HIDE DEF new
    <2> QED
      BY <1>2, <1>3, FunctionSeq
  <1>5. shown' = shown \o new
    BY DEF Shown
  <1> HIDE DEF new
  <1>6. /\ shown' \in Seq(Entries) /\ Len(shown') = n + m
        /\ \A i \in 1..(n + m) : shown'[i] = IF i <= n THEN shown[i] ELSE new[i - n]
    <2>1. /\ shown \o new \in Seq(Entries) /\ Len(shown \o new) = Len(shown) + Len(new)
          /\ \A i \in 1..(Len(shown) + Len(new)) :
               (shown \o new)[i] = IF i <= Len(shown) THEN shown[i] ELSE new[i - Len(shown)]
      BY <1>1, <1>4, ConcatProperties
    <2> QED
      BY <2>1, <1>4, <1>5
  <1>7. DOMAIN shown' = 1..(n + m)
    BY <1>6, LenProperties
  <1>8. \A i \in 1..n : i \in DOMAIN shown' /\ shown'[i] = shown[i]
    BY <1>2, <1>6, <1>7
  <1>9. \A i \in 1..m : /\ i + n \in DOMAIN shown'
                        /\ shown'[i + n] = Entry(items[i])
    <2> TAKE i \in 1..m
    <2>1. i + n \in 1..(n + m) /\ ~(i + n <= n) /\ (i + n) - n = i
      BY <1>2
    <2>2. shown'[i + n] = new[(i + n) - n]
      BY <2>1, <1>6
    <2> QED
      BY <2>1, <2>2, <1>3, <1>7
  <1>10. ASSUME NEW i \in DOMAIN shown', NEW j \in DOMAIN shown',
                i < j, shown'[i].item = shown'[j].item, shown'[i].key = shown'[j].key
         PROVE  j - i > Window
    <2>1. CASE j <= n
      <3>1. i \in DOMAIN shown /\ j \in DOMAIN shown /\ shown'[i] = shown[i] /\ shown'[j] = shown[j]
        BY <2>1, <1>2, <1>7, <1>8, <1>10
      <3> QED
        BY <3>1, <1>10 DEF NoRepeat
    <2>2. CASE i > n
      <3>1. i - n \in 1..m /\ j - n \in 1..m /\ (i - n) + n = i /\ (j - n) + n = j
        BY <2>2, <1>2, <1>7, <1>10
      <3>2. shown'[i] = Entry(items[i - n]) /\ shown'[j] = Entry(items[j - n])
        BY <3>1, <1>9
      <3>3. items[i - n] = items[j - n]
        BY <3>2, <1>10 DEF Entry
      <3>4. i - n = j - n
        BY <3>1, <3>3, <1>2 DEF IsInjective
      <3> QED
        BY <3>1, <3>4, <1>2, <1>7, <1>10
    <2>3. CASE i <= n /\ j > n
      <3>1. /\ i \in 1..n /\ j - n \in 1..m /\ (j - n) + n = j
            /\ i \in DOMAIN shown
        BY <2>3, <1>2, <1>7, <1>10
      <3>2. shown'[i] = shown[i] /\ shown'[j] = Entry(items[j - n])
        BY <3>1, <1>8, <1>9
      <3>3. shown[i].key = key /\ shown[i].item = items[j - n]
        BY <3>2, <1>10 DEF Entry
      <3>4. /\ Marks(shown) \in Seq(Mark) /\ Len(Marks(shown)) = n
            /\ Marks(shown)[i] = Hash(items[j - n])
        BY <3>1, <3>3, <1>1, MarksElements DEF Hash
      <3>5. ~(i > n - Window)
        <4>1. DOMAIN Marks(shown) = 1..n
          BY <3>4, LenProperties
        <4>2. i > n - Window => Marks(shown)[i] \in ToSet(LastSeen(Marks(shown)))
          BY <3>1, <3>4, <4>1, LastSeenSet
        <4>3. items[j - n] \in ToSet(items)
          BY <3>1, <1>2 DEF ToSet
        <4> QED
          BY <3>4, <4>2, <4>3
      <3> QED
        BY <3>1, <3>5, <1>2, <1>7, SearchAssumption
    <2> QED
      BY <2>1, <2>2, <2>3, <1>2, <1>7
  <1>11. NoRepeat'
    BY <1>10 DEF NoRepeat
  <1>12. LastSeen(cursor.seen \o Hashes(items)) = LastSeen(Marks(shown'))
    <2>1. /\ Marks(shown) \in Seq(Mark) /\ Len(Marks(shown)) = n
          /\ \A i \in 1..n : Marks(shown)[i] = <<shown[i].key, shown[i].item>>
      BY <1>1, MarksElements
    <2>2. /\ Marks(shown') \in Seq(Mark) /\ Len(Marks(shown')) = n + m
          /\ \A i \in 1..(n + m) : Marks(shown')[i] = <<shown'[i].key, shown'[i].item>>
      BY <1>6, MarksElements
    <2>3. /\ Hashes(items) \in Seq({key} \X Item) /\ Len(Hashes(items)) = m
          /\ \A i \in 1..m : Hashes(items)[i] = Hash(items[i])
      BY HashesElements
    <2>4. Hashes(items) \in Seq(Mark)
      <3>1. {key} \X Item \subseteq Mark
        BY <1>1 DEF Mark
      <3> QED
        BY <2>3, <3>1, SeqMonotonic
    <2> DEFINE old == Marks(shown)
               hashed == Hashes(items)
               all == old \o hashed
    <2>5. /\ all \in Seq(Mark) /\ Len(all) = n + m
          /\ \A i \in 1..(n + m) : all[i] = IF i <= n THEN old[i] ELSE hashed[i - n]
      <3>1. old \in Seq(Mark) /\ Len(old) = n /\ hashed \in Seq(Mark) /\ Len(hashed) = m
        BY <2>1, <2>3, <2>4
      <3>2. all = old \o hashed
        OBVIOUS
      <3>3. old \in Seq(Mark) /\ hashed \in Seq(Mark)
        BY <3>1
      <3> HIDE DEF old, hashed, all
      <3>4. /\ old \o hashed \in Seq(Mark) /\ Len(old \o hashed) = Len(old) + Len(hashed)
            /\ \A i \in 1..(Len(old) + Len(hashed)) :
                 (old \o hashed)[i] = IF i <= Len(old) THEN old[i] ELSE hashed[i - Len(old)]
        BY <3>3, ConcatProperties
      <3> QED
        BY <3>1, <3>2, <3>4
    <2> HIDE DEF all
    <2>6. ASSUME NEW i \in 1..(n + m) PROVE all[i] = Marks(shown')[i]
      <3>1. CASE i <= n
        <4>1. i \in 1..n
          BY <3>1, <1>2
        <4> QED
          BY <3>1, <4>1, <2>1, <2>2, <2>5, <1>8
      <3>2. CASE ~(i <= n)
        <4>1. i - n \in 1..m /\ (i - n) + n = i
          BY <3>2, <1>2
        <4>2. all[i] = Hash(items[i - n]) /\ shown'[i] = Entry(items[i - n])
          BY <3>2, <4>1, <2>3, <2>5, <1>9
        <4> QED
          BY <4>2, <2>2 DEF Hash, Entry
      <3> QED
        BY <3>1, <3>2
    <2>7. all = Marks(shown')
      BY <2>2, <2>5, <2>6, SeqEqual
    <2>8. LastSeen(LastSeen(Marks(shown)) \o Hashes(items)) = LastSeen(all)
      BY <2>1, <2>4, LastSeenConcat DEF all
    <2> QED
      BY <2>7, <2>8
  <1>13. ASSUME NEW f \in ToSet(items) PROVE \E i \in DOMAIN shown' : shown'[i].item = f
    <2>1. PICK i \in 1..m : items[i] = f
      BY <1>2 DEF ToSet
    <2>2. i + n \in DOMAIN shown' /\ shown'[i + n] = Entry(items[i])
      BY <1>9
    <2>3. shown'[i + n].item = f
      BY <2>1, <2>2 DEF Entry
    <2> QED
      BY <2>2, <2>3
  <1> QED
    BY <1>2, <1>6, <1>8, <1>11, <1>12, <1>13

-----------------------------------------------------------------------------
(* The steps                                                               *)

LEMMA EmptyMarks == Marks(<<>>) = <<>> /\ LastSeen(<<>>) = <<>> /\ Hashes(<<>>) = <<>>
  <1>1. <<>> \in Seq(Entries) /\ <<>> \in Seq(Mark) /\ <<>> \in Seq(File) /\ Len(<<>>) = 0
    BY EmptySeq
  <1>2. Marks(<<>>) \in Seq(Mark) /\ Len(Marks(<<>>)) = 0
    BY <1>1, MarksElements
  <1>3. LastSeen(<<>>) \in Seq(Mark) /\ Len(LastSeen(<<>>)) = Smaller(Window, 0)
    BY <1>1, LastSeenElements
  <1>4. Smaller(Window, 0) = 0
    BY SearchAssumption DEF Smaller
  <1>5. Hashes(<<>>) \in Seq({key} \X File) /\ Len(Hashes(<<>>)) = 0
    BY <1>1, HashesElements
  <1> QED
    BY <1>2, <1>3, <1>4, <1>5, EmptySeq

LEMMA NothingBehind ==
  ASSUME TypeInv, NEW n \in Int, n <= 0
  PROVE  Behind(n) = {}
  <1>1. DOMAIN listing = 1..Len(listing) /\ Len(listing) \in Nat
    BY LenProperties DEF TypeInv, TypeOK
  <1> QED
    BY <1>1 DEF Behind

LEMMA SearchInit_Inv == Init => SearchInv
  <1> SUFFICES ASSUME Init PROVE SearchInv
    OBVIOUS
  <1> USE DEF Init
  <1>1. listing \in Seq(File) /\ IsInjective(listing)
    <2>1. PICK files \in {fs \in SUBSET File : IsFiniteSet(fs)} : listing \in SetToSeqs(files)
      OBVIOUS
    <2>2. Cardinality(files) \in Nat
      BY <2>1, FS_CardinalityType
    <2>3. /\ listing \in [1..Cardinality(files) -> files]
          /\ \A i, j \in 1..Cardinality(files) : i # j => listing[i] # listing[j]
      BY <2>1 DEF SetToSeqs
    <2>4. listing \in [1..Cardinality(files) -> File]
      BY <2>3
    <2> QED
      BY <2>2, <2>3, <2>4, FunctionSeq DEF IsInjective
  <1>2. NoCursor \in Cursor /\ <<>> \in Seq(Mark) /\ <<>> \in Seq(File) /\ <<>> \in Seq(WikiPage)
    BY SearchAssumption, EmptySeq DEF NoCursor, Cursor
  <1>3. <<>> \in Seq([item : File \cup WikiPage, key : 0..MaxKey])
    BY EmptySeq
  <1>4. TypeOK
    <2>1. key \in 0..MaxKey
      BY WalkAssumption
    <2>2. cursor \in [offset : -1..MaxOffset, seen : Seq((0..MaxKey) \X (File \cup WikiPage))]
      BY <1>2 DEF Cursor, Mark, Item
    <2>3. scan.at = "idle" /\ wiki.at = "idle"
      BY DEF Idle, NoWiki
    <2> QED
      BY <1>1, <1>3, <2>1, <2>2, <2>3 DEF TypeOK
  <1>5. TypeInv
    BY <1>2, <1>4 DEF TypeInv, Idle, NoWiki, Ended
  <1>6. CursorInv
    BY EmptyMarks DEF CursorInv, NoCursor
  <1>7. CallInv /\ EndInv /\ NoRepeat /\ NoSkip
    BY DEF CallInv, EndInv, NoRepeat, NoSkip, Idle
  <1>8. CoverInv
    <2>1. Behind(cursor.offset) = {}
      BY <1>5, NothingBehind DEF NoCursor
    <2> QED
      BY <2>1 DEF CoverInv, Idle
  <1> QED
    BY <1>5, <1>6, <1>7, <1>8 DEF SearchInv

LEMMA Error_Inv ==
  ASSUME SearchInv, at = "call", Error, key' \in 0..MaxKey,
         UNCHANGED <<listing, kind, steady>>
  PROVE  SearchInv'
  <1> USE DEF SearchInv, Error
  <1>1. at' \in {"begin", "next"} /\ scan' = Idle /\ wiki' = NoWiki
    OBVIOUS
  <1>2. TypeInv'
    <2>1. NoCursor \in Cursor /\ <<>> \in Seq(Mark) /\ <<>> \in Seq(File) /\ <<>> \in Seq(WikiPage)
      BY SearchAssumption, EmptySeq DEF NoCursor, Cursor
    <2>2. TypeOK'
      BY <1>1 DEF TypeInv, TypeOK, Idle, NoWiki
    <2> QED
      BY <1>1, <2>1, <2>2 DEF TypeInv, Idle, NoWiki, Ended
  <1>3. CursorInv'
    BY DEF CursorInv
  <1>4. CallInv' /\ EndInv'
    BY <1>1 DEF CallInv, EndInv, Idle
  <1>5. CoverInv'
    BY <1>1 DEF CoverInv, Idle, Behind, Covered
  <1>6. NoRepeat' /\ NoSkip'
    BY <1>1 DEF NoRepeat, NoSkip
  <1> QED
    BY <1>2, <1>3, <1>4, <1>5, <1>6

LEMMA Search_Inv ==
  ASSUME SearchInv, Search
  PROVE  SearchInv'
  <1> USE DEF SearchInv, Search
  <1>1. /\ at \in {"begin", "next"} /\ at' = "call"
        /\ UNCHANGED <<listing, key, kind, cursor, shown, reported, steady, cut>>
    OBVIOUS
  <1>2. Offset \in Nat /\ (at = "begin" => Offset = 0) /\ (at = "next" => Offset = cursor.offset)
    BY SearchAssumption DEF Offset, CursorInv
  <1>3. scan' = Scanning(Offset, Remembered) /\ Remembered' = Remembered
    BY <1>1 DEF Remembered, TypeInv, TypeOK
  <1>4. wiki' \in [at : {"idle", "asked"}, results : {<<>>}] /\ (kind = "disk" => wiki' = NoWiki)
    BY DEF CallInv, NoWiki, TypeInv, TypeOK
  <1>5. cursor \in Cursor /\ cursor.seen \in Seq(Mark) /\ Remembered \in Seq(Mark)
    BY EmptySeq DEF TypeInv, Cursor, Remembered
  <1>6. NoCursor \in Cursor /\ <<>> \in Seq(File) /\ <<>> \in Seq(WikiPage)
    BY SearchAssumption, EmptySeq DEF NoCursor, Cursor
  <1>7. /\ scan'.at = "scan" /\ scan'.offset = Offset /\ scan'.seen = Remembered
        /\ scan'.matched = <<>> /\ scan'.exhausted = FALSE /\ scan'.next = NoCursor
        /\ scan'.scanned = 0
        /\ scan' = [at |-> "scan", offset |-> Offset, seen |-> Remembered, matched |-> <<>>,
                    scanned |-> 0, exhausted |-> FALSE, next |-> NoCursor]
    BY <1>3 DEF Scanning, Idle
  <1>8. TypeInv'
    <2>1. TypeOK'
      BY <1>1, <1>4, <1>7 DEF TypeInv, TypeOK
    <2>2. scan' \in [at : {"idle", "scan"} \cup Ended, offset : Nat, seen : Seq(Mark),
                     matched : Seq(File), scanned : Nat, exhausted : BOOLEAN, next : Cursor]
      BY <1>2, <1>5, <1>6, <1>7
    <2>3. wiki' \in [at : {"idle", "asked"} \cup Ended, results : Seq(WikiPage)]
      BY <1>4, <1>6
    <2> QED
      BY <1>1, <1>5, <2>1, <2>2, <2>3 DEF TypeInv
  <1>9. CursorInv'
    BY <1>1 DEF CursorInv
  <1>10. CallInv' /\ EndInv'
    <2>1. Hashes(<<>>)' = <<>>
      BY <1>1, EmptyMarks DEF Hashes, Hash
    <2>2. Remembered \o <<>> = Remembered
      BY <1>5, ConcatEmptySeq
    <2>3. IsInjective(<<>>)
      BY DEF IsInjective
    <2>4. (scan.seen = Remembered \o Hashes(scan.matched))'
      BY <1>3, <1>7, <2>1, <2>2
    <2>5. IsInjective(scan'.matched) /\ ToSet(scan'.matched) = {}
      BY <1>7, <2>3 DEF ToSet
    <2> QED
      BY <1>1, <1>4, <1>7, <2>3, <2>4, <2>5 DEF CallInv, EndInv
  <1>11. CoverInv'
    <2>1. Behind(Offset) = {} \/ Offset = cursor.offset
      BY <1>1, <1>2, NothingBehind
    <2>2. \A f \in Behind(Offset) : Covered(f)
      BY <1>1, <2>1 DEF CoverInv
    <2> QED
      BY <1>1, <1>7, <2>2 DEF CoverInv, Behind, Covered
  <1>12. NoRepeat' /\ NoSkip'
    BY <1>1 DEF NoRepeat, NoSkip
  <1> QED
    BY <1>8, <1>9, <1>10, <1>11, <1>12

LEMMA WikiAnswers_Inv ==
  ASSUME SearchInv, WikiAnswers
  PROVE  SearchInv'
  <1> USE DEF SearchInv, WikiAnswers
  <1>1. /\ wiki.at = "asked"
        /\ UNCHANGED <<listing, key, scan, kind, at, cursor, shown, reported, steady, cut>>
    OBVIOUS
  <1>2. wiki' \in [at : Ended, results : Seq(WikiPage)]
    <2>1. CASE wiki' = [wiki EXCEPT !.at = "failed"]
      BY <2>1 DEF TypeInv, Ended
    <2>2. CASE \E n \in 0..Limit : \E results \in [1..n -> WikiPage] :
                 wiki' = [at |-> "done", results |-> results]
      <3>1. PICK n \in 0..Limit : \E results \in [1..n -> WikiPage] :
              wiki' = [at |-> "done", results |-> results]
        BY <2>2
      <3>2. PICK results \in [1..n -> WikiPage] : wiki' = [at |-> "done", results |-> results]
        BY <3>1
      <3>3. n \in Nat
        BY SearchAssumption
      <3>4. results \in Seq(WikiPage)
        BY <3>3, FunctionSeq
      <3> QED
        BY <3>2, <3>4 DEF Ended
    <2> QED
      BY <2>1, <2>2
  <1>3. TypeInv'
    BY <1>1, <1>2 DEF TypeInv, TypeOK, Ended
  <1>4. CallInv'
    <2>1. Remembered' = Remembered /\ Hashes(scan.matched)' = Hashes(scan.matched)
      BY <1>1 DEF Remembered, Hashes, Hash
    <2>2. at = "call" /\ kind # "disk"
      BY <1>1 DEF CallInv, NoWiki
    <2>3. (\A f \in ToSet(scan.matched) : Hash(f) \notin ToSet(Remembered))'
      BY <1>1, <2>1, <2>2 DEF CallInv, Hash
    <2> QED
      BY <1>1, <2>1, <2>2, <2>3 DEF CallInv
  <1>5. CursorInv' /\ EndInv' /\ CoverInv' /\ NoRepeat' /\ NoSkip'
    BY <1>1 DEF CursorInv, EndInv, TooFar, CoverInv, Behind, Covered, NoRepeat, NoSkip
  <1> QED
    BY <1>3, <1>4, <1>5

LEMMA HashesConcat ==
  ASSUME NEW S, NEW s \in Seq(S), NEW t \in Seq(S)
  PROVE  Hashes(s \o t) = Hashes(s) \o Hashes(t)
  <1> DEFINE u == s \o t
             hs == Hashes(s)
             ht == Hashes(t)
             hu == Hashes(u)
             v == hs \o ht
             H == {key} \X S
  <1>1. /\ u \in Seq(S) /\ Len(u) = Len(s) + Len(t)
        /\ \A i \in 1..(Len(s) + Len(t)) : u[i] = IF i <= Len(s) THEN s[i] ELSE t[i - Len(s)]
    BY ConcatProperties
  <1>2. Len(s) \in Nat /\ Len(t) \in Nat
    BY LenProperties
  <1>3. hs \in Seq(H) /\ Len(hs) = Len(s) /\ \A i \in 1..Len(s) : hs[i] = Hash(s[i])
    BY HashesElements
  <1>4. ht \in Seq(H) /\ Len(ht) = Len(t) /\ \A i \in 1..Len(t) : ht[i] = Hash(t[i])
    BY HashesElements
  <1> HIDE DEF u
  <1>5. hu \in Seq(H) /\ Len(hu) = Len(u) /\ \A i \in 1..Len(u) : hu[i] = Hash(u[i])
    BY <1>1, HashesElements
  <1> HIDE DEF hs, ht, hu, H
  <1>6. /\ v \in Seq(H) /\ Len(v) = Len(hs) + Len(ht)
        /\ \A i \in 1..(Len(hs) + Len(ht)) : v[i] = IF i <= Len(hs) THEN hs[i] ELSE ht[i - Len(hs)]
    <2>1. hs \in Seq(H) /\ ht \in Seq(H)
      BY <1>3, <1>4
    <2> QED
      BY <2>1, ConcatProperties
  <1> HIDE DEF v
  <1>7. ASSUME NEW i \in 1..Len(hu) PROVE hu[i] = v[i]
    <2>1. i \in 1..(Len(s) + Len(t))
      BY <1>1, <1>5
    <2>2. CASE i <= Len(s)
      <3>1. i \in 1..Len(s)
        BY <2>1, <2>2, <1>2
      <3> QED
        BY <2>1, <2>2, <3>1, <1>1, <1>3, <1>4, <1>5, <1>6
    <2>3. CASE ~(i <= Len(s))
      <3>1. i - Len(s) \in 1..Len(t)
        BY <2>1, <2>3, <1>2
      <3> QED
        BY <2>1, <2>3, <3>1, <1>1, <1>3, <1>4, <1>5, <1>6
    <2> QED
      BY <2>2, <2>3
  <1>8. hu = v
    BY <1>1, <1>3, <1>4, <1>5, <1>6, <1>7, SeqEqual
  <1> QED
    BY <1>8 DEF u, v, hs, ht, hu

LEMMA InjectiveConcat ==
  ASSUME NEW S, NEW s \in Seq(S), NEW t \in Seq(S), IsInjective(s), IsInjective(t),
         ToSet(s) \cap ToSet(t) = {}
  PROVE  IsInjective(s \o t)
  <1> DEFINE u == s \o t
  <1>1. /\ u \in Seq(S) /\ Len(u) = Len(s) + Len(t)
        /\ \A i \in 1..(Len(s) + Len(t)) : u[i] = IF i <= Len(s) THEN s[i] ELSE t[i - Len(s)]
    BY ConcatProperties
  <1>2. /\ Len(s) \in Nat /\ Len(t) \in Nat /\ DOMAIN s = 1..Len(s) /\ DOMAIN t = 1..Len(t)
        /\ DOMAIN u = 1..(Len(s) + Len(t))
    BY <1>1, LenProperties
  <1> HIDE DEF u
  <1> SUFFICES ASSUME NEW i \in DOMAIN u, NEW j \in DOMAIN u, u[i] = u[j]
               PROVE  i = j
    BY DEF IsInjective, u
  <1>3. CASE i <= Len(s) /\ j <= Len(s)
    <2>1. i \in DOMAIN s /\ j \in DOMAIN s /\ s[i] = s[j]
      BY <1>1, <1>2, <1>3
    <2> QED
      BY <2>1 DEF IsInjective
  <1>4. CASE ~(i <= Len(s)) /\ ~(j <= Len(s))
    <2>1. i - Len(s) \in DOMAIN t /\ j - Len(s) \in DOMAIN t /\ t[i - Len(s)] = t[j - Len(s)]
      BY <1>1, <1>2, <1>4
    <2>2. i - Len(s) = j - Len(s)
      BY <2>1 DEF IsInjective
    <2> QED
      BY <2>2, <1>2
  <1>5. ASSUME NEW k \in DOMAIN u, NEW l \in DOMAIN u, u[k] = u[l], k <= Len(s), ~(l <= Len(s))
        PROVE  FALSE
    <2>1. k \in DOMAIN s /\ l - Len(s) \in DOMAIN t /\ s[k] = t[l - Len(s)]
      BY <1>1, <1>2, <1>5
    <2> QED
      BY <2>1 DEF ToSet
  <1> QED
    BY <1>3, <1>4, <1>5

\* What the cursor remembers was shown.
LEMMA RememberedShown ==
  ASSUME TypeInv, CursorInv, at # "over", NEW f, Hash(f) \in ToSet(cursor.seen)
  PROVE  Covered(f)
  <1>1. shown \in Seq(Entries)
    BY DEF TypeInv, TypeOK, Entries, Item
  <1>2. /\ Marks(shown) \in Seq(Mark) /\ Len(Marks(shown)) = Len(shown)
        /\ \A i \in 1..Len(shown) : Marks(shown)[i] = <<shown[i].key, shown[i].item>>
    BY <1>1, MarksElements
  <1>3. DOMAIN shown = 1..Len(shown) /\ DOMAIN Marks(shown) = 1..Len(shown)
    BY <1>1, <1>2, LenProperties
  <1>4. Hash(f) \in ToSet(Marks(shown))
    BY <1>2, LastSeenSet DEF CursorInv
  <1>5. PICK i \in 1..Len(shown) : <<shown[i].key, shown[i].item>> = Hash(f)
    BY <1>2, <1>3, <1>4 DEF ToSet
  <1> QED
    BY <1>3, <1>5 DEF Covered, Hash

LEMMA ScanPage_Inv ==
  ASSUME SearchInv, ScanPage,
         UNCHANGED <<listing, key, kind, at, cursor, wiki, shown, reported, cut, steady>>
  PROVE  SearchInv'
  <1> USE DEF SearchInv
  <1> DEFINE page == Page(scan.offset, BatchSize)
             fresh == {k \in Unseen(page, scan.seen) : page[k] \in Matching}
             room == Limit - Len(scan.matched)
  <1>1. /\ scan.at = "scan" /\ ~scan.exhausted /\ ~(Len(scan.matched) >= Limit)
        /\ \E picks \in Picks(page, fresh, room) :
             scan' = [scan EXCEPT !.offset = @ + Len(page),
                                  !.scanned = @ + Len(page),
                                  !.exhausted = Len(page) < BatchSize,
                                  !.matched = @ \o Taken(page, picks),
                                  !.seen = @ \o Hashes(Taken(page, picks))]
    BY DEF ScanPage, Done
  <1>2. PICK picks \in Picks(page, fresh, room) :
             scan' = [scan EXCEPT !.offset = @ + Len(page),
                                  !.scanned = @ + Len(page),
                                  !.exhausted = Len(page) < BatchSize,
                                  !.matched = @ \o Taken(page, picks),
                                  !.seen = @ \o Hashes(Taken(page, picks))]
    BY <1>1
  <1> DEFINE taken == Taken(page, picks)
  <1>3. /\ scan.matched \in Seq(File) /\ scan.seen \in Seq(Mark) /\ scan.offset \in Nat
        /\ scan.scanned \in Nat /\ listing \in Seq(File) /\ key \in 0..MaxKey
    BY DEF TypeInv, TypeOK
  <1>4. Len(scan.matched) \in Nat /\ Limit \in Nat /\ BatchMax \in Nat \ {0}
    BY <1>3, LenProperties, SearchAssumption
  <1>5. room \in Nat /\ BatchSize \in Nat \ {0} /\ BatchSize <= room
    BY <1>1, <1>4 DEF BatchSize, Smaller
  <1> HIDE DEF room
  <1>6. /\ page \in Seq(File) /\ Len(page) \in 0..BatchSize
        /\ Len(page) < BatchSize => scan.offset + Len(page) >= Len(listing)
        /\ \A k \in 1..Len(page) : page[k] = listing[scan.offset + k]
    BY <1>3, <1>5, PageElements
  <1> HIDE DEF page
  <1>7. DOMAIN page = 1..Len(page) /\ fresh \in SUBSET (DOMAIN page)
    BY <1>6, LenProperties DEF Unseen
  <1>8. /\ taken \in Seq(File) /\ IsInjective(taken)
        /\ ToSet(taken) \subseteq {page[k] : k \in fresh}
    <2> HIDE DEF fresh
    <2>1. Taken(page, picks) \in Seq(File) /\ IsInjective(Taken(page, picks))
      BY <1>5, <1>6, <1>7, PicksTaken
    <2>2. ToSet(Taken(page, picks)) \subseteq {page[k] : k \in fresh}
      BY <1>5, <1>6, <1>7, PicksTaken
    <2> QED
      BY <2>1, <2>2
  <1>9. \A f \in ToSet(taken) : Hash(f) \notin ToSet(scan.seen)
    BY <1>8 DEF Unseen
  <1>10. \A k \in fresh : page[k] \in ToSet(taken)
    <2>1. Len(page) <= room
      BY <1>5, <1>6
    <2> HIDE DEF fresh
    <2> QED
      BY <2>1, <1>5, <1>6, <1>7, RoomForAll
  <1> HIDE DEF fresh, taken
  <1>11. Hashes(taken) \in Seq(Mark)
    <2>1. Hashes(taken) \in Seq({key} \X File)
      BY <1>8, HashesElements
    <2>2. {key} \X File \subseteq Mark
      BY <1>3 DEF Mark, Item
    <2> QED
      BY <2>1, <2>2, SeqMonotonic
  <1>12. /\ scan.matched \o taken \in Seq(File)
         /\ ToSet(scan.matched \o taken) = ToSet(scan.matched) \cup ToSet(taken)
    BY <1>3, <1>8, ConcatElements
  <1>13. /\ scan.seen \o Hashes(taken) \in Seq(Mark)
    BY <1>3, <1>11, ConcatProperties
  <1>14. /\ scan'.at = "scan" /\ scan'.offset = scan.offset + Len(page)
         /\ scan'.scanned = scan.scanned + Len(page) /\ scan'.next = scan.next
         /\ scan'.exhausted = (Len(page) < BatchSize)
         /\ scan'.matched = scan.matched \o taken
         /\ scan'.seen = scan.seen \o Hashes(taken)
    BY <1>1, <1>2 DEF TypeInv, taken
  <1>15. TypeInv'
    <2>1. TypeOK'
      BY <1>14 DEF TypeInv, TypeOK
    <2>2. scan' \in [at : {"idle", "scan"} \cup Ended, offset : Nat, seen : Seq(Mark),
                     matched : Seq(File), scanned : Nat, exhausted : BOOLEAN, next : Cursor]
      <3>1. scan.offset + Len(page) \in Nat /\ scan.scanned + Len(page) \in Nat
        BY <1>3, <1>5, <1>6
      <3>2. (Len(page) < BatchSize) \in BOOLEAN
        OBVIOUS
      <3> QED
        BY <1>2, <1>12, <1>13, <3>1, <3>2 DEF TypeInv, taken
    <2> QED
      BY <2>1, <2>2 DEF TypeInv
  <1>16. at = "call" /\ at' = "call"
    BY <1>1 DEF CallInv, Idle
  <1>17. /\ scan.seen = Remembered \o Hashes(scan.matched)
         /\ IsInjective(scan.matched)
         /\ \A f \in ToSet(scan.matched) : Hash(f) \notin ToSet(Remembered)
         /\ Remembered \in Seq(Mark) /\ cursor.seen \in Seq(Mark)
    BY <1>16, EmptySeq DEF CallInv, Remembered, TypeInv, Cursor
  <1>18. Hashes(scan.matched) \in Seq(Mark)
    <2>1. Hashes(scan.matched) \in Seq({key} \X File)
      BY <1>3, HashesElements
    <2>2. {key} \X File \subseteq Mark
      BY <1>3 DEF Mark, Item
    <2> QED
      BY <2>1, <2>2, SeqMonotonic
  <1>19. ToSet(scan.seen) = ToSet(Remembered) \cup ToSet(Hashes(scan.matched))
    BY <1>17, <1>18, ConcatElements
  <1>20. CallInv'
    <2>1. scan'.seen = Remembered \o Hashes(scan'.matched)
      <3>1. Hashes(scan'.matched) = Hashes(scan.matched) \o Hashes(taken)
        BY <1>3, <1>8, <1>14, HashesConcat
      <3>2. (Remembered \o Hashes(scan.matched)) \o Hashes(taken)
              = Remembered \o (Hashes(scan.matched) \o Hashes(taken))
        BY <1>11, <1>17, <1>18, ConcatAssociative
      <3> QED
        BY <3>1, <3>2, <1>14, <1>17
    <2>2. (scan.seen = Remembered \o Hashes(scan.matched))'
      BY <2>1 DEF Remembered, Hashes, Hash
    <2>3. ToSet(scan.matched) \cap ToSet(taken) = {}
      BY <1>3, <1>9, <1>19, HashesElements
    <2>4. IsInjective(scan'.matched)
      BY <1>3, <1>8, <1>14, <1>17, <2>3, InjectiveConcat
    <2>5. \A f \in ToSet(scan'.matched) : Hash(f) \notin ToSet(Remembered)
      BY <1>9, <1>12, <1>14, <1>17, <1>19
    <2>6. (\A f \in ToSet(scan.matched) : Hash(f) \notin ToSet(Remembered))'
      BY <2>5 DEF Hash, Remembered
    <2>7. kind' = "disk" => wiki' = NoWiki
      BY DEF CallInv
    <2> QED
      BY <1>14, <1>16, <2>2, <2>4, <2>6, <2>7 DEF CallInv
  <1>21. CoverInv'
    <2>1. \A f \in Behind(cursor.offset) : Covered(f)
      BY <1>16 DEF CoverInv
    <2>2. ASSUME NEW f \in steady \cap Matching, scan'.exhausted \/ f \in Behind(scan'.offset)
          PROVE  Covered(f) \/ f \in ToSet(scan'.matched)
      <3>1. CASE f \in Behind(scan.offset)
        BY <3>1, <2>2, <1>1, <1>12, <1>14 DEF CoverInv
      <3>2. CASE f \notin Behind(scan.offset)
        <4>1. Len(listing) \in Nat /\ DOMAIN listing = 1..Len(listing)
          BY <1>3, LenProperties
        <4>2. PICK p \in DOMAIN listing : p <= scan.offset + Len(page) /\ listing[p] = f
          <5>1. CASE scan'.exhausted
            <6>1. PICK p \in DOMAIN listing : listing[p] = f
              BY DEF TypeInv, TypeOK, ToSet
            <6>2. Len(page) < BatchSize
              BY <5>1, <1>14
            <6>3. p <= scan.offset + Len(page)
              <7>1. scan.offset + Len(page) >= Len(listing) /\ Len(page) \in Nat
                BY <6>2, <1>5, <1>6
              <7> QED
                BY <7>1, <4>1, <1>3
            <6> QED
              BY <6>1, <6>3
          <5>2. CASE f \in Behind(scan'.offset)
            BY <5>2, <1>14 DEF Behind
          <5> QED
            BY <2>2, <5>1, <5>2
        <4>3. ~(p <= scan.offset)
          BY <2>2, <3>2, <4>2 DEF Behind
        <4>4. p - scan.offset \in 1..Len(page) /\ scan.offset + (p - scan.offset) = p
          BY <4>1, <4>2, <4>3, <1>3, <1>5, <1>6
        <4>5. page[p - scan.offset] = f
          BY <4>2, <4>4, <1>6
        <4>6. CASE Hash(f) \in ToSet(Hashes(scan.matched))
          BY <4>6, <1>3, <1>12, <1>14, HashesElements
        <4>7. CASE Hash(f) \in ToSet(Remembered)
          <5>1. Hash(f) \in ToSet(cursor.seen)
            BY <4>7 DEF Remembered, ToSet
          <5> QED
            BY <5>1, <1>16, RememberedShown
        <4>8. CASE Hash(f) \notin ToSet(scan.seen)
          <5>1. p - scan.offset \in fresh
            BY <2>2, <4>4, <4>5, <4>8, <1>7 DEF fresh, Unseen
          <5> QED
            BY <5>1, <4>5, <1>10, <1>12, <1>14
        <4> QED
          BY <4>6, <4>7, <4>8, <1>19
      <3> QED
        BY <3>1, <3>2
    <2> QED
      BY <2>1, <2>2 DEF CoverInv, Behind, Covered
  <1>22. EndInv'
    BY <1>1, <1>14 DEF EndInv
  <1>23. CursorInv' /\ NoRepeat' /\ NoSkip'
    BY <1>16 DEF CursorInv, NoRepeat, NoSkip
  <1> QED
    BY <1>15, <1>20, <1>21, <1>22, <1>23

\* A scan that ends, or fails, keeps what it found and where it is.
LEMMA ScanStops_Inv ==
  ASSUME SearchInv, ScanEnds \/ ScanFails,
         UNCHANGED <<listing, key, kind, at, cursor, wiki, shown, reported, cut, steady>>
  PROVE  SearchInv'
  <1> USE DEF SearchInv
  <1>1. /\ scan.at = "scan"
        /\ scan \in [at : {"idle", "scan"} \cup Ended, offset : Nat, seen : Seq(Mark),
                     matched : Seq(File), scanned : Nat, exhausted : BOOLEAN, next : Cursor]
    BY DEF ScanEnds, ScanFails, TypeInv
  <1> DEFINE remembered == [offset |-> scan.offset, seen |-> LastSeen(scan.seen)]
  <1>2. ~TooFar => remembered \in Cursor
    <2>1. LastSeen(scan.seen) \in Seq(Mark)
      BY <1>1, LastSeenElements
    <2>2. ~TooFar => scan.offset \in -1..MaxOffset
      BY <1>1, SearchAssumption DEF TooFar
    <2> QED
      BY <2>1, <2>2 DEF Cursor
  <1>3. \/ scan' = [scan EXCEPT !.at = "failed"]
        \/ scan' = [scan EXCEPT !.at = "done"] /\ scan.exhausted
        \/ scan' = [scan EXCEPT !.at = "done", !.next = remembered] /\ ~scan.exhausted /\ ~TooFar
    BY DEF ScanEnds, ScanFails
  <1> HIDE DEF remembered
  <1>4. /\ scan' \in [at : {"idle", "scan"} \cup Ended, offset : Nat, seen : Seq(Mark),
                      matched : Seq(File), scanned : Nat, exhausted : BOOLEAN, next : Cursor]
        /\ scan'.at \in Ended
    BY <1>1, <1>2, <1>3 DEF Ended
  <1>5. /\ scan'.offset = scan.offset /\ scan'.seen = scan.seen /\ scan'.matched = scan.matched
        /\ scan'.exhausted = scan.exhausted
    BY <1>1, <1>3
  <1>6. TypeInv'
    BY <1>4 DEF TypeInv, TypeOK
  <1>7. at = "call" /\ at' = "call"
    BY <1>1 DEF CallInv, Idle
  <1>8. CallInv'
    <2>1. Remembered' = Remembered /\ Hashes(scan.matched)' = Hashes(scan.matched)
      BY <1>5 DEF Remembered, Hashes, Hash
    <2>2. (\A f \in ToSet(scan.matched) : Hash(f) \notin ToSet(Remembered))'
      BY <1>5, <1>7, <2>1 DEF CallInv, Hash
    <2>3. scan'.at # "idle"
      BY <1>4 DEF Ended
    <2> QED
      BY <1>5, <1>7, <2>1, <2>2, <2>3 DEF CallInv
  <1>9. EndInv'
    <2>1. CASE scan' = [scan EXCEPT !.at = "failed"]
      BY <2>1, <1>1 DEF EndInv
    <2>2. CASE scan' = [scan EXCEPT !.at = "done"] /\ scan.exhausted
      <3>1. scan.next = NoCursor
        BY <1>1 DEF EndInv
      <3> QED
        BY <2>2, <3>1, <1>1 DEF EndInv
    <2>3. CASE scan' = [scan EXCEPT !.at = "done", !.next = remembered] /\ ~scan.exhausted /\ ~TooFar
      <3>1. scan'.next = [offset |-> scan.offset, seen |-> LastSeen(scan.seen)]
        BY <2>3, <1>1 DEF remembered
      <3>2. ~TooFar'
        BY <2>3, <1>5 DEF TooFar
      <3> QED
        BY <2>3, <3>1, <3>2, <1>5 DEF EndInv
    <2> QED
      BY <1>3, <2>1, <2>2, <2>3
  <1>10. CoverInv'
    BY <1>1, <1>5 DEF CoverInv, Behind, Covered
  <1>11. CursorInv' /\ NoRepeat' /\ NoSkip'
    BY DEF CursorInv, NoRepeat, NoSkip
  <1> QED
    BY <1>6, <1>8, <1>9, <1>10, <1>11

\* A call is answered with items, and with the cursor that remembers them or
\* without one.
LEMMA Answer_Inv ==
  ASSUME SearchInv, at = "call",
         NEW items \in Seq(Item), NEW next \in Cursor,
         IsInjective(items), \A f \in ToSet(items) : Hash(f) \notin ToSet(cursor.seen),
         \/ next = NoCursor
         \/ next.offset \in 0..MaxOffset /\ next.seen = LastSeen(cursor.seen \o Hashes(items)),
         Answer(items, next), UNCHANGED <<listing, key, kind, steady>>,
         reported' \in BOOLEAN, cut \subseteq cut', cut' \subseteq File,
         \A f \in steady \cap Matching :
           IF next = NoCursor THEN reported' \/ Covered(f) \/ f \in ToSet(items) \cup cut'
           ELSE f \in Behind(next.offset) => Covered(f) \/ f \in ToSet(items) \cup cut'
  PROVE  SearchInv'
  <1> USE DEF SearchInv
  <1>1. /\ at' = (IF next = NoCursor THEN "over" ELSE "next")
        /\ cursor' = next /\ shown' = Shown(items) /\ scan' = Idle /\ wiki' = NoWiki
    BY DEF Answer
  <1>2. /\ shown' \in Seq(Entries)
        /\ NoRepeat'
        /\ LastSeen(cursor.seen \o Hashes(items)) = LastSeen(Marks(shown'))
        /\ \A i \in DOMAIN shown : i \in DOMAIN shown' /\ shown'[i] = shown[i]
        /\ \A f \in ToSet(items) : \E i \in DOMAIN shown' : shown'[i].item = f
    <2>1. cursor.seen = LastSeen(Marks(shown))
      BY DEF CursorInv
    <2> QED
      BY <1>1, <2>1, Answered
  <1>3. \A f : Covered(f) \/ f \in ToSet(items) \cup cut' => Covered(f)'
    BY <1>2 DEF Covered
  <1>4. TypeInv'
    <2>1. NoCursor \in Cursor /\ <<>> \in Seq(Mark) /\ <<>> \in Seq(File) /\ <<>> \in Seq(WikiPage)
      BY SearchAssumption, EmptySeq DEF NoCursor, Cursor
    <2>2. cursor' \in [offset : -1..MaxOffset, seen : Seq((0..MaxKey) \X (File \cup WikiPage))]
      BY <1>1 DEF Cursor, Mark, Item
    <2>3. TypeOK'
      BY <1>1, <1>2, <2>2 DEF TypeInv, TypeOK, Entries, Item, Idle, NoWiki
    <2> QED
      BY <1>1, <2>1, <2>3 DEF TypeInv, Idle, NoWiki, Ended
  <1>5. CursorInv'
    BY <1>1, <1>2 DEF CursorInv
  <1>6. CallInv' /\ EndInv'
    BY <1>1 DEF CallInv, EndInv, Idle
  <1>7. CoverInv'
    <2>1. CASE next = NoCursor
      BY <2>1, <1>1 DEF CoverInv, Idle
    <2>2. CASE next # NoCursor
      <3>1. ASSUME NEW f \in Behind(next.offset) PROVE Covered(f)'
        BY <2>2, <3>1, <1>3 DEF Behind
      <3>2. Behind(cursor.offset)' = Behind(next.offset)
        BY <1>1 DEF Behind
      <3>3. (\A f \in Behind(cursor.offset) : Covered(f))'
        BY <3>1, <3>2
      <3> QED
        BY <3>3, <1>1 DEF CoverInv, Idle
    <2> QED
      BY <2>1, <2>2
  <1>8. NoSkip'
    <2> SUFFICES ASSUME next = NoCursor, ~reported', NEW f \in steady \cap Matching
                 PROVE  f \in cut' \/ \E i \in DOMAIN shown' : shown'[i].item = f
      BY <1>1 DEF NoSkip
    <2>1. Covered(f)'
      BY <1>3
    <2> QED
      BY <2>1 DEF Covered
  <1> QED
    BY <1>2, <1>4, <1>5, <1>6, <1>7, <1>8

LEMMA DiskSearchReturns_Inv ==
  ASSUME SearchInv, DiskSearchReturns
  PROVE  SearchInv'
  <1> USE DEF SearchInv
  <1>1. /\ at = "call" /\ kind = "disk" /\ UNCHANGED <<listing, key, kind, steady>>
        /\ \/ scan.at = "done" /\ Answer(scan.matched, scan.next) /\ UNCHANGED <<reported, cut>>
           \/ scan.at = "failed" /\ Error
    BY DEF DiskSearchReturns
  <1>2. CASE scan.at = "failed" /\ Error
    BY <1>1, <1>2, Error_Inv DEF TypeInv, TypeOK
  <1>3. CASE scan.at = "done" /\ Answer(scan.matched, scan.next) /\ UNCHANGED <<reported, cut>>
    <2>1. /\ scan.matched \in Seq(File) /\ scan.next \in Cursor /\ scan.offset \in Nat
          /\ reported \in BOOLEAN /\ cut \subseteq File
      BY DEF TypeInv, TypeOK
    <2>2. scan.matched \in Seq(Item)
      BY <2>1, SeqMonotonic DEF Item
    <2>3. /\ IsInjective(scan.matched)
          /\ \A f \in ToSet(scan.matched) : Hash(f) \notin ToSet(cursor.seen)
          /\ scan.seen = cursor.seen \o Hashes(scan.matched)
      BY <1>1 DEF CallInv, Remembered
    <2>4. \/ scan.exhausted /\ scan.next = NoCursor
          \/ /\ ~scan.exhausted /\ scan.next.offset = scan.offset /\ scan.offset \in 0..MaxOffset
             /\ scan.next.seen = LastSeen(cursor.seen \o Hashes(scan.matched))
      BY <1>3, <2>1, <2>3, SearchAssumption DEF EndInv, TooFar
    <2>5. scan.exhausted <=> scan.next = NoCursor
      BY <2>4 DEF NoCursor
    <2>6. \A f \in steady \cap Matching :
            scan.exhausted \/ f \in Behind(scan.offset) => Covered(f) \/ f \in ToSet(scan.matched)
      BY <1>3 DEF CoverInv
    <2>7. \A f \in steady \cap Matching :
            IF scan.next = NoCursor
            THEN reported' \/ Covered(f) \/ f \in ToSet(scan.matched) \cup cut'
            ELSE f \in Behind(scan.next.offset) => Covered(f) \/ f \in ToSet(scan.matched) \cup cut'
      BY <2>4, <2>5, <2>6
    <2>8. \/ scan.next = NoCursor
          \/ /\ scan.next.offset \in 0..MaxOffset
             /\ scan.next.seen = LastSeen(cursor.seen \o Hashes(scan.matched))
      BY <2>4
    <2>9. Answer(scan.matched, scan.next) /\ reported' \in BOOLEAN /\ cut \subseteq cut' /\ cut' \subseteq File
      BY <1>3, <2>1
    <2> QED
      BY <1>1, <2>1, <2>2, <2>3, <2>7, <2>8, <2>9, Answer_Inv
  <1> QED
    BY <1>1, <1>2, <1>3

LEMMA WorkspaceSearchReturns_Inv ==
  ASSUME SearchInv, WorkspaceSearchReturns
  PROVE  SearchInv'
  <1> USE DEF SearchInv
  <1>1. /\ at = "call" /\ kind = "workspace" /\ UNCHANGED <<listing, key, kind, steady>>
        /\ scan.at \in Ended /\ wiki.at \in Ended
    BY DEF WorkspaceSearchReturns
  <1>2. CASE scan.at = "failed" /\ wiki.at = "failed"
    BY <1>1, <1>2, Error_Inv DEF WorkspaceSearchReturns, TypeInv, TypeOK
  <1>3. CASE ~(scan.at = "failed" /\ wiki.at = "failed")
    <2> DEFINE files == Refs(scan, scan.matched)
               merged == RoundRobin(Refs(wiki, wiki.results), files)
               fresh == Unseen(merged, cursor.seen)
               results(picks) == Taken(merged, picks)
               seen(picks) == cursor.seen \o Hashes(results(picks))
               next(picks) == IF scan.at = "failed" \/ scan.next = NoCursor THEN NoCursor
                              ELSE [offset |-> scan.next.offset, seen |-> LastSeen(seen(picks))]
    <2>1. PICK picks \in Picks(merged, fresh, Limit) :
            /\ Answer(results(picks), next(picks))
            /\ reported' = (reported \/ Failed)
            /\ cut' = IF Len(results(picks)) < Limit THEN cut
                      ELSE cut \cup {f \in ToSet(files) : Hash(f) \notin ToSet(seen(picks))}
      BY <1>3 DEF WorkspaceSearchReturns
    <2> DEFINE page == results(picks)
               onward == next(picks)
    <2>2. /\ scan.matched \in Seq(File) /\ wiki.results \in Seq(WikiPage) /\ cursor.seen \in Seq(Mark)
          /\ scan.offset \in Nat /\ scan.next \in Cursor
          /\ reported \in BOOLEAN /\ cut \subseteq File /\ key \in 0..MaxKey
      BY DEF TypeInv, TypeOK, Cursor
    <2>3. files \in Seq(File) /\ files \in Seq(Item) /\ Refs(wiki, wiki.results) \in Seq(Item)
      <3>1. /\ scan.matched \in Seq(Item) /\ wiki.results \in Seq(Item)
            /\ <<>> \in Seq(Item) /\ <<>> \in Seq(File)
        BY <2>2, SeqMonotonic, EmptySeq DEF Item
      <3> QED
        BY <2>2, <3>1 DEF Refs
    <2>4. ToSet(files) \subseteq File
      <3>1. DOMAIN files = 1..Len(files) /\ \A i \in 1..Len(files) : files[i] \in File
        BY <2>3, LenProperties, ElementOfSeq
      <3> QED
        BY <3>1 DEF ToSet
    <2>5. merged \in Seq(Item) /\ ToSet(files) \subseteq ToSet(merged)
      <3> HIDE DEF files
      <3> QED
        BY <2>3, RoundRobinElements
    <2> HIDE DEF files, merged
    <2>6. fresh \in SUBSET (DOMAIN merged) /\ Limit \in Nat
      BY SearchAssumption DEF Unseen
    <2>7. /\ page \in Seq(Item) /\ IsInjective(page)
          /\ ToSet(page) \subseteq {merged[k] : k \in fresh}
          /\ Len(page) < Limit => \A k \in fresh : merged[k] \in ToSet(page)
      <3> HIDE DEF fresh
      <3>1. Taken(merged, picks) \in Seq(Item) /\ IsInjective(Taken(merged, picks))
        BY <2>5, <2>6, PicksTaken
      <3>2. ToSet(Taken(merged, picks)) \subseteq {merged[k] : k \in fresh}
        BY <2>5, <2>6, PicksTaken
      <3>3. Len(Taken(merged, picks)) < Limit =>
              \A k \in fresh : merged[k] \in ToSet(Taken(merged, picks))
        BY <2>5, <2>6, PicksTaken
      <3> QED
        BY <3>1, <3>2, <3>3
    <2> HIDE DEF results
    <2>8. \A f \in ToSet(page) : Hash(f) \notin ToSet(cursor.seen)
      BY <2>7 DEF Unseen
    <2>9. Hashes(page) \in Seq(Mark)
      <3>1. Hashes(page) \in Seq({key} \X Item)
        BY <2>7, HashesElements
      <3>2. {key} \X Item \subseteq Mark
        BY <2>2 DEF Mark
      <3> QED
        BY <3>1, <3>2, SeqMonotonic
    <2>10. /\ seen(picks) \in Seq(Mark)
           /\ ToSet(seen(picks)) = ToSet(cursor.seen) \cup ToSet(Hashes(page))
      BY <2>2, <2>9, ConcatElements
    <2>11. LastSeen(seen(picks)) \in Seq(Mark)
      <3> HIDE DEF seen
      <3> QED
        BY <2>10, LastSeenElements
    <2>12. \/ scan.at = "failed" /\ onward = NoCursor
           \/ scan.at = "done" /\ scan.exhausted /\ onward = NoCursor
           \/ /\ scan.at = "done" /\ scan.offset \in 0..MaxOffset
              /\ onward = [offset |-> scan.offset, seen |-> LastSeen(seen(picks))]
      <3>1. CASE scan.at = "failed"
        BY <3>1
      <3>2. CASE scan.at = "done" /\ scan.exhausted
        BY <3>2 DEF EndInv
      <3>3. CASE scan.at = "done" /\ ~scan.exhausted
        <4>1. /\ scan.next = [offset |-> scan.offset, seen |-> LastSeen(scan.seen)]
              /\ scan.offset \in 0..MaxOffset
          BY <3>3, <2>2, SearchAssumption DEF EndInv, TooFar
        <4>2. scan.next # NoCursor /\ scan.next.offset = scan.offset
          BY <4>1, <2>2 DEF NoCursor
        <4> QED
          BY <3>3, <4>1, <4>2
      <3> QED
        BY <1>1, <3>1, <3>2, <3>3 DEF Ended
    <2> HIDE DEF next
    <2>13. onward \in Cursor
      <3>1. NoCursor \in Cursor
        BY SearchAssumption, EmptySeq DEF Cursor, NoCursor
      <3>2. scan.offset \in 0..MaxOffset => scan.offset \in -1..MaxOffset
        BY SearchAssumption
      <3> DEFINE last == LastSeen(seen(picks))
      <3>3. last \in Seq(Mark)
        BY <2>11
      <3>4. \/ onward = NoCursor
            \/ scan.offset \in -1..MaxOffset /\ onward = [offset |-> scan.offset, seen |-> last]
        BY <2>12, <3>2
      <3> HIDE DEF last, onward
      <3> QED
        BY <3>1, <3>3, <3>4 DEF Cursor
    <2>14. /\ Answer(page, onward)
           /\ \/ onward = NoCursor
              \/ onward.offset \in 0..MaxOffset /\ onward.seen = LastSeen(cursor.seen \o Hashes(page))
      BY <2>1, <2>12
    <2>15. /\ cut' = IF Len(page) < Limit THEN cut
                     ELSE cut \cup {f \in ToSet(files) : Hash(f) \notin ToSet(seen(picks))}
           /\ reported' \in BOOLEAN /\ (scan.at = "failed" => reported')
      BY <2>1, <2>2 DEF Failed
    <2>16. cut \subseteq cut' /\ cut' \subseteq File
      BY <2>2, <2>4, <2>15
    <2>17. ASSUME NEW f \in ToSet(files)
           PROVE  Covered(f) \/ f \in ToSet(page) \cup cut'
      <3>1. PICK k \in DOMAIN merged : merged[k] = f
        BY <2>5 DEF ToSet
      <3>2. CASE Hash(f) \in ToSet(cursor.seen)
        BY <3>2, <1>1, RememberedShown
      <3>3. CASE Hash(f) \notin ToSet(cursor.seen) /\ Len(page) < Limit
        <4>1. k \in fresh
          BY <3>1, <3>3 DEF Unseen
        <4> QED
          BY <3>1, <3>3, <4>1, <2>7
      <3>4. CASE Hash(f) \notin ToSet(cursor.seen) /\ ~(Len(page) < Limit)
        <4>1. Hash(f) \in ToSet(Hashes(page)) => f \in ToSet(page)
          BY <2>7, HashesElements
        <4> QED
          BY <3>4, <4>1, <2>10, <2>15
      <3> QED
        BY <3>2, <3>3, <3>4
    <2>18. ASSUME NEW f \in steady \cap Matching
           PROVE  IF onward = NoCursor THEN reported' \/ Covered(f) \/ f \in ToSet(page) \cup cut'
                  ELSE f \in Behind(onward.offset) => Covered(f) \/ f \in ToSet(page) \cup cut'
      <3>1. CASE scan.at = "failed"
        BY <3>1, <2>12, <2>15
      <3>2. CASE scan.at = "done"
        <4>1. scan.exhausted \/ f \in Behind(scan.offset) => Covered(f) \/ f \in ToSet(scan.matched)
          BY <3>2 DEF CoverInv
        <4>2. ToSet(scan.matched) = ToSet(files)
          BY <3>2 DEF files, Refs
        <4>3. onward = NoCursor => scan.exhausted
          BY <3>2, <2>2, <2>12 DEF NoCursor
        <4>4. onward # NoCursor => onward.offset = scan.offset
          BY <3>2, <2>12
        <4> QED
          BY <4>1, <4>2, <4>3, <4>4, <2>17
      <3> QED
        BY <1>1, <3>1, <3>2 DEF Ended
    <2> HIDE DEF page, onward, fresh
    <2> QED
      BY <1>1, <2>7, <2>8, <2>13, <2>14, <2>15, <2>16, <2>18, Answer_Inv
  <1> QED
    BY <1>2, <1>3

-----------------------------------------------------------------------------
(* The world                                                               *)

\* A change of the file list that brings no steady file behind a cursor or a
\* scan leaves the rest as it was.
LEMMA Changed_Inv ==
  ASSUME SearchInv, UNCHANGED <<key, scan, kind, walk>>,
         listing' \in Seq(File), IsInjective(listing'),
         steady' \subseteq steady, steady' \subseteq ToSet(listing'),
         \A f \in steady', j \in DOMAIN listing' :
           listing'[j] = f => \E k \in DOMAIN listing : k <= j /\ listing[k] = f
  PROVE  SearchInv'
  <1> USE DEF SearchInv, walk
  <1>1. TypeInv'
    BY DEF TypeInv, TypeOK
  <1>2. DOMAIN listing = 1..Len(listing) /\ DOMAIN listing' = 1..Len(listing')
    BY <1>1, LenProperties DEF TypeInv, TypeOK
  <1>3. ASSUME NEW n \in Int, NEW f \in steady' \cap Matching, NEW j \in DOMAIN listing',
               j <= n, listing'[j] = f
        PROVE  f \in Behind(n)
    <2>1. PICK k \in DOMAIN listing : k <= j /\ listing[k] = f
      BY <1>3
    <2>2. k <= n
      BY <1>2, <1>3, <2>1
    <2> QED
      BY <1>3, <2>1, <2>2 DEF Behind
  <1>4. cursor.offset \in Int /\ scan.offset \in Int
    BY SearchAssumption DEF TypeInv, Cursor
  <1>5. Behind(cursor.offset)' \subseteq Behind(cursor.offset)
    BY <1>3, <1>4 DEF Behind
  <1>6. Behind(scan.offset)' \subseteq Behind(scan.offset)
    BY <1>3, <1>4 DEF Behind
  <1>7. CoverInv'
    BY <1>5, <1>6 DEF CoverInv, Covered
  <1>8. CallInv'
    <2>1. Remembered' = Remembered /\ Hashes(scan.matched)' = Hashes(scan.matched)
      BY DEF Remembered, Hashes, Hash
    <2>2. at = "call" => (\A f \in ToSet(scan.matched) : Hash(f) \notin ToSet(Remembered))'
      BY <2>1 DEF CallInv, Hash
    <2> QED
      BY <2>1, <2>2 DEF CallInv
  <1>9. CursorInv' /\ EndInv' /\ NoRepeat' /\ NoSkip'
    BY DEF CursorInv, EndInv, TooFar, NoRepeat, NoSkip
  <1> QED
    BY <1>1, <1>7, <1>8, <1>9

LEMMA Upload_Inv ==
  ASSUME SearchInv, Upload
  PROVE  SearchInv'
  <1>1. PICK f \in File \ ToSet(listing), i \in 1..(Len(listing) + 1) :
          listing' = InsertAt(listing, i, f)
    BY DEF Upload
  <1>2. listing \in Seq(File) /\ IsInjective(listing) /\ steady \subseteq ToSet(listing)
    BY DEF SearchInv, TypeInv, TypeOK
  <1>3. /\ listing' \in Seq(File) /\ IsInjective(listing')
        /\ ToSet(listing) \subseteq ToSet(listing')
        /\ \A j \in DOMAIN listing' :
             listing'[j] = f \/ \E k \in DOMAIN listing : k <= j /\ listing[k] = listing'[j]
    BY <1>1, <1>2, InsertElements
  <1>4. UNCHANGED <<key, scan, kind, walk, steady>>
    BY DEF Upload
  <1> QED
    BY <1>1, <1>2, <1>3, <1>4, Changed_Inv

\* A removal moves the files that follow it towards the beginning: they are not
\* steady any more.
LEMMA Delete_Inv ==
  ASSUME SearchInv, Delete
  PROVE  SearchInv'
  <1>1. PICK i \in DOMAIN listing :
          /\ listing' = RemoveAt(listing, i)
          /\ steady' = steady \cap {listing[j] : j \in 1..(i - 1)}
    BY DEF Delete
  <1>2. listing \in Seq(File) /\ IsInjective(listing)
    BY DEF SearchInv, TypeInv, TypeOK
  <1>3. /\ listing' \in Seq(File) /\ IsInjective(listing')
        /\ DOMAIN listing' = 1..(Len(listing) - 1)
        /\ \A k \in 1..(i - 1) : k \in DOMAIN listing' /\ listing'[k] = listing[k]
    BY <1>1, <1>2, RemoveElements
  <1>4. DOMAIN listing = 1..Len(listing) /\ Len(listing) \in Nat
    BY <1>2, LenProperties
  <1>5. steady' \subseteq steady /\ steady' \subseteq ToSet(listing')
    BY <1>1, <1>3 DEF ToSet
  <1>6. ASSUME NEW f \in steady', NEW j \in DOMAIN listing', listing'[j] = f
        PROVE  \E k \in DOMAIN listing : k <= j /\ listing[k] = f
    <2>1. PICK k \in 1..(i - 1) : listing[k] = f
      BY <1>1
    <2>2. k \in DOMAIN listing' /\ listing'[k] = f
      BY <1>3, <2>1
    <2>3. k = j
      BY <1>3, <1>6, <2>2 DEF IsInjective
    <2> QED
      BY <1>4, <2>1, <2>3
  <1>7. UNCHANGED <<key, scan, kind, walk>>
    BY DEF Delete
  <1> QED
    BY <1>3, <1>5, <1>6, <1>7, Changed_Inv

\* After a rotation, nothing in a cursor matches a hash; a call under way is lost.
LEMMA Rotate_Inv ==
  ASSUME SearchInv, Rotate
  PROVE  SearchInv'
  <1> USE DEF SearchInv
  <1>1. key' \in 0..MaxKey /\ UNCHANGED <<listing, kind, steady>>
    BY WalkAssumption DEF Rotate, TypeInv, TypeOK
  <1>2. CASE at = "call"
    BY <1>1, <1>2, Error_Inv DEF Rotate
  <1>3. CASE at # "call"
    <2>1. UNCHANGED <<scan, walk>>
      BY <1>3 DEF Rotate
    <2>2. scan = Idle /\ wiki = NoWiki
      BY <1>3 DEF CallInv
    <2>3. TypeInv'
      BY <1>1, <2>1 DEF TypeInv, TypeOK, walk
    <2>4. CallInv' /\ EndInv'
      BY <1>1, <1>3, <2>1, <2>2 DEF CallInv, EndInv, walk, Idle
    <2>5. CursorInv' /\ CoverInv' /\ NoRepeat' /\ NoSkip'
      BY <1>1, <2>1 DEF CursorInv, CoverInv, Behind, Covered, NoRepeat, NoSkip, walk
    <2> QED
      BY <2>3, <2>4, <2>5
  <1> QED
    BY <1>2, <1>3

LEMMA Unchanged_Inv ==
  ASSUME SearchInv, UNCHANGED vars
  PROVE  SearchInv'
  <1>1. ToSet(listing') = ToSet(listing)
    BY DEF vars
  <1>2. UNCHANGED <<key, scan, kind, walk, listing, steady>>
    BY DEF vars
  <1>3. listing \in Seq(File) /\ IsInjective(listing) /\ steady \subseteq ToSet(listing)
    BY DEF SearchInv, TypeInv, TypeOK
  <1>4. DOMAIN listing = 1..Len(listing)
    BY <1>3, LenProperties
  <1> QED
    BY <1>1, <1>2, <1>3, <1>4, Changed_Inv

\* SearchInv is inductive.
THEOREM SearchNext_Inv == SearchInv /\ [Next]_vars => SearchInv'
  <1> SUFFICES ASSUME SearchInv, [Next]_vars
               PROVE  SearchInv'
    OBVIOUS
  <1>1. CASE Search
    BY <1>1, Search_Inv
  <1>2. CASE Disk
    <2>1. /\ ScanPage \/ ScanEnds \/ ScanFails
          /\ UNCHANGED <<listing, key, kind, at, cursor, wiki, shown, reported, cut, steady>>
      BY <1>2 DEF Disk, ScanStep, walk
    <2> QED
      BY <2>1, ScanPage_Inv, ScanStops_Inv
  <1>3. CASE WikiAnswers
    BY <1>3, WikiAnswers_Inv
  <1>4. CASE DiskSearchReturns
    BY <1>4, DiskSearchReturns_Inv
  <1>5. CASE WorkspaceSearchReturns
    BY <1>5, WorkspaceSearchReturns_Inv
  <1>6. CASE Upload
    BY <1>6, Upload_Inv
  <1>7. CASE Delete
    BY <1>7, Delete_Inv
  <1>8. CASE Rotate
    BY <1>8, Rotate_Inv
  <1>9. CASE UNCHANGED vars
    BY <1>9, Unchanged_Inv
  <1> QED
    BY <1>1, <1>2, <1>3, <1>4, <1>5, <1>6, <1>7, <1>8, <1>9 DEF Next

\* A walk through search results keeps SearchInv.
THEOREM SearchInvariant == Spec => []SearchInv
  BY SearchInit_Inv, SearchNext_Inv, PTL DEF Spec

\* The cursors, the scans and what a client was shown have their types.
THEOREM SearchTypeCorrect == Spec => []TypeOK
  <1>1. SearchInv => TypeOK
    BY DEF SearchInv, TypeInv
  <1> QED
    BY <1>1, SearchInvariant, PTL

\* No page repeats what the last Window items shown under the same key contain,
\* whatever is uploaded, removed or rotated between two calls.
THEOREM SearchNoRepeat == Spec => []NoRepeat
  <1>1. SearchInv => NoRepeat
    BY DEF SearchInv
  <1> QED
    BY <1>1, SearchInvariant, PTL

\* A walk that ended without a reported failure has shown every matching file
\* that no removal moved, but those that a full page left out.
THEOREM SearchNoSkip == Spec => []NoSkip
  <1>1. SearchInv => NoSkip
    BY DEF SearchInv
  <1> QED
    BY <1>1, SearchInvariant, PTL

=============================================================================
