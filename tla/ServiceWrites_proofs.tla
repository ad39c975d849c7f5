------------------------ MODULE ServiceWrites_proofs ------------------------
(***************************************************************************)
(* Proofs about ServiceWrites, for any requests, items and grids.          *)
(*                                                                         *)
(* What a request may still do is its list of steps, so the invariant says *)
(* of that list which steps follow which: "close" after "open", "resolve"  *)
(* before "modify".  It holds of every plan and of every tail of a plan.   *)
(***************************************************************************)
EXTENDS ServiceWrites, Integers, TLAPS

Has(s, step) == \E i \in DOMAIN s : s[i] = step

Ordered(s) ==
  /\ \A i \in DOMAIN s : s[i] = "open" => \E j \in DOMAIN s : j > i /\ s[j] = "close"
  /\ \A i \in DOMAIN s : s[i] = "owner" => \E j \in DOMAIN s : j > i /\ s[j] = "resolve"
  /\ \A i, j \in DOMAIN s : s[i] = "modify" /\ s[j] \in {"resolve", "destination"} => j < i
  /\ \A i, j \in DOMAIN s : s[i] \in {"modify", "send"} /\ s[j] = "authorize" => j < i

\* A request q that may have seen the items "seen" inside, and holds a
\* descriptor or not.
RequestOK(q, seen, holds) ==
  /\ Ordered(q.todo)
  /\ q.op = None => q = Idle
  /\ Has(q.todo, "lock") \/ Has(q.todo, "owner") => q.grid \in Grid
  /\ q.named \/ Has(q.todo, "authorize")
  /\ q.op = "local" => q.item = None /\ q.destination = None /\ ~Has(q.todo, "owner")
  /\ q.item # None => Has(q.todo, "resolve") \/ q.item \in seen
  /\ q.destination # None => Has(q.todo, "destination") \/ q.destination \in seen
  /\ holds => Has(q.todo, "close")

\* The lock object of a grid outlives those who refer to it, and those who
\* share one are in line.
LockOK ==
  /\ \A r \in Request :
       req[r].lock # 0 => req[r].grid \in Grid /\ locks[req[r].grid] = req[r].lock
  /\ \A r, s \in Request :
       r # s /\ req[r].lock # 0 /\ req[r].lock = req[s].lock => r \in ahead[s] \/ s \in ahead[r]
  /\ \A r \in Request : Holding(r) => ahead[r] = {}

IndInv ==
  /\ TypeOK
  /\ \A r \in Request : RequestOK(req[r], was[r], r \in open)
  /\ \A r \in Request : req[r] # Idle => inside \subseteq was[r]
  /\ LockOK

-----------------------------------------------------------------------------
(* Lists of steps                                                          *)

LEMMA TailFacts ==
  ASSUME NEW s \in Seq(StepName), s # <<>>
  PROVE  /\ Head(s) \in StepName /\ Tail(s) \in Seq(StepName)
         /\ Len(Tail(s)) = Len(s) - 1
         /\ \A i \in DOMAIN Tail(s) : i + 1 \in DOMAIN s /\ Tail(s)[i] = s[i + 1]
         /\ \A i \in DOMAIN s : (i = 1 /\ s[i] = Head(s)) \/ i - 1 \in DOMAIN Tail(s)
  OBVIOUS

LEMMA TailHas ==
  ASSUME NEW s \in Seq(StepName), s # <<>>, NEW step
  PROVE  /\ Has(Tail(s), step) => Has(s, step)
         /\ Has(s, step) => Head(s) = step \/ Has(Tail(s), step)
<1>1. Has(Tail(s), step) => Has(s, step)
  BY TailFacts DEF Has
<1>2. ASSUME Has(s, step), Head(s) # step PROVE Has(Tail(s), step)
  <2>1. PICK i \in DOMAIN s : s[i] = step
    BY <1>2 DEF Has
  <2>2. i - 1 \in DOMAIN Tail(s) /\ i - 1 \in Nat
    BY <2>1, <1>2, TailFacts
  <2>3. Tail(s)[i - 1] = s[(i - 1) + 1] /\ (i - 1) + 1 = i
    BY <2>2, <2>1, TailFacts
  <2> QED BY <2>1, <2>2, <2>3 DEF Has
<1> QED BY <1>1, <1>2

LEMMA TailLater ==
  ASSUME NEW s \in Seq(StepName), s # <<>>, NEW a, NEW b,
         \A i \in DOMAIN s : s[i] = a => \E j \in DOMAIN s : j > i /\ s[j] = b
  PROVE  /\ \A i \in DOMAIN Tail(s) : Tail(s)[i] = a =>
              \E j \in DOMAIN Tail(s) : j > i /\ Tail(s)[j] = b
         /\ Head(s) = a => Has(Tail(s), b)
<1>1. ASSUME NEW i \in DOMAIN Tail(s), Tail(s)[i] = a
      PROVE  \E j \in DOMAIN Tail(s) : j > i /\ Tail(s)[j] = b
  <2>1. i + 1 \in DOMAIN s /\ s[i + 1] = a /\ i \in Nat
    BY <1>1, TailFacts
  <2>2. PICK j \in DOMAIN s : j > i + 1 /\ s[j] = b
    BY <2>1
  <2>3. j - 1 \in DOMAIN Tail(s) /\ j - 1 > i /\ (j - 1) + 1 = j
    BY <2>1, <2>2, TailFacts
  <2>4. Tail(s)[j - 1] = b
    BY <2>2, <2>3, TailFacts
  <2> QED BY <2>3, <2>4
<1>2. ASSUME Head(s) = a PROVE Has(Tail(s), b)
  <2>1. 1 \in DOMAIN s /\ s[1] = a
    BY <1>2
  <2>2. PICK j \in DOMAIN s : j > 1 /\ s[j] = b
    BY <2>1
  <2>3. j - 1 \in DOMAIN Tail(s) /\ (j - 1) + 1 = j
    BY <2>2, TailFacts
  <2>4. Tail(s)[j - 1] = b
    BY <2>2, <2>3, TailFacts
  <2> QED BY <2>3, <2>4 DEF Has
<1> QED BY <1>1, <1>2

LEMMA TailOrdered ==
  ASSUME NEW s \in Seq(StepName), s # <<>>, Ordered(s)
  PROVE  /\ Ordered(Tail(s))
         /\ Head(s) = "open" => Has(Tail(s), "close")
         /\ Head(s) = "owner" => Has(Tail(s), "resolve")
<1>1. ASSUME NEW i \in DOMAIN Tail(s), NEW j \in DOMAIN Tail(s),
             Tail(s)[i] = "modify", Tail(s)[j] \in {"resolve", "destination"}
      PROVE  j < i
  <2>1. /\ i + 1 \in DOMAIN s /\ j + 1 \in DOMAIN s
        /\ s[i + 1] = "modify" /\ s[j + 1] \in {"resolve", "destination"}
        /\ i \in Int /\ j \in Int
    BY <1>1, TailFacts
  <2>2. j + 1 < i + 1
    BY <2>1 DEF Ordered
  <2> QED BY <2>1, <2>2
<1>2. /\ \A i \in DOMAIN Tail(s) : Tail(s)[i] = "open" =>
            \E j \in DOMAIN Tail(s) : j > i /\ Tail(s)[j] = "close"
      /\ Head(s) = "open" => Has(Tail(s), "close")
  <2>1. \A i \in DOMAIN s : s[i] = "open" => \E j \in DOMAIN s : j > i /\ s[j] = "close"
    BY DEF Ordered
  <2> QED BY <2>1, TailLater
<1>3. /\ \A i \in DOMAIN Tail(s) : Tail(s)[i] = "owner" =>
            \E j \in DOMAIN Tail(s) : j > i /\ Tail(s)[j] = "resolve"
      /\ Head(s) = "owner" => Has(Tail(s), "resolve")
  <2>1. \A i \in DOMAIN s : s[i] = "owner" => \E j \in DOMAIN s : j > i /\ s[j] = "resolve"
    BY DEF Ordered
  <2> QED BY <2>1, TailLater
<1>4. ASSUME NEW i \in DOMAIN Tail(s), NEW j \in DOMAIN Tail(s),
             Tail(s)[i] \in {"modify", "send"}, Tail(s)[j] = "authorize"
      PROVE  j < i
  <2>1. /\ i + 1 \in DOMAIN s /\ j + 1 \in DOMAIN s
        /\ s[i + 1] \in {"modify", "send"} /\ s[j + 1] = "authorize"
        /\ i \in Int /\ j \in Int
    BY <1>4, TailFacts
  <2>2. j + 1 < i + 1
    BY <2>1 DEF Ordered
  <2> QED BY <2>1, <2>2
<1> QED BY <1>1, <1>2, <1>3, <1>4 DEF Ordered

\* At "modify" everything was resolved.
LEMMA ModifyLast ==
  ASSUME NEW s \in Seq(StepName), s # <<>>, Ordered(s), Head(s) = "modify"
  PROVE  ~Has(s, "resolve") /\ ~Has(s, "destination")
<1>1. 1 \in DOMAIN s /\ s[1] = "modify"
  OBVIOUS
<1>2. ASSUME NEW j \in DOMAIN s, s[j] \in {"resolve", "destination"} PROVE FALSE
  <2>1. j < 1
    BY <1>1, <1>2 DEF Ordered
  <2> QED BY <2>1
<1> QED BY <1>2 DEF Has

\* At "modify", and at "send", the paths in the request were checked.
LEMMA ChecksFirst ==
  ASSUME NEW s \in Seq(StepName), s # <<>>, Ordered(s), Head(s) \in {"modify", "send"}
  PROVE  ~Has(s, "authorize")
<1>1. 1 \in DOMAIN s /\ s[1] \in {"modify", "send"}
  OBVIOUS
<1>2. ASSUME NEW j \in DOMAIN s, s[j] = "authorize" PROVE FALSE
  <2>1. j < 1
    BY <1>1, <1>2 DEF Ordered
  <2> QED BY <2>1
<1> QED BY <1>2 DEF Has

-----------------------------------------------------------------------------
(* The plans                                                               *)

LEMMA PlanFacts ==
  /\ Plan["create"] = <<"authorize", "modify", "audit">>
  /\ Plan["page"] = <<"resolve", "modify", "audit">>
  /\ Plan["clone"] = <<"resolve", "authorize", "modify", "audit">>
  /\ Plan["grid"] = <<"lock", "owner", "resolve", "modify", "unlock", "audit">>
  /\ Plan["copy"] = <<"lock", "owner", "resolve", "destination", "modify", "unlock", "audit">>
  /\ Plan["attach"] = <<"resolve", "open", "send", "modify", "append", "close", "audit">>
  /\ Plan["disk"] = <<"authorize", "modify", "audit">>
  /\ Plan["local"] = <<"authorize", "open", "send", "close">>
  /\ Plan["rename"] = <<"authorize", "modify">>
  /\ Plan["publish"] = <<"authorize", "modify", "read">>
  /\ Plan["restore"] = <<"resolve", "authorize", "modify">>
  /\ Plan["empty"] = <<"authorize", "modify">>
  /\ DOMAIN Plan = {"create", "page", "clone", "grid", "copy", "attach", "disk", "local",
                    "rename", "publish", "restore", "empty"}
<1>1. /\ DOMAIN PagePlan = {"create", "page", "clone"} /\ DOMAIN GridPlan = {"grid", "copy"}
      /\ DOMAIN AttachmentPlan = {"attach"} /\ DOMAIN LoggedDiskPlan = {"disk"}
      /\ DOMAIN LocalFilePlan = {"local"} /\ DOMAIN PublishPlan = {"rename", "publish"}
      /\ DOMAIN TrashPlan = {"restore", "empty"}
  BY DEF PagePlan, GridPlan, AttachmentPlan, LoggedDiskPlan, LocalFilePlan, PublishPlan, TrashPlan
<1>2. /\ DOMAIN Plan = {"create", "page", "clone", "grid", "copy", "attach", "disk", "local",
                        "rename", "publish", "restore", "empty"}
      /\ \A op \in {"create", "page", "clone"} : Plan[op] = PagePlan[op]
      /\ \A op \in {"grid", "copy"} : Plan[op] = GridPlan[op]
      /\ Plan["attach"] = AttachmentPlan["attach"]
      /\ Plan["disk"] = LoggedDiskPlan["disk"]
      /\ Plan["local"] = LocalFilePlan["local"]
      /\ \A op \in {"rename", "publish"} : Plan[op] = PublishPlan[op]
      /\ \A op \in {"restore", "empty"} : Plan[op] = TrashPlan[op]
  BY <1>1 DEF Plan
<1> QED BY <1>2 DEF PagePlan, GridPlan, AttachmentPlan, LoggedDiskPlan, LocalFilePlan,
                     PublishPlan, TrashPlan

LEMMA PlanOK ==
  ASSUME NEW op \in Operation
  PROVE  /\ Plan[op] \in Seq(StepName) /\ Plan[op] # <<>> /\ Ordered(Plan[op])
         /\ Has(Plan[op], "lock") \/ Has(Plan[op], "owner") => op \in {"grid", "copy"}
         /\ op \in {"page", "clone", "attach", "restore"} => Has(Plan[op], "resolve")
         /\ op = "copy" => Has(Plan[op], "destination")
         /\ \A named \in Names(op) : named \/ Has(Plan[op], "authorize")
<1> DEFINE p == Plan[op]
           OK == /\ Ordered(p)
                 /\ Has(p, "lock") \/ Has(p, "owner") => op \in {"grid", "copy"}
                 /\ op \in {"page", "clone", "attach", "restore"} => Has(p, "resolve")
                 /\ op = "copy" => Has(p, "destination")
                 /\ op \notin {"page", "grid", "copy", "attach"} => Has(p, "authorize")
<1>1. op \in DOMAIN Plan
  BY WritesAssumption
<1>2. ASSUME op \in {"create", "disk"} PROVE p \in Seq(StepName) /\ p # <<>> /\ OK
  <2>1. p = <<"authorize", "modify", "audit">>
    BY <1>2, PlanFacts
  <2> HIDE DEF p
  <2>2. p \in Seq(StepName) /\ p # <<>>
    BY <2>1 DEF StepName
  <2>3. p[1] = "authorize" /\ p[2] = "modify" /\ p[3] = "audit"
    BY <2>1
  <2>4. DOMAIN p = {1, 2, 3}
    BY <2>1
  <2> QED BY <1>2, <2>2, <2>3, <2>4 DEF Ordered, Has
<1>3. ASSUME op = "page" PROVE p \in Seq(StepName) /\ p # <<>> /\ OK
  <2>1. p = <<"resolve", "modify", "audit">>
    BY <1>3, PlanFacts
  <2> HIDE DEF p
  <2>2. p \in Seq(StepName) /\ p # <<>>
    BY <2>1 DEF StepName
  <2>3. p[1] = "resolve" /\ p[2] = "modify" /\ p[3] = "audit"
    BY <2>1
  <2>4. DOMAIN p = {1, 2, 3}
    BY <2>1
  <2> QED BY <1>3, <2>2, <2>3, <2>4 DEF Ordered, Has
<1>4. ASSUME op = "clone" PROVE p \in Seq(StepName) /\ p # <<>> /\ OK
  <2>1. p = <<"resolve", "authorize", "modify", "audit">>
    BY <1>4, PlanFacts
  <2> HIDE DEF p
  <2>2. p \in Seq(StepName) /\ p # <<>>
    BY <2>1 DEF StepName
  <2>3. p[1] = "resolve" /\ p[2] = "authorize" /\ p[3] = "modify" /\ p[4] = "audit"
    BY <2>1
  <2>4. DOMAIN p = {1, 2, 3, 4}
    BY <2>1
  <2> QED BY <1>4, <2>2, <2>3, <2>4 DEF Ordered, Has
<1>5. ASSUME op = "grid" PROVE p \in Seq(StepName) /\ p # <<>> /\ OK
  <2>1. p = <<"lock", "owner", "resolve", "modify", "unlock", "audit">>
    BY <1>5, PlanFacts
  <2> HIDE DEF p
  <2>2. p \in Seq(StepName) /\ p # <<>>
    BY <2>1 DEF StepName
  <2>3. /\ p[1] = "lock" /\ p[2] = "owner" /\ p[3] = "resolve" /\ p[4] = "modify"
       /\ p[5] = "unlock" /\ p[6] = "audit"
    BY <2>1
  <2>4. DOMAIN p = {1, 2, 3, 4, 5, 6}
    BY <2>1
  <2> QED BY <1>5, <2>2, <2>3, <2>4 DEF Ordered, Has
<1>6. ASSUME op = "copy" PROVE p \in Seq(StepName) /\ p # <<>> /\ OK
  <2>1. p = <<"lock", "owner", "resolve", "destination", "modify", "unlock", "audit">>
    BY <1>6, PlanFacts
  <2> HIDE DEF p
  <2>2. p \in Seq(StepName) /\ p # <<>>
    BY <2>1 DEF StepName
  <2>3. /\ p[1] = "lock" /\ p[2] = "owner" /\ p[3] = "resolve" /\ p[4] = "destination"
       /\ p[5] = "modify" /\ p[6] = "unlock" /\ p[7] = "audit"
    BY <2>1
  <2>4. DOMAIN p = {1, 2, 3, 4, 5, 6, 7}
    BY <2>1
  <2> QED BY <1>6, <2>2, <2>3, <2>4 DEF Ordered, Has
<1>7. ASSUME op = "attach" PROVE p \in Seq(StepName) /\ p # <<>> /\ OK
  <2>1. p = <<"resolve", "open", "send", "modify", "append", "close", "audit">>
    BY <1>7, PlanFacts
  <2> HIDE DEF p
  <2>2. p \in Seq(StepName) /\ p # <<>>
    BY <2>1 DEF StepName
  <2>3. /\ p[1] = "resolve" /\ p[2] = "open" /\ p[3] = "send" /\ p[4] = "modify"
       /\ p[5] = "append" /\ p[6] = "close" /\ p[7] = "audit"
    BY <2>1
  <2>4. DOMAIN p = {1, 2, 3, 4, 5, 6, 7}
    BY <2>1
  <2> QED BY <1>7, <2>2, <2>3, <2>4 DEF Ordered, Has
<1>8. ASSUME op = "local" PROVE p \in Seq(StepName) /\ p # <<>> /\ OK
  <2>1. p = <<"authorize", "open", "send", "close">>
    BY <1>8, PlanFacts
  <2> HIDE DEF p
  <2>2. p \in Seq(StepName) /\ p # <<>>
    BY <2>1 DEF StepName
  <2>3. p[1] = "authorize" /\ p[2] = "open" /\ p[3] = "send" /\ p[4] = "close"
    BY <2>1
  <2>4. DOMAIN p = {1, 2, 3, 4}
    BY <2>1
  <2> QED BY <1>8, <2>2, <2>3, <2>4 DEF Ordered, Has
<1>9. ASSUME op \in {"rename", "empty"} PROVE p \in Seq(StepName) /\ p # <<>> /\ OK
  <2>1. p = <<"authorize", "modify">>
    BY <1>9, PlanFacts
  <2> HIDE DEF p
  <2>2. p \in Seq(StepName) /\ p # <<>>
    BY <2>1 DEF StepName
  <2>3. p[1] = "authorize" /\ p[2] = "modify"
    BY <2>1
  <2>4. DOMAIN p = {1, 2}
    BY <2>1
  <2> QED BY <1>9, <2>2, <2>3, <2>4 DEF Ordered, Has
<1>10. ASSUME op = "publish" PROVE p \in Seq(StepName) /\ p # <<>> /\ OK
  <2>1. p = <<"authorize", "modify", "read">>
    BY <1>10, PlanFacts
  <2> HIDE DEF p
  <2>2. p \in Seq(StepName) /\ p # <<>>
    BY <2>1 DEF StepName
  <2>3. p[1] = "authorize" /\ p[2] = "modify" /\ p[3] = "read"
    BY <2>1
  <2>4. DOMAIN p = {1, 2, 3}
    BY <2>1
  <2> QED BY <1>10, <2>2, <2>3, <2>4 DEF Ordered, Has
<1>11. ASSUME op = "restore" PROVE p \in Seq(StepName) /\ p # <<>> /\ OK
  <2>1. p = <<"resolve", "authorize", "modify">>
    BY <1>11, PlanFacts
  <2> HIDE DEF p
  <2>2. p \in Seq(StepName) /\ p # <<>>
    BY <2>1 DEF StepName
  <2>3. p[1] = "resolve" /\ p[2] = "authorize" /\ p[3] = "modify"
    BY <2>1
  <2>4. DOMAIN p = {1, 2, 3}
    BY <2>1
  <2> QED BY <1>11, <2>2, <2>3, <2>4 DEF Ordered, Has
<1> HIDE DEF p, OK
<1>12. p \in Seq(StepName) /\ p # <<>> /\ OK
  BY <1>1, <1>2, <1>3, <1>4, <1>5, <1>6, <1>7, <1>8, <1>9, <1>10, <1>11, PlanFacts
<1>13. \A named \in Names(op) : named \/ Has(p, "authorize")
  BY <1>1, <1>12, PlanFacts DEF OK, Names
<1> QED BY <1>12, <1>13 DEF p, OK

-----------------------------------------------------------------------------
(* One request                                                             *)

LEMMA AdvanceOK ==
  ASSUME NEW q \in RequestType, q.todo # <<>>, NEW seen,
         NEW r, NEW before, NEW after, RequestOK(q, seen, r \in before),
         Head(q.todo) = "authorize" => q.named,
         Head(q.todo) = "resolve" => q.item \in seen,
         Head(q.todo) = "destination" => q.destination \in seen,
         r \in after => Head(q.todo) # "close" /\ (r \in before \/ Head(q.todo) = "open")
  PROVE  RequestOK([q EXCEPT !.todo = Tail(@)], seen, r \in after)
<1> DEFINE n == [q EXCEPT !.todo = Tail(@)]
<1>1. /\ n.todo = Tail(q.todo) /\ n.op = q.op /\ n.item = q.item /\ n.destination = q.destination
      /\ n.named = q.named /\ n.grid = q.grid /\ q.todo \in Seq(StepName)
  BY DEF RequestType
<1>2. q.op # None
  BY DEF RequestOK, Idle
<1>3. \A step : /\ Has(n.todo, step) => Has(q.todo, step)
                /\ Has(q.todo, step) => Head(q.todo) = step \/ Has(n.todo, step)
  BY <1>1, TailHas
<1>4. Ordered(n.todo) /\ (Head(q.todo) = "open" => Has(n.todo, "close"))
  BY <1>1, TailOrdered DEF RequestOK
<1> HIDE DEF n
<1>5. RequestOK(n, seen, r \in after)
  BY <1>1, <1>2, <1>3, <1>4 DEF RequestOK
<1> QED BY <1>5 DEF n

LEMMA OwnerOK ==
  ASSUME NEW q \in RequestType, q.todo # <<>>, NEW seen, NEW r, NEW before, NEW item,
         RequestOK(q, seen, r \in before), Head(q.todo) = "owner"
  PROVE  RequestOK([q EXCEPT !.todo = Tail(@), !.item = item], seen, r \in before)
<1> DEFINE n == [q EXCEPT !.todo = Tail(@), !.item = item]
<1>1. /\ n.todo = Tail(q.todo) /\ n.op = q.op /\ n.destination = q.destination
      /\ n.named = q.named /\ n.grid = q.grid /\ q.todo \in Seq(StepName)
  BY DEF RequestType
<1>2. q.op # None
  BY DEF RequestOK, Idle
<1>3. \A step : /\ Has(n.todo, step) => Has(q.todo, step)
                /\ Has(q.todo, step) => Head(q.todo) = step \/ Has(n.todo, step)
  BY <1>1, TailHas
<1>4. Ordered(n.todo) /\ Has(n.todo, "resolve")
  BY <1>1, TailOrdered DEF RequestOK
<1>5. Has(q.todo, "owner")
  BY <1>1 DEF Has
<1> HIDE DEF n
<1>6. RequestOK(n, seen, r \in before)
  BY <1>1, <1>2, <1>3, <1>4, <1>5 DEF RequestOK
<1> QED BY <1>6 DEF n

LEMMA IdleOK ==
  ASSUME NEW seen
  PROVE  RequestOK(Idle, seen, FALSE) /\ Idle \in RequestType
BY DEF RequestOK, Idle, RequestType, Ordered, Has

\* Seeing more and holding the same does not disturb.
LEMMA SeenMore ==
  ASSUME NEW q, NEW seen, NEW more, seen \subseteq more, NEW holds \in BOOLEAN,
         RequestOK(q, seen, holds)
  PROVE  RequestOK(q, more, holds)
BY DEF RequestOK

-----------------------------------------------------------------------------
(* The locks                                                               *)

\* A step that moves a request on and leaves the locks alone.
LEMMA AdvanceLock ==
  ASSUME LockOK, NEW r \in Request, UNCHANGED <<locks, ahead>>,
         \A s \in Request : req'[s].lock = req[s].lock /\ req'[s].grid = req[s].grid,
         \A s \in Request : s # r => req'[s] = req[s],
         At(r, "lock") => ahead[r] = {}
  PROVE  LockOK'
BY DEF LockOK, Holding, At

LEMMA LeavesLock ==
  ASSUME TypeOK, LockOK, NEW r \in Request, Leaves(r), req'[r].lock = 0,
         \A s \in Request : s # r => req'[s] = req[s]
  PROVE  LockOK' /\ locks' \in [Grid -> Lock \cup {0}] /\ ahead' \in [Request -> SUBSET Request]
<1>1. locks' \in [Grid -> Lock \cup {0}] /\ ahead' \in [Request -> SUBSET Request]
  BY DEF TypeOK, Leaves, WeakTable
<1>2. ASSUME NEW s \in Request, req'[s].lock # 0
      PROVE  /\ req'[s].grid \in Grid /\ locks'[req'[s].grid] = req'[s].lock
             /\ s # r /\ req[s].lock # 0
  <2>1. s # r /\ req'[s] = req[s]
    BY <1>2
  <2>2. req[s].grid \in Grid /\ locks[req[s].grid] = req[s].lock
    BY <1>2, <2>1 DEF LockOK
  <2> QED BY <1>2, <2>1, <2>2 DEF Leaves, WeakTable, Referred
<1>3. ASSUME NEW s \in Request, NEW u \in Request, s # u, req'[s].lock # 0,
             req'[s].lock = req'[u].lock
      PROVE  s \in ahead'[u] \/ u \in ahead'[s]
  <2>1. /\ s # r /\ u # r /\ req'[s] = req[s] /\ req'[u] = req[u]
    BY <1>3
  <2>2. s \in ahead[u] \/ u \in ahead[s]
    BY <1>3, <2>1 DEF LockOK
  <2> QED BY <2>1, <2>2 DEF Leaves
<1>4. ASSUME NEW s \in Request, Holding(s)' PROVE ahead'[s] = {}
  <2>1. s # r /\ req'[s] = req[s]
    BY <1>4 DEF Holding
  <2>2. Holding(s)
    BY <1>4, <2>1 DEF Holding, At
  <2> QED BY <2>1, <2>2 DEF LockOK, Leaves
<1> QED BY <1>1, <1>2, <1>3, <1>4 DEF LockOK

-----------------------------------------------------------------------------
(* The steps                                                               *)

\* A step of one request r, which becomes q.
LEMMA OneRequest ==
  ASSUME IndInv, NEW r \in Request, NEW q \in RequestType, req' = [req EXCEPT ![r] = q],
         inside' = inside, was' \in [Request -> SUBSET Item],
         \A s \in Request : s # r => was'[s] = was[s] /\ (s \in open' <=> s \in open),
         open' \subseteq Request, applied' \subseteq Request, logged' \subseteq Request,
         RequestOK(q, was'[r], r \in open'), q # Idle => inside \subseteq was'[r],
         LockOK', locks' \in [Grid -> Lock \cup {0}], ahead' \in [Request -> SUBSET Request]
  PROVE  IndInv'
<1>1. TypeOK'
  BY DEF IndInv, TypeOK
<1>2. req'[r] = q /\ \A s \in Request : s # r => req'[s] = req[s]
  BY DEF IndInv, TypeOK
<1>3. ASSUME NEW s \in Request PROVE RequestOK(req'[s], was'[s], s \in open')
  <2>1. CASE s = r
    BY <2>1, <1>2
  <2>2. CASE s # r
    <3>1. RequestOK(req[s], was[s], s \in open)
      BY DEF IndInv
    <3>2. req'[s] = req[s] /\ was'[s] = was[s] /\ (s \in open') = (s \in open)
      BY <2>2, <1>2
    <3> QED BY <3>1, <3>2
  <2> QED BY <2>1, <2>2
<1>4. ASSUME NEW s \in Request, req'[s] # Idle PROVE inside' \subseteq was'[s]
  BY <1>4, <1>2 DEF IndInv
<1> QED BY <1>1, <1>3, <1>4 DEF IndInv

\* A step taken off the list.
LEMMA MovesOn ==
  ASSUME IndInv, NEW r \in Request, req[r].todo # <<>>, Advance(r),
         UNCHANGED <<inside, locks, ahead, was>>,
         At(r, "lock") => ahead[r] = {},
         At(r, "authorize") => req[r].named,
         At(r, "resolve") => Allowed(req[r].item),
         At(r, "destination") => Allowed(req[r].destination),
         open' \subseteq Request, applied' \subseteq Request, logged' \subseteq Request,
         \A s \in Request : s # r => (s \in open' <=> s \in open),
         r \in open' => ~At(r, "close") /\ (r \in open \/ At(r, "open"))
  PROVE  IndInv'
<1> DEFINE q == [req[r] EXCEPT !.todo = Tail(@)]
<1>1. req[r] \in RequestType /\ req \in [Request -> RequestType] /\ was' = was
  BY DEF IndInv, TypeOK
<1>2. q \in RequestType /\ req[r].todo \in Seq(StepName)
  BY <1>1, TailFacts DEF RequestType
<1>3. req' = [req EXCEPT ![r] = q]
  BY <1>1 DEF Advance
<1>4. req[r] # Idle /\ inside \subseteq was[r]
  BY DEF IndInv, Idle
<1>5. RequestOK(q, was[r], r \in open')
  <2>1. RequestOK(req[r], was[r], r \in open)
    BY DEF IndInv
  <2>2. /\ Head(req[r].todo) = "authorize" => req[r].named
        /\ Head(req[r].todo) = "resolve" => req[r].item \in was[r]
        /\ Head(req[r].todo) = "destination" => req[r].destination \in was[r]
        /\ r \in open' => Head(req[r].todo) # "close"
                          /\ (r \in open \/ Head(req[r].todo) = "open")
    BY <1>4 DEF At, Allowed
  <2> QED BY <1>1, <2>1, <2>2, AdvanceOK
<1>6. LockOK'
  <2>1. \A s \in Request : /\ req'[s].lock = req[s].lock /\ req'[s].grid = req[s].grid
                           /\ s # r => req'[s] = req[s]
    BY <1>1, <1>3 DEF RequestType
  <2>2. LockOK
    BY DEF IndInv
  <2> QED BY <2>1, <2>2, AdvanceLock
<1>7. /\ locks' \in [Grid -> Lock \cup {0}] /\ ahead' \in [Request -> SUBSET Request]
      /\ was' \in [Request -> SUBSET Item]
  BY DEF IndInv, TypeOK
<1> HIDE DEF q
<1> QED BY <1>1, <1>2, <1>3, <1>4, <1>5, <1>6, <1>7, OneRequest

\* A request that ends.
LEMMA Finishes ==
  ASSUME IndInv, NEW r \in Request, req' = [req EXCEPT ![r] = Idle], open' = open \ {r},
         UNCHANGED <<inside, was>>, applied' \subseteq Request, logged' \subseteq Request,
         LockOK', locks' \in [Grid -> Lock \cup {0}], ahead' \in [Request -> SUBSET Request]
  PROVE  IndInv'
<1>1. was \in [Request -> SUBSET Item] /\ open \subseteq Request
  BY DEF IndInv, TypeOK
<1>2. RequestOK(Idle, was'[r], r \in open') /\ Idle \in RequestType
  <2>1. (r \in open') = FALSE
    OBVIOUS
  <2> QED BY <2>1, IdleOK
<1> QED BY <1>1, <1>2, OneRequest

LEMMA EndStep ==
  ASSUME IndInv, NEW r \in Request, End(r), UNCHANGED <<inside, was>>,
         applied' \subseteq Request, logged' \subseteq Request
  PROVE  IndInv'
<1>1. /\ req'[r].lock = 0 /\ \A s \in Request : s # r => req'[s] = req[s]
      /\ TypeOK /\ LockOK /\ Leaves(r) /\ open' = open \ {r}
  BY DEF IndInv, TypeOK, End, Idle
<1>2. LockOK' /\ locks' \in [Grid -> Lock \cup {0}] /\ ahead' \in [Request -> SUBSET Request]
  BY <1>1, LeavesLock
<1> QED BY <1>1, <1>2, Finishes DEF End

LEMMA EnqueueStep ==
  ASSUME IndInv, NEW r \in Request, Enqueue(r)
  PROVE  IndInv'
<1> DEFINE g == req[r].grid
<1>1. PICK l \in Lock :
        /\ IF locks[g] # 0 THEN l = locks[g] ELSE \A s \in Request : req[s].lock # l
        /\ locks' = [locks EXCEPT ![g] = l]
        /\ ahead' = [ahead EXCEPT ![r] = {s \in Request : req[s].lock = l}]
        /\ req' = [req EXCEPT ![r].lock = l]
  BY DEF Enqueue
<1> DEFINE q == [req[r] EXCEPT !.lock = l]
<1>2. /\ At(r, "lock") /\ req[r].lock = 0
      /\ UNCHANGED <<inside, open, was, applied, logged>>
  BY DEF Enqueue
<1>3. TypeOK /\ LockOK /\ req[r] \in RequestType /\ req[r] # Idle
  BY <1>2 DEF IndInv, TypeOK, At, Idle
<1>4. /\ q \in RequestType /\ req' = [req EXCEPT ![r] = q] /\ q.lock = l
      /\ q.grid = g /\ q.todo = req[r].todo
  BY <1>1, <1>3 DEF RequestType, TypeOK
<1>5. RequestOK(req[r], was[r], r \in open) /\ inside \subseteq was[r]
  BY <1>3 DEF IndInv
<1>6. g \in Grid
  <2>1. Has(req[r].todo, "lock")
    BY <1>2, <1>3 DEF At, Has, RequestType
  <2> QED BY <2>1, <1>5 DEF RequestOK
<1>7. q # Idle /\ RequestOK(q, was[r], r \in open)
  <2>1. /\ q.op = req[r].op /\ q.item = req[r].item /\ q.destination = req[r].destination
        /\ q.named = req[r].named /\ req[r].op # None
    BY <1>3, <1>5 DEF RequestType, RequestOK
  <2>2. q # Idle
    BY <1>2, <1>4 DEF At, Idle
  <2> HIDE DEF q
  <2> QED BY <2>1, <2>2, <1>4, <1>5, <1>6 DEF RequestOK
<1>8. /\ locks' \in [Grid -> Lock \cup {0}] /\ ahead' \in [Request -> SUBSET Request]
      /\ locks'[g] = l /\ \A h \in Grid : h # g => locks'[h] = locks[h]
      /\ ahead'[r] = {s \in Request : req[s].lock = l}
      /\ \A s \in Request : s # r => ahead'[s] = ahead[s] /\ req'[s] = req[s]
      /\ req'[r] = q /\ l # 0
  BY <1>1, <1>3, <1>4, <1>6 DEF TypeOK, Lock
<1> HIDE DEF q
<1>9. LockOK'
  <2>1. ASSUME NEW s \in Request, req'[s].lock # 0
        PROVE  req'[s].grid \in Grid /\ locks'[req'[s].grid] = req'[s].lock
    <3>1. CASE s = r
      BY <3>1, <1>4, <1>6, <1>8
    <3>2. CASE s # r
      <4>1. req[s].lock # 0 /\ req[s].grid \in Grid /\ locks[req[s].grid] = req[s].lock
        BY <3>2, <2>1, <1>3, <1>8 DEF LockOK
      <4> QED BY <4>1, <3>2, <1>1, <1>8
    <3> QED BY <3>1, <3>2
  <2>2. ASSUME NEW s \in Request, NEW u \in Request, s # u, req'[s].lock # 0,
               req'[s].lock = req'[u].lock
        PROVE  s \in ahead'[u] \/ u \in ahead'[s]
    <3>1. CASE s # r /\ u # r
      BY <3>1, <2>2, <1>3, <1>8 DEF LockOK
    <3>2. CASE s = r \/ u = r
      BY <3>2, <2>2, <1>4, <1>8
    <3> QED BY <3>1, <3>2
  <2>3. ASSUME NEW s \in Request, Holding(s)' PROVE ahead'[s] = {}
    <3>1. s # r
      BY <2>3, <1>2, <1>4, <1>8 DEF Holding, At
    <3>2. Holding(s)
      BY <2>3, <3>1, <1>8 DEF Holding, At
    <3> QED BY <3>1, <3>2, <1>3, <1>8 DEF LockOK
  <2> QED BY <2>1, <2>2, <2>3 DEF LockOK
<1>10. /\ was' \in [Request -> SUBSET Item] /\ RequestOK(q, was'[r], r \in open')
       /\ open' \subseteq Request /\ applied' \subseteq Request /\ logged' \subseteq Request
  BY <1>2, <1>3, <1>7 DEF TypeOK
<1> QED BY <1>2, <1>4, <1>5, <1>8, <1>9, <1>10, OneRequest

LEMMA UnlockStep ==
  ASSUME IndInv, NEW r \in Request, Unlock(r)
  PROVE  IndInv'
<1> DEFINE q == [req[r] EXCEPT !.todo = Tail(@), !.lock = 0]
           m == [req[r] EXCEPT !.todo = Tail(@)]
<1>1. /\ req' = [req EXCEPT ![r].todo = Tail(@), ![r].lock = 0] /\ Leaves(r) /\ At(r, "unlock")
      /\ UNCHANGED <<inside, open, was, applied, logged>>
  BY DEF Unlock
<1>2. /\ TypeOK /\ LockOK /\ req[r] \in RequestType /\ req[r] # Idle /\ req[r].todo # <<>>
      /\ RequestOK(req[r], was[r], r \in open) /\ inside \subseteq was[r]
  BY <1>1 DEF IndInv, TypeOK, At, Idle
<1>3. q \in RequestType /\ req' = [req EXCEPT ![r] = q]
  BY <1>1, <1>2, TailFacts DEF RequestType, TypeOK
<1>4. RequestOK(q, was[r], r \in open)
  <2>1. RequestOK(m, was[r], r \in open)
    BY <1>1, <1>2, AdvanceOK DEF At
  <2>2. /\ m.todo = q.todo /\ m.op = q.op /\ m.item = q.item /\ m.destination = q.destination
        /\ m.grid = q.grid /\ m.named = q.named /\ m.op # None
    BY <1>2 DEF RequestType, RequestOK
  <2> HIDE DEF q, m
  <2> QED BY <2>1, <2>2 DEF RequestOK
<1>5. /\ req'[r].lock = 0 /\ \A s \in Request : s # r => req'[s] = req[s]
  BY <1>1, <1>2, <1>3 DEF TypeOK, RequestType
<1>6. LockOK' /\ locks' \in [Grid -> Lock \cup {0}] /\ ahead' \in [Request -> SUBSET Request]
  BY <1>1, <1>2, <1>5, LeavesLock
<1> HIDE DEF q, m
<1>7. /\ was' \in [Request -> SUBSET Item] /\ RequestOK(q, was'[r], r \in open')
      /\ open' \subseteq Request /\ applied' \subseteq Request /\ logged' \subseteq Request
  BY <1>1, <1>2, <1>4 DEF TypeOK
<1> QED BY <1>1, <1>2, <1>3, <1>6, <1>7, OneRequest

LEMMA OwnerStep ==
  ASSUME IndInv, NEW r \in Request, ReadOwner(r)
  PROVE  IndInv'
<1> DEFINE q == [req[r] EXCEPT !.todo = Tail(@), !.item = Owner[req[r].grid]]
<1>1. /\ req' = [req EXCEPT ![r].todo = Tail(@), ![r].item = Owner[req[r].grid]]
      /\ At(r, "owner") /\ UNCHANGED <<inside, locks, ahead, open, was, applied, logged>>
  BY DEF ReadOwner
<1>2. /\ TypeOK /\ LockOK /\ req[r] \in RequestType /\ req[r] # Idle /\ req[r].todo # <<>>
      /\ RequestOK(req[r], was[r], r \in open) /\ inside \subseteq was[r]
  BY <1>1 DEF IndInv, TypeOK, At, Idle
<1>3. req[r].grid \in Grid
  <2>1. Has(req[r].todo, "owner")
    BY <1>1, <1>2 DEF At, Has, RequestType
  <2> QED BY <2>1, <1>2 DEF RequestOK
<1>4. q \in RequestType /\ req' = [req EXCEPT ![r] = q]
  <2>1. Owner[req[r].grid] \in Item /\ Tail(req[r].todo) \in Seq(StepName)
    BY <1>2, <1>3, WritesAssumption, TailFacts DEF RequestType
  <2> QED BY <1>1, <1>2, <2>1 DEF RequestType, TypeOK
<1>5. RequestOK(q, was[r], r \in open)
  BY <1>1, <1>2, OwnerOK DEF At
<1>6. \A s \in Request : /\ req'[s].lock = req[s].lock /\ req'[s].grid = req[s].grid
                         /\ s # r => req'[s] = req[s]
  BY <1>1, <1>2, <1>4 DEF TypeOK, RequestType
<1>7. LockOK'
  BY <1>1, <1>2, <1>6, AdvanceLock DEF At
<1> HIDE DEF q
<1>8. /\ was' \in [Request -> SUBSET Item] /\ RequestOK(q, was'[r], r \in open')
      /\ open' \subseteq Request /\ applied' \subseteq Request /\ logged' \subseteq Request
      /\ locks' \in [Grid -> Lock \cup {0}] /\ ahead' \in [Request -> SUBSET Request]
  BY <1>1, <1>2, <1>5 DEF TypeOK
<1> QED BY <1>1, <1>2, <1>4, <1>7, <1>8, OneRequest

\* A new request has the plan of its operation before it.
LEMMA BeginStep ==
  ASSUME IndInv, NEW r \in Request, NEW q \in RequestType, Begin(r, q), q.op \in Operation,
         q.todo = Plan[q.op], q.lock = 0, q.op \in {"grid", "copy"} => q.grid \in Grid,
         q.item # None => q.op \in {"page", "clone", "attach", "restore"},
         q.destination # None => q.op = "copy", q.named \in Names(q.op)
  PROVE  IndInv'
<1>1. /\ req[r] = Idle /\ req' = [req EXCEPT ![r] = q] /\ was' = [was EXCEPT ![r] = inside]
      /\ UNCHANGED <<inside, locks, ahead, open>>
      /\ applied' = applied \ {r} /\ logged' = logged \ {r}
  BY DEF Begin
<1>2. TypeOK /\ LockOK /\ RequestOK(req[r], was[r], r \in open)
  BY DEF IndInv
<1>3. r \notin open
  BY <1>1, <1>2 DEF RequestOK, Idle, Has
<1>4. RequestOK(q, inside, r \in open)
  <2>1. q.op # None
    BY WritesAssumption
  <2> QED BY <2>1, <1>3, PlanOK DEF RequestOK
<1>5. LockOK'
  <2>1. req[r].lock = 0 /\ req'[r].lock = 0
    BY <1>1, <1>2 DEF Idle, TypeOK
  <2>2. \A s \in Request : s # r => req'[s] = req[s]
    BY <1>1, <1>2 DEF TypeOK
  <2> QED BY <1>1, <1>2, <2>1, <2>2 DEF LockOK, Holding, At
<1>6. /\ was' \in [Request -> SUBSET Item] /\ was'[r] = inside
      /\ \A s \in Request : s # r => was'[s] = was[s]
      /\ open' \subseteq Request /\ applied' \subseteq Request /\ logged' \subseteq Request
      /\ locks' \in [Grid -> Lock \cup {0}] /\ ahead' \in [Request -> SUBSET Request]
  BY <1>1, <1>2 DEF TypeOK
<1>7. RequestOK(q, was'[r], r \in open')
  BY <1>1, <1>4, <1>6
<1> QED BY <1>1, <1>5, <1>6, <1>7, OneRequest

LEMMA MoveStep ==
  ASSUME IndInv, Move
  PROVE  IndInv'
<1>1. /\ inside' \subseteq Item /\ UNCHANGED <<req, locks, ahead, open, applied, logged>>
      /\ was' = [r \in Request |-> IF req[r] = Idle THEN {} ELSE was[r] \cup inside']
  BY DEF Move, IndInv, TypeOK
<1>2. TypeOK'
  BY <1>1 DEF IndInv, TypeOK
<1>3. ASSUME NEW r \in Request PROVE RequestOK(req[r], was'[r], r \in open)
  <2>1. RequestOK(req[r], was[r], r \in open)
    BY DEF IndInv
  <2>2. CASE req[r] = Idle
    BY <2>1, <2>2 DEF RequestOK, Idle
  <2>3. CASE req[r] # Idle
    BY <2>1, <2>3, <1>1 DEF RequestOK
  <2> QED BY <2>2, <2>3
<1>4. ASSUME NEW r \in Request, req[r] # Idle PROVE inside' \subseteq was'[r]
  BY <1>1, <1>4
<1>5. LockOK'
  BY <1>1 DEF IndInv, LockOK, Holding, At
<1> QED BY <1>1, <1>2, <1>3, <1>4, <1>5 DEF IndInv

LEMMA ToolStep ==
  ASSUME IndInv, NEW r \in Request, WikiTool(r) \/ DiskTool(r)
  PROVE  IndInv'
<1>1. CASE WikiTool(r)
  <2>1. PICK op \in Operation \cap {"create", "page", "clone", "grid", "copy", "attach"},
             i \in Item, d \in Item, g \in Grid : \E named \in Names(op) :
          Begin(r, [Idle EXCEPT !.op = op, !.todo = Plan[op], !.named = named,
                       !.item = IF op \in {"page", "clone", "attach"} THEN i ELSE None,
                       !.destination = IF op = "copy" THEN d ELSE None,
                       !.grid = IF op \in {"grid", "copy"} THEN g ELSE None])
    BY <1>1 DEF WikiTool
  <2>2. PICK named \in Names(op) :
          Begin(r, [Idle EXCEPT !.op = op, !.todo = Plan[op], !.named = named,
                       !.item = IF op \in {"page", "clone", "attach"} THEN i ELSE None,
                       !.destination = IF op = "copy" THEN d ELSE None,
                       !.grid = IF op \in {"grid", "copy"} THEN g ELSE None])
    BY <2>1
  <2> DEFINE q == [Idle EXCEPT !.op = op, !.todo = Plan[op], !.named = named,
                       !.item = IF op \in {"page", "clone", "attach"} THEN i ELSE None,
                       !.destination = IF op = "copy" THEN d ELSE None,
                       !.grid = IF op \in {"grid", "copy"} THEN g ELSE None]
  <2>3. named \in BOOLEAN
    BY <2>2 DEF Names
  <2>4. /\ q \in RequestType /\ q.op = op /\ q.todo = Plan[op] /\ q.lock = 0
        /\ op \in {"grid", "copy"} => q.grid \in Grid
        /\ q.item # None => op \in {"page", "clone", "attach"}
        /\ q.destination # None => op = "copy"
        /\ q.named \in Names(op)
    BY <2>3, PlanOK DEF Idle, RequestType
  <2>5. Begin(r, q)
    BY <2>2
  <2> HIDE DEF q
  <2> QED BY <2>4, <2>5, BeginStep
<1>2. CASE DiskTool(r)
  <2>1. PICK op \in Operation \cap {"disk", "local", "rename", "publish", "restore", "empty"},
             i \in Item : \E named \in Names(op) :
          Begin(r, [Idle EXCEPT !.op = op, !.todo = Plan[op], !.named = named,
                                !.item = IF op = "restore" THEN i ELSE None])
    BY <1>2 DEF DiskTool
  <2>2. PICK named \in Names(op) :
          Begin(r, [Idle EXCEPT !.op = op, !.todo = Plan[op], !.named = named,
                                !.item = IF op = "restore" THEN i ELSE None])
    BY <2>1
  <2> DEFINE q == [Idle EXCEPT !.op = op, !.todo = Plan[op], !.named = named,
                               !.item = IF op = "restore" THEN i ELSE None]
  <2>3. named \in BOOLEAN
    BY <2>2 DEF Names
  <2>4. /\ q \in RequestType /\ q.op = op /\ q.todo = Plan[op] /\ q.lock = 0
        /\ op \notin {"grid", "copy"} /\ q.destination = None
        /\ q.item # None => op = "restore"
        /\ q.named \in Names(op)
    BY <2>3, PlanOK DEF Idle, RequestType
  <2>5. Begin(r, q)
    BY <2>2
  <2> HIDE DEF q
  <2> QED BY <2>4, <2>5, BeginStep
<1> QED BY <1>1, <1>2

LEMMA ReturnStep ==
  ASSUME IndInv, NEW r \in Request, Return(r)
  PROVE  IndInv'
<1>1. /\ req' = [req EXCEPT ![r] = Idle] /\ req[r].todo = <<>>
      /\ UNCHANGED <<inside, locks, ahead, open, was, applied, logged>>
      /\ TypeOK /\ LockOK /\ RequestOK(req[r], was[r], r \in open)
  BY DEF Return, IndInv
<1>2. r \notin open
  BY <1>1 DEF RequestOK, Has
<1>3. LockOK'
  <2>1. /\ req'[r].lock = 0 /\ \A s \in Request : s # r => req'[s] = req[s]
    BY <1>1 DEF Idle, TypeOK
  <2> QED BY <1>1, <2>1 DEF LockOK, Holding, At
<1>4. /\ open' = open \ {r} /\ applied' \subseteq Request /\ logged' \subseteq Request
      /\ locks' \in [Grid -> Lock \cup {0}] /\ ahead' \in [Request -> SUBSET Request]
  BY <1>1, <1>2 DEF TypeOK
<1> QED BY <1>1, <1>3, <1>4, Finishes

LEMMA Inductive == IndInv /\ [Next]_vars => IndInv'
<1> SUFFICES ASSUME IndInv, [Next]_vars PROVE IndInv'
  OBVIOUS
<1>0. open \subseteq Request /\ applied \subseteq Request /\ logged \subseteq Request
  BY DEF IndInv, TypeOK
<1>1. CASE Move
  BY <1>1, MoveStep
<1>2. ASSUME NEW r \in Request, WikiTool(r) \/ DiskTool(r) PROVE IndInv'
  BY <1>2, ToolStep
<1>3. ASSUME NEW r \in Request, Enqueue(r) \/ Unlock(r) \/ ReadOwner(r) \/ Return(r)
      PROVE  IndInv'
  BY <1>3, EnqueueStep, UnlockStep, OwnerStep, ReturnStep
<1>4. ASSUME NEW r \in Request, Acquire(r) PROVE IndInv'
  BY <1>0, <1>4, MovesOn DEF Acquire, At
<1>5. ASSUME NEW r \in Request, Resolve(r) PROVE IndInv'
  BY <1>0, <1>5, MovesOn DEF Resolve, At
<1>6. ASSUME NEW r \in Request, Pass(r) \/ Modify(r) PROVE IndInv'
  BY <1>0, <1>6, MovesOn DEF Pass, Modify, At
<1>7. ASSUME NEW r \in Request, OpenFile(r) PROVE IndInv'
  BY <1>0, <1>7, MovesOn DEF OpenFile, At
<1>8. ASSUME NEW r \in Request, Close(r) \/ Audit(r) PROVE IndInv'
  BY <1>0, <1>8, MovesOn DEF Close, Audit, At
<1>9. ASSUME NEW r \in Request, Deny(r) \/ Abort(r) PROVE IndInv'
  BY <1>0, <1>9, EndStep DEF Deny, Abort
<1>10. CASE UNCHANGED vars
  BY <1>10 DEF vars, IndInv, TypeOK, LockOK, Holding, At
<1> QED BY <1>1, <1>2, <1>3, <1>4, <1>5, <1>6, <1>7, <1>8, <1>9, <1>10 DEF Next, Step

LEMMA InitInv == Init => IndInv
<1> SUFFICES ASSUME Init PROVE IndInv
  OBVIOUS
<1>1. Idle \in RequestType /\ \A seen : RequestOK(Idle, seen, FALSE)
  BY IdleOK
<1>2. TypeOK
  BY <1>1 DEF Init, TypeOK
<1>3. ASSUME NEW r \in Request PROVE RequestOK(req[r], was[r], r \in open)
  <2>1. req[r] = Idle /\ (r \in open) = FALSE
    BY DEF Init
  <2> QED BY <2>1, <1>1
<1>4. LockOK
  BY DEF Init, LockOK, Holding, Idle
<1> QED BY <1>2, <1>3, <1>4 DEF IndInv, Init

-----------------------------------------------------------------------------
(* The results                                                             *)

\* The inductive invariant holds in every state.
THEOREM Invariant == Spec => []IndInv
BY InitInv, Inductive, PTL DEF Spec

\* The variables keep their types.
THEOREM TypeCorrect == Spec => []TypeOK
<1>1. IndInv => TypeOK
  BY DEF IndInv
<1> QED BY <1>1, Invariant, PTL

\* grid_write(): one request at a time changes a grid.
THEOREM GridWritesSerialised == Spec => []Serialised
<1>1. IndInv => Serialised
  BY DEF IndInv, LockOK, Serialised, Holding
<1> QED BY <1>1, Invariant, PTL

\* A request that is over, however it ended, holds no descriptor.
THEOREM NoDescriptorLeft == Spec => []DescriptorsClosed
<1>1. IndInv => DescriptorsClosed
  BY DEF IndInv, TypeOK, RequestOK, DescriptorsClosed, Idle, Has
<1> QED BY <1>1, Invariant, PTL

\* What a request modifies was under an allowed root at some moment of it, and
\* the paths it names are.
THEOREM ModifiesInside == Spec => WritesInside
<1> DEFINE Safe == \A r \in Request :
                     r \in applied' \ applied =>
                       /\ req[r].named
                       /\ {req[r].item, req[r].destination} \ {None} \subseteq was[r]
<1>1. ASSUME IndInv, [Next]_vars PROVE Safe
  <2> SUFFICES ASSUME NEW r \in Request, r \in applied' \ applied
               PROVE  /\ req[r].named
                      /\ {req[r].item, req[r].destination} \ {None} \subseteq was[r]
    OBVIOUS
  <2>1. Modifies(r)
    <3>1. CASE UNCHANGED vars \/ Move
      BY <3>1 DEF vars, Move
    <3>2. ASSUME NEW s \in Request, WikiTool(s) \/ DiskTool(s) PROVE Modifies(r)
      BY <3>2 DEF WikiTool, DiskTool, Begin
    <3>3. ASSUME NEW s \in Request, Pass(s) \/ Modify(s) \/ Abort(s) PROVE Modifies(r)
      BY <3>3 DEF Pass, Modify, Abort, Modifies
    <3>4. ASSUME NEW s \in Request,
                 \/ Acquire(s) \/ Unlock(s) \/ ReadOwner(s) \/ Resolve(s) \/ OpenFile(s)
                 \/ Close(s) \/ Audit(s) \/ Return(s) \/ Enqueue(s) \/ Deny(s)
          PROVE  Modifies(r)
      <4>1. applied' = applied
        BY <3>4 DEF Acquire, Unlock, ReadOwner, Resolve, OpenFile, Close, Audit, Return,
                    Enqueue, Deny
      <4> QED BY <4>1
    <3> QED BY <1>1, <3>1, <3>2, <3>3, <3>4 DEF Next, Step
  <2>2. RequestOK(req[r], was[r], r \in open) /\ req[r].todo \in Seq(StepName)
    BY <1>1 DEF IndInv, TypeOK, RequestType
  <2>3. CASE At(r, "modify")
    <3>1. ~Has(req[r].todo, "resolve") /\ ~Has(req[r].todo, "destination")
      BY <2>2, <2>3, ModifyLast DEF At, RequestOK
    <3>2. req[r].named
      BY <2>2, <2>3, ChecksFirst DEF At, RequestOK
    <3> QED BY <2>2, <3>1, <3>2 DEF RequestOK
  <2>4. CASE At(r, "send") /\ req[r].op = "local"
    <3>1. req[r].named
      BY <2>2, <2>4, ChecksFirst DEF At, RequestOK
    <3> QED BY <2>2, <2>4, <3>1 DEF RequestOK
  <2> QED BY <2>1, <2>3, <2>4 DEF Modifies
<1>2. IndInv /\ [Next]_vars => [Safe]_vars
  BY <1>1
<1> QED BY <1>2, Invariant, PTL DEF Spec, WritesInside
=============================================================================
