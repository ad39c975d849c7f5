------------------------- MODULE Credentials_proofs -------------------------
(***************************************************************************)
(* Proofs about Credentials, for any number of replicas, requests, account *)
(* events and access tokens.                                               *)
(***************************************************************************)
EXTENDS Credentials, TLAPS

\* Who is between the locked read and the write holds its replica's lock.
LockInv == \A r \in Request : Holding(r) => lock[req[r].replica] = r

\* A token that was obtained and not stored yet is known to nobody else, and a
\* token that was replaced is not in the store.
FreshInv ==
  /\ \A p \in Replica : refreshed[p] \subseteq 1..issued
  /\ downstream # None =>
       downstream.access \in 1..issued
         /\ \A p \in Replica : downstream.access \notin refreshed[p]
  /\ \A r \in Request : req[r].at \in {"post", "forget"} =>
       /\ req[r].record.access \in 1..issued
       /\ req[r].record.access \notin refreshed[req[r].replica]
  /\ \A r \in Request : req[r].at = "put" =>
       /\ req[r].record.access \in 1..issued
       /\ req[r].old \in 1..issued
       /\ req[r].old # req[r].record.access
       /\ downstream # None => downstream.access # req[r].record.access
       /\ \A p \in Replica : req[r].record.access \notin refreshed[p]
       /\ \A q \in Request :
            /\ req[q].at \in {"post", "forget"} =>
                 req[q].record.access # req[r].record.access
            /\ req[q].at = "put" =>
                 /\ req[q].old # req[r].record.access
                 /\ q # r => req[q].record.access # req[r].record.access

\* What a refresh under way is about to write is in force, or it overlapped the
\* event that changed that.
ForceInv ==
  /\ GrantInForce
  /\ \A r \in Request :
       req[r].at \in {"post", "put", "forget"} /\ req[r].record.grant # inForce
         => overlap

\* The record a refresh works on is the stored one, or something is known of
\* who replaced it.
OwnInv ==
  \A r \in Request : req[r].at \in {"post", "forget"} /\ downstream # None =>
    \/ downstream.access = req[r].record.access
    \/ overlap
    \/ writer \notin {None, req[r].replica}

IndInv == TypeOK /\ LockInv /\ FreshInv /\ ForceInv /\ OwnInv

\* The shape of a request record follows from where the request is.
LEMMA ReqShape ==
  ASSUME TypeOK, NEW r \in Request
  PROVE  /\ req[r] \in RequestType
         /\ req[r].at = "idle" => req[r] = Idle
         /\ req[r].at \in {"get", "reread"} =>
              req[r] \in [at : {"get", "reread"}, replica : Replica]
         /\ req[r].at = "locking" =>
              req[r] \in [at : {"locking"}, replica : Replica, seen : Record]
         /\ req[r].at \in {"post", "forget"} =>
              req[r] \in [at : {"post", "forget"}, replica : Replica, record : Record]
         /\ req[r].at = "put" =>
              req[r] \in [at : {"put"}, replica : Replica, old : 1..MaxAccess,
                          record : Record]
  BY DEF TypeOK, RequestType, Idle

LEMMA InitIndInv == ASSUME Init PROVE IndInv
  <1>1. TypeOK
    <2>1. 0 \in 0..MaxGrant /\ 0 \in 0..MaxAccess
      BY BoundAssumption
    <2>2. Idle \in RequestType
      BY DEF RequestType
    <2>3. req \in [Request -> RequestType] /\ lock \in [Replica -> Request \cup {None}]
      BY <2>2 DEF Init
    <2>4. refreshed \in [Replica -> SUBSET (1..MaxAccess)]
      BY DEF Init
    <2> QED
      BY <2>1, <2>3, <2>4 DEF Init, TypeOK
  <1>2. \A r \in Request : req[r].at = "idle"
    BY DEF Init, Idle
  <1>3. LockInv /\ OwnInv
    BY <1>2 DEF LockInv, OwnInv, Holding
  <1>4. downstream = None /\ \A p \in Replica : refreshed[p] = {}
    BY DEF Init
  <1>5. FreshInv /\ ForceInv
    BY <1>2, <1>4 DEF FreshInv, ForceInv, GrantInForce
  <1> QED
    BY <1>1, <1>3, <1>5 DEF IndInv

\* A request that moves while everything else stays, to a place where it holds
\* no record, keeps the invariant.
LEMMA MovingStep ==
  ASSUME IndInv, NEW r \in Request, NEW next \in RequestType,
         next.at \in {"idle", "get", "locking", "reread"},
         Goto(r, next), lock' \in [Replica -> Request \cup {None}],
         \A q \in Request \ {r} :
           Holding(q) => lock'[req[q].replica] = lock[req[q].replica],
         next.at = "reread" => lock'[next.replica] = r,
         UNCHANGED <<downstream, expired, issued, history>>
  PROVE  IndInv'
  <1>1. \A q \in Request : req'[q] = IF q = r THEN next ELSE req[q]
    BY DEF Goto, IndInv, TypeOK
  <1>2. TypeOK'
    BY DEF Goto, IndInv, TypeOK, history
  <1>3. LockInv'
    BY <1>1 DEF IndInv, LockInv, Holding
  <1>4. \A q \in Request : req'[q].at \in {"post", "put", "forget"} => req'[q] = req[q]
    BY <1>1
  <1>5. FreshInv'
    BY <1>4 DEF IndInv, FreshInv, history
  <1>6. ForceInv' /\ OwnInv'
    BY <1>4 DEF IndInv, ForceInv, OwnInv, GrantInForce, history
  <1> QED
    BY <1>2, <1>3, <1>5, <1>6 DEF IndInv

\* Giving up the lock does not touch the lock of another holder.
LEMMA ReleasedLock ==
  ASSUME IndInv, NEW r \in Request, Holding(r)
  PROVE  /\ Released(req[r].replica) \in [Replica -> Request \cup {None}]
         /\ \A q \in Request \ {r} : Holding(q) =>
              /\ req[q].replica # req[r].replica
              /\ Released(req[r].replica)[req[q].replica] = lock[req[q].replica]
  <1>1. \A q \in Request : Holding(q) => req[q].replica \in Replica
    BY ReqShape DEF Holding, IndInv
  <1> QED
    BY <1>1 DEF IndInv, TypeOK, LockInv, Released

LEMMA StartStep ==
  ASSUME IndInv, NEW r \in Request, NEW p \in Replica, Start(r, p)
  PROVE  IndInv'
  <1> DEFINE next == [at |-> "get", replica |-> p]
  <1>1. next \in RequestType /\ next.at = "get"
    BY DEF RequestType
  <1> HIDE DEF next
  <1> QED
    BY <1>1, MovingStep DEF Start, next, IndInv, TypeOK

LEMMA GetStep ==
  ASSUME IndInv, NEW r \in Request, Get(r)
  PROVE  IndInv'
  <1> DEFINE next == IF downstream # None /\ Stale(downstream)
                       THEN [at |-> "locking", replica |-> req[r].replica,
                             seen |-> downstream]
                       ELSE Idle
  <1>1. next \in RequestType /\ next.at \in {"idle", "locking"}
    BY ReqShape DEF Get, RequestType, Idle, IndInv, TypeOK
  <1>2. Goto(r, next)
    BY DEF Get
  <1> HIDE DEF next
  <1> QED
    BY <1>1, <1>2, MovingStep DEF Get, IndInv, TypeOK

LEMMA AcquireStep ==
  ASSUME IndInv, NEW r \in Request, Acquire(r)
  PROVE  IndInv'
  <1> DEFINE next == [at |-> "reread", replica |-> req[r].replica]
  <1>1. req[r].replica \in Replica
    BY ReqShape DEF Acquire, IndInv
  <1>2. next \in RequestType /\ next.at = "reread" /\ next.replica = req[r].replica
    BY <1>1 DEF RequestType
  <1>3. \A q \in Request : Holding(q) => lock[req[q].replica] = q
    BY DEF IndInv, LockInv
  <1>4. \A q \in Request : Holding(q) => req[q].replica # req[r].replica
    BY <1>3, NoneAssumption DEF Acquire, LockFree
  <1>5. Goto(r, next)
    BY DEF Acquire, ReadAgain
  <1> HIDE DEF next
  <1> QED
    BY <1>1, <1>2, <1>4, <1>5, MovingStep DEF Acquire, IndInv, TypeOK

LEMMA RereadStep ==
  ASSUME IndInv, NEW r \in Request, Reread(r)
  PROVE  IndInv'
  <1>1. CASE downstream = None \/ ~Stale(downstream)
    <2>1. Idle \in RequestType /\ Idle.at = "idle"
      BY DEF RequestType, Idle
    <2> QED
      BY <1>1, <2>1, ReleasedLock, MovingStep DEF Reread, Leave, Holding
  <1>2. CASE downstream # None /\ Stale(downstream)
    <2> DEFINE next == [at |-> IF downstream.refreshable THEN "post" ELSE "forget",
                        replica |-> req[r].replica, record |-> downstream]
    <2>1. /\ req[r].replica \in Replica /\ req[r].at = "reread"
          /\ downstream \in Record
      BY <1>2, ReqShape DEF Reread, IndInv, TypeOK
    <2>2. /\ next \in RequestType /\ next.at \in {"post", "forget"}
          /\ next.replica = req[r].replica /\ next.record = downstream
      BY <2>1 DEF RequestType
    <2>3. Goto(r, next) /\ UNCHANGED <<lock, downstream, expired, issued, history>>
      BY <1>2 DEF Reread
    <2> HIDE DEF next
    <2>4. \A q \in Request : req'[q] = IF q = r THEN next ELSE req[q]
      BY <2>3 DEF Goto, IndInv, TypeOK
    <2>5. TypeOK'
      BY <2>2, <2>3 DEF Goto, IndInv, TypeOK, history
    <2>6. LockInv'
      BY <2>1, <2>2, <2>3, <2>4 DEF IndInv, LockInv, Holding
    <2>7. FreshInv'
      BY <1>2, <2>1, <2>2, <2>3, <2>4 DEF IndInv, FreshInv, history
    <2>8. ForceInv' /\ OwnInv'
      BY <1>2, <2>2, <2>3, <2>4 DEF IndInv, ForceInv, GrantInForce, OwnInv, history
    <2> QED
      BY <2>5, <2>6, <2>7, <2>8 DEF IndInv
  <1> QED
    BY <1>1, <1>2

LEMMA AnswerStep ==
  ASSUME IndInv, NEW r \in Request, NEW answer \in {"tokens", "malformed", "error"},
         Answer(r, answer)
  PROVE  IndInv'
  <1>1. /\ req[r].at = "post"
        /\ req[r] \in [at : {"post", "forget"}, replica : Replica, record : Record]
    BY ReqShape DEF Answer, IndInv
  <1>2. UNCHANGED <<downstream, expired, lock, history>>
    BY DEF Answer
  <1>3. CASE answer = "tokens"
    <2> DEFINE n == issued + 1
               next == [at |-> "put", replica |-> req[r].replica,
                        old |-> req[r].record.access,
                        record |-> [req[r].record EXCEPT !.access = n]]
    <2>1. issued \in Nat /\ n \in 1..MaxAccess /\ n > issued /\ issued' = n
      BY <1>3, BoundAssumption DEF Answer, IndInv, TypeOK
    <2>2. req[r].record.access \in 1..issued
      BY <1>1 DEF IndInv, FreshInv
    <2>3. [req[r].record EXCEPT !.access = n] \in Record
      BY <1>1, <2>1 DEF Record
    <2>4. /\ next \in RequestType /\ next.at = "put" /\ next.replica = req[r].replica
          /\ next.old = req[r].record.access /\ next.record.access = n
          /\ next.record.grant = req[r].record.grant
      BY <1>1, <2>1, <2>2, <2>3, BoundAssumption DEF RequestType, Record
    <2>5. Goto(r, next)
      BY <1>3 DEF Answer, Accepts
    <2> HIDE DEF next
    <2>6. \A q \in Request : req'[q] = IF q = r THEN next ELSE req[q]
      BY <2>5 DEF Goto, IndInv, TypeOK
    <2>7. TypeOK'
      BY <1>2, <2>1, <2>4, <2>5, BoundAssumption DEF Goto, IndInv, TypeOK, Record, history
    <2>8. LockInv'
      BY <1>1, <1>2, <2>4, <2>6 DEF IndInv, LockInv, Holding
    <2>9. FreshInv'
      <3> HIDE DEF n
      <3>1. \A i \in 1..issued : i \in 1..n /\ i # n
        BY <2>1
      <3>2. \A p \in Replica : refreshed[p] \subseteq 1..n /\ n \notin refreshed[p]
        BY <3>1 DEF IndInv, FreshInv
      <3>3. downstream # None => downstream.access \in 1..n /\ downstream.access # n
        BY <3>1 DEF IndInv, FreshInv
      <3>4. \A q \in Request :
              /\ req[q].at \in {"post", "put", "forget"} =>
                   req[q].record.access \in 1..n /\ req[q].record.access # n
              /\ req[q].at = "put" => req[q].old \in 1..n /\ req[q].old # n
        BY <3>1 DEF IndInv, FreshInv
      <3>5. n \in 1..n /\ req[r].record.access \in 1..n
        BY <2>1, <2>2, <3>1
      <3> QED
        BY <1>1, <1>2, <2>1, <2>4, <2>6, <3>2, <3>3, <3>4, <3>5
           DEF IndInv, FreshInv, history
    <2>10. ForceInv' /\ OwnInv'
      BY <1>1, <1>2, <2>4, <2>6
         DEF IndInv, ForceInv, GrantInForce, OwnInv, history
    <2> QED
      BY <2>7, <2>8, <2>9, <2>10 DEF IndInv
  <1>4. CASE answer # "tokens"
    <2> DEFINE next == [req[r] EXCEPT !.at = "forget"]
    <2>1. /\ next \in RequestType /\ next.at = "forget"
          /\ next.replica = req[r].replica /\ next.record = req[r].record
      BY <1>1 DEF RequestType
    <2>2. Goto(r, next) /\ issued' = issued
      BY <1>4 DEF Answer, Accepts
    <2> HIDE DEF next
    <2>3. \A q \in Request : req'[q] = IF q = r THEN next ELSE req[q]
      BY <2>2 DEF Goto, IndInv, TypeOK
    <2>4. TypeOK'
      BY <1>2, <2>1, <2>2 DEF Goto, IndInv, TypeOK, history
    <2>5. LockInv'
      BY <1>1, <1>2, <2>1, <2>3 DEF IndInv, LockInv, Holding
    <2>6. FreshInv'
      BY <1>1, <1>2, <2>1, <2>2, <2>3 DEF IndInv, FreshInv, history
    <2>7. ForceInv' /\ OwnInv'
      BY <1>1, <1>2, <2>1, <2>3 DEF IndInv, ForceInv, GrantInForce, OwnInv, history
    <2> QED
      BY <2>4, <2>5, <2>6, <2>7 DEF IndInv
  <1> QED
    BY <1>3, <1>4

LEMMA PutStep ==
  ASSUME IndInv, NEW r \in Request, Put(r)
  PROVE  IndInv'
  <1> DEFINE p == req[r].replica
             new == req[r].record
             old == req[r].old
  <1>1. /\ req[r].at = "put" /\ p \in Replica /\ new \in Record /\ old \in 1..MaxAccess
        /\ Idle \in RequestType /\ Idle.at = "idle"
    BY ReqShape DEF Put, IndInv, RequestType, Idle
  <1>2. /\ new.access \in 1..issued /\ old \in 1..issued /\ old # new.access
        /\ downstream # None => downstream.access # new.access
        /\ \A i \in Replica : new.access \notin refreshed[i]
        /\ \A q \in Request :
             /\ req[q].at \in {"post", "forget"} => req[q].record.access # new.access
             /\ req[q].at = "put" =>
                  req[q].old # new.access /\ (q # r => req[q].record.access # new.access)
        /\ \A q \in Request : req[q].at = "put" => req[q].record.access # old
    BY <1>1 DEF IndInv, FreshInv
  <1>3. new.grant # inForce => overlap
    BY <1>1 DEF IndInv, ForceInv
  <1>4. /\ Released(p) \in [Replica -> Request \cup {None}]
        /\ \A q \in Request \ {r} : Holding(q) =>
             req[q].replica # p /\ Released(p)[req[q].replica] = lock[req[q].replica]
    BY <1>1, ReleasedLock DEF Holding
  <1>5. /\ downstream' = new /\ lock' = Released(p) /\ writer' = p
        /\ refreshed' = [refreshed EXCEPT ![p] = @ \cup {old}]
        /\ req' = [req EXCEPT ![r] = Idle]
        /\ UNCHANGED <<expired, issued, events, inForce, overlap>>
    BY DEF Put, Leave, Goto
  <1> HIDE DEF p, new, old
  <1>6. \A q \in Request : req'[q] = IF q = r THEN Idle ELSE req[q]
    BY <1>5 DEF IndInv, TypeOK
  <1>7. \A q \in Request : req'[q].at \in {"post", "put", "forget"} =>
          q # r /\ req'[q] = req[q] /\ Holding(q) /\ req[q].replica # p
    BY <1>1, <1>4, <1>6 DEF Holding
  <1>8. \A i \in Replica :
          refreshed'[i] = IF i = p THEN refreshed[i] \cup {old} ELSE refreshed[i]
    BY <1>5 DEF IndInv, TypeOK
  <1>9. TypeOK'
    BY <1>1, <1>2, <1>4, <1>5 DEF IndInv, TypeOK
  <1>10. LockInv'
    BY <1>1, <1>4, <1>5, <1>6 DEF IndInv, LockInv, Holding
  <1>11. FreshInv'
    <2>1. /\ \A i \in Replica : refreshed'[i] \subseteq 1..issued'
          /\ \A i \in Replica : downstream'.access \notin refreshed'[i]
      BY <1>2, <1>5, <1>8 DEF IndInv, FreshInv
    <2>2. \A q \in Request : req'[q].at \in {"post", "forget"} =>
            /\ req'[q].record.access \in 1..issued'
            /\ req'[q].record.access \notin refreshed'[req'[q].replica]
      <3>1. \A q \in Request : req[q].at \in {"post", "forget"} => req[q].replica \in Replica
        BY ReqShape DEF IndInv
      <3> QED
        BY <1>5, <1>7, <1>8, <3>1 DEF IndInv, FreshInv
    <2>3. \A q \in Request : req'[q].at = "put" =>
            /\ downstream'.access # req'[q].record.access
            /\ \A i \in Replica : req'[q].record.access \notin refreshed'[i]
      BY <1>2, <1>5, <1>7, <1>8 DEF IndInv, FreshInv
    <2> QED
      BY <1>2, <1>5, <1>7, <2>1, <2>2, <2>3 DEF IndInv, FreshInv
  <1>12. ForceInv'
    BY <1>3, <1>5, <1>7 DEF IndInv, ForceInv, GrantInForce
  <1>13. OwnInv'
    BY <1>1, <1>5, <1>7, NoneAssumption DEF OwnInv
  <1> QED
    BY <1>9, <1>10, <1>11, <1>12, <1>13 DEF IndInv

LEMMA ForgetStep ==
  ASSUME IndInv, NEW r \in Request, Forget(r)
  PROVE  IndInv'
  <1>1. /\ req[r].at = "forget" /\ Holding(r)
        /\ Idle \in RequestType /\ Idle.at = "idle"
    BY DEF Forget, RequestType, Idle, Holding
  <1>2. /\ downstream' = None /\ lock' = Released(req[r].replica)
        /\ req' = [req EXCEPT ![r] = Idle]
        /\ UNCHANGED <<expired, issued, history>>
    BY DEF Forget, Leave, Goto
  <1>3. \A q \in Request : req'[q] = IF q = r THEN Idle ELSE req[q]
    BY <1>2 DEF IndInv, TypeOK
  <1>4. \A q \in Request : req'[q].at \in {"post", "put", "forget"} => req'[q] = req[q]
    BY <1>1, <1>3
  <1>5. TypeOK'
    BY <1>1, <1>2, ReleasedLock DEF IndInv, TypeOK, history
  <1>6. LockInv'
    BY <1>1, <1>2, <1>3, ReleasedLock DEF IndInv, LockInv, Holding
  <1>7. FreshInv'
    BY <1>2, <1>4 DEF IndInv, FreshInv, history
  <1>8. ForceInv' /\ OwnInv'
    BY <1>2, <1>4 DEF IndInv, ForceInv, GrantInForce, OwnInv, history
  <1> QED
    BY <1>5, <1>6, <1>7, <1>8 DEF IndInv

LEMMA CancelStep ==
  ASSUME IndInv, NEW r \in Request, Cancel(r)
  PROVE  IndInv'
  <1>1. Idle \in RequestType /\ Idle.at = "idle"
    BY DEF RequestType, Idle
  <1>2. CASE Holding(r)
    BY <1>1, <1>2, ReleasedLock, MovingStep DEF Cancel
  <1>3. CASE ~Holding(r)
    BY <1>1, <1>3, MovingStep DEF Cancel, IndInv, TypeOK
  <1> QED
    BY <1>2, <1>3

LEMMA SignInStep ==
  ASSUME IndInv, NEW refreshable \in BOOLEAN, SignIn(refreshable)
  PROVE  IndInv'
  <1> DEFINE n == issued + 1
             g == events + 1
             new == [kind |-> "record", grant |-> g, access |-> n,
                     refreshable |-> refreshable]
  <1>1. /\ issued \in Nat /\ n \in 1..MaxAccess /\ n > issued
        /\ g \in 1..MaxGrant
        /\ new \in Record /\ new.access = n /\ new.grant = g
    BY BoundAssumption DEF SignIn, IndInv, TypeOK, Record
  <1>2. /\ issued' = n /\ events' = g /\ inForce' = g /\ overlap' = UnderWay
        /\ downstream' = new /\ writer' = None
        /\ UNCHANGED <<expired, lock, req, refreshed>>
    BY DEF SignIn
  <1> HIDE DEF n, g, new
  <1>3. \A i \in 1..issued : i \in 1..n /\ i # n
    BY <1>1 DEF n
  <1>4. n \in 1..n /\ 0..MaxGrant = {0} \cup 1..MaxGrant
    BY <1>1, BoundAssumption
  <1>5. TypeOK'
    BY <1>1, <1>2, <1>4, BoundAssumption DEF IndInv, TypeOK, UnderWay
  <1>6. LockInv'
    BY <1>2 DEF IndInv, LockInv, Holding
  <1>7. FreshInv'
    BY <1>1, <1>2, <1>3, <1>4 DEF IndInv, FreshInv
  <1>8. ForceInv' /\ OwnInv'
    BY <1>1, <1>2 DEF ForceInv, GrantInForce, OwnInv, UnderWay
  <1> QED
    BY <1>5, <1>6, <1>7, <1>8 DEF IndInv

LEMMA RevokeStep ==
  ASSUME IndInv, Revoke
  PROVE  IndInv'
  <1>1. /\ inForce' = 0 /\ overlap' = UnderWay /\ downstream' = None
        /\ UNCHANGED <<expired, issued, lock, req, refreshed, writer>>
    BY DEF Revoke
  <1>0. events' \in 0..MaxGrant /\ 0 \in 0..MaxGrant
    BY BoundAssumption DEF Revoke, IndInv, TypeOK
  <1>2. TypeOK'
    BY <1>0, <1>1 DEF IndInv, TypeOK, UnderWay
  <1>3. LockInv' /\ FreshInv'
    BY <1>1 DEF IndInv, LockInv, Holding, FreshInv
  <1>4. ForceInv' /\ OwnInv'
    BY <1>1 DEF ForceInv, GrantInForce, OwnInv, UnderWay
  <1> QED
    BY <1>2, <1>3, <1>4 DEF IndInv

\* Time passes, or nothing happens.
LEMMA TimeStep ==
  ASSUME IndInv, AccessAges \/ RecordExpires \/ UNCHANGED vars
  PROVE  IndInv'
  <1>1. /\ downstream' \in {downstream, None}
        /\ UNCHANGED <<issued, lock, req, refreshed, inForce, overlap>>
        /\ UNCHANGED events
    BY DEF AccessAges, RecordExpires, vars, history
  <1>2. downstream' # None => writer' = writer
    BY DEF AccessAges, RecordExpires, vars, history
  <1>3. TypeOK'
    <2>1. expired' \in SUBSET (1..MaxAccess)
      <3>1. 1..issued \subseteq 1..MaxAccess
        BY BoundAssumption DEF IndInv, TypeOK
      <3>2. CASE AccessAges
        BY <3>1, <3>2 DEF AccessAges, IndInv, TypeOK
      <3>3. CASE RecordExpires \/ UNCHANGED vars
        BY <3>3 DEF RecordExpires, vars, IndInv, TypeOK
      <3> QED
        BY <3>2, <3>3
    <2>2. writer' \in Replica \cup {None}
      BY DEF AccessAges, RecordExpires, vars, history, IndInv, TypeOK
    <2> QED
      BY <1>1, <2>1, <2>2 DEF IndInv, TypeOK
  <1>4. LockInv' /\ FreshInv'
    BY <1>1 DEF IndInv, LockInv, Holding, FreshInv
  <1>5. ForceInv' /\ OwnInv'
    BY <1>1, <1>2 DEF IndInv, ForceInv, GrantInForce, OwnInv
  <1> QED
    BY <1>3, <1>4, <1>5 DEF IndInv

LEMMA NextIndInv == IndInv /\ [Next]_vars => IndInv'
  <1> SUFFICES ASSUME IndInv, [Next]_vars PROVE IndInv'
    OBVIOUS
  <1>1. ASSUME NEW r \in Request, Step(r) PROVE IndInv'
    BY <1>1, GetStep, AcquireStep, RereadStep, AnswerStep, PutStep, ForgetStep DEF Step
  <1> QED
    BY <1>1, StartStep, CancelStep, SignInStep, RevokeStep, TimeStep DEF Next

\* The inductive invariant: the lock, the freshness of tokens in flight, and
\* what a refresh under way may still write.
THEOREM IndInvHolds == Spec => []IndInv
  BY InitIndInv, NextIndInv, PTL DEF Spec

\* Every variable keeps its type; the stored token is one Yandex issued.
THEOREM TypeCorrect == Spec => []TypeOK
  <1>1. IndInv => TypeOK
    BY DEF IndInv
  <1> QED
    BY <1>1, IndInvHolds, PTL

\* No replica presents the refresh token of a record it already replaced: the
\* record is read again under the lock (_refresh).
THEOREM NeverRefreshedTwice == Spec => []RefreshedOnce
  <1>1. IndInv => RefreshedOnce
    BY DEF IndInv, FreshInv, RefreshedOnce
  <1> QED
    BY <1>1, IndInvHolds, PTL

\* A sign-in or a revocation that overlaps no refresh decides what is stored.
THEOREM StoredGrantInForce == Spec => []GrantInForce
  <1>1. IndInv => GrantInForce
    BY DEF IndInv, ForceInv
  <1> QED
    BY <1>1, IndInvHolds, PTL

\* A failed refresh deletes only the record it tried to refresh, short of a
\* sign-in during the refresh or a write by another replica.
THEOREM FailureForgetsOwn == Spec => []ForgetsOwn
  <1>1. IndInv => ForgetsOwn
    BY DEF IndInv, OwnInv, ForgetsOwn
  <1> QED
    BY <1>1, IndInvHolds, PTL

=============================================================================
