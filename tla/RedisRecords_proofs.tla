------------------------ MODULE RedisRecords_proofs ------------------------
(***************************************************************************)
(* Proofs about RedisRecords, for any key rings, replicas and lookups.     *)
(***************************************************************************)
EXTENDS RedisRecords, TLAPS

\* A payload is under one key at most and was not consumed while it is there.
PayloadInv ==
  /\ \A k \in Key : slot[k] # None => slot[k] \in written /\ takes[slot[k]] = 0
  /\ \A j, k \in Key : slot[j] # None /\ slot[j] = slot[k] => j = k
  /\ \A v \in Value : v \notin written => takes[v] = 0
  /\ ConsumedOnce

RotationInv ==
  /\ OneCopy
  /\ settled => Uniform
  /\ \A k \in Key : slot[k] # None => k \in InRing(NewRing)

\* What a lookup in progress knows: it has seen the record missing if it moved
\* past the first key, and it holds the key of a record it found.
LookupInv ==
  /\ \A r \in Request : req[r].at \in {"find", "eval"} => current \in witnessed[r]
  /\ \A r \in calm :
       /\ settled
       /\ req[r] # Idle
       /\ req[r].at = "find" /\ req[r].pos # 1 => None \in witnessed[r]
       /\ req[r].at = "eval" => req[r].key = Head(NewRing)
  /\ Linear

IndInv == TypeOK /\ PayloadInv /\ RotationInv /\ LookupInv

LEMMA RingFacts ==
  /\ Head(OldRing) \in Key /\ Head(NewRing) \in Key
  /\ InRing(OldRing) \subseteq Key /\ InRing(NewRing) \subseteq Key
  /\ Head(NewRing) \in InRing(NewRing) /\ Head(NewRing) = NewRing[1]
  /\ Head(OldRing) \in InRing(OldRing) /\ Head(OldRing) = OldRing[1]
  /\ \A k \in InRing(OldRing) : k \in InRing(NewRing)
  BY RingAssumption DEF InRing

\* The shape of a request record follows from where the request is.
LEMMA ReqShape ==
  ASSUME TypeOK, NEW r \in Request
  PROVE  /\ req[r].at \in {"idle", "find", "eval", "answered"}
         /\ req[r].at = "idle" <=> req[r] = Idle
         /\ req[r].at = "find" =>
              req[r] \in [at : {"find"}, op : {"get", "consume"},
                          replica : Replica, pos : Nat \ {0}]
         /\ req[r].at = "eval" =>
              req[r] \in [at : {"eval"}, op : {"consume"}, replica : Replica,
                          key : Key]
         /\ req[r].at = "answered" =>
              req[r] \in [at : {"answered"}, op : {"get", "consume"},
                          replica : Replica, result : Value \cup {None}]
  BY DEF TypeOK, RequestType, Idle

LEMMA RingOf ==
  ASSUME TypeOK, NEW p \in Replica
  PROVE  /\ ring[p] \in {OldRing, NewRing}
         /\ Head(ring[p]) \in Key
         /\ Candidates(p) \subseteq Key
         /\ Head(ring[p]) \in Candidates(p)
         /\ ring[p] \in Seq(Key) /\ Len(ring[p]) > 0
  BY RingFacts, RingAssumption DEF TypeOK, Candidates

LEMMA InitIndInv == ASSUME Init PROVE IndInv
  <1> USE DEF Init
  <1>1. PICK k0 \in InRing(OldRing) :
          slot = [j \in Key |-> IF j = k0 THEN current ELSE None]
    OBVIOUS
  <1>2. \A r \in Request : req[r] = Idle /\ req[r].at = "idle"
    BY DEF Idle
  <1>3. TypeOK
    <2>1. slot \in [Key -> Value \cup {None}]
      BY <1>1
    <2>2. req \in [Request -> RequestType]
      BY DEF RequestType
    <2>3. takes \in [Value -> Nat]
      OBVIOUS
    <2> QED
      BY <2>1, <2>2, <2>3, <1>2 DEF TypeOK
  <1>4. PayloadInv
    BY <1>1, <1>3, ValueAssumption DEF PayloadInv, ConsumedOnce, TypeOK
  <1>5. RotationInv
    BY <1>1, RingFacts DEF RotationInv, OneCopy, Uniform
  <1>6. LookupInv
    BY <1>2 DEF LookupInv, Linear
  <1> QED
    BY <1>3, <1>4, <1>5, <1>6 DEF IndInv

LEMMA BecomesGrows ==
  ASSUME TypeOK, NEW v \in Value \cup {None}, Becomes(v)
  PROVE  /\ current' = v
         /\ witnessed' \in [Request -> SUBSET (Value \cup {None})]
         /\ \A r \in Request : witnessed[r] \subseteq witnessed'[r]
         /\ \A r \in Request :
              req[r].at \in {"find", "eval"} => v \in witnessed'[r]
  BY DEF TypeOK, Becomes

\* What every change of the record has in common: the lookups stay where they
\* are and see the new content.
LEMMA LookupsWatch ==
  ASSUME IndInv, NEW v \in Value \cup {None}, Becomes(v) \/ UNCHANGED <<current, witnessed>>,
         settled => settled', UNCHANGED <<ring, req, calm>>, current' \in Value \cup {None}
  PROVE  LookupInv'
  <1> USE DEF IndInv, LookupInv
  <1>1. \A r \in Request : witnessed[r] \subseteq witnessed'[r]
    BY BecomesGrows
  <1>2. \A r \in Request : req[r].at \in {"find", "eval"} => current' \in witnessed'[r]
    BY BecomesGrows
  <1>3. calm \subseteq Request
    BY DEF TypeOK
  <1>4. \A r \in calm : Instant(r)'
    BY <1>1, <1>3 DEF Linear, Instant
  <1> QED
    BY <1>1, <1>2, <1>3, <1>4 DEF Linear

LEMMA PutStep ==
  ASSUME IndInv, NEW p \in Replica, NEW v \in Value, Put(p, v)
  PROVE  IndInv'
  <1> USE DEF IndInv, Put
  <1>1. TypeOK'
    BY RingOf, BecomesGrows DEF TypeOK
  <1>2. PayloadInv'
    <2> DEFINE h == Head(ring[p])
    <2>1. \A k \in Key : slot'[k] \in {v, None, slot[k]} /\ (slot'[k] = v => k = h)
      BY ValueAssumption DEF PayloadInv, TypeOK
    <2>2. \A k \in Key : slot'[k] # None => slot'[k] \in written' /\ takes'[slot'[k]] = 0
      BY <2>1 DEF PayloadInv
    <2>3. \A j, k \in Key : slot'[j] # None /\ slot'[j] = slot'[k] => j = k
      BY <2>1 DEF PayloadInv
    <2> QED
      BY <2>2, <2>3 DEF PayloadInv, ConsumedOnce
  <1>3. RotationInv'
    <2>1. ASSUME settled' PROVE Uniform /\ ring[p] = NewRing
      BY <2>1 DEF RotationInv, Uniform
    <2>2. ASSUME settled', NEW k \in Key
          PROVE  slot'[k] = IF k = Head(NewRing) THEN v ELSE None
      <3>1. k = Head(NewRing) \/ k \in InRing(NewRing) \/ slot'[k] = slot[k]
        BY <2>1, <2>2 DEF Candidates
      <3>2. CASE settled
        BY <3>2, <2>1 DEF RotationInv, OneCopy
      <3>3. CASE ~settled
        BY <2>1, <2>2 DEF RotationInv, Candidates
      <3> QED
        BY <3>2, <3>3
    <2>3. \A k \in Key : slot'[k] # None => k \in InRing(NewRing)
      BY RingOf, RingFacts DEF RotationInv
    <2> QED
      BY <2>1, <2>2, <2>3, BecomesGrows DEF RotationInv, OneCopy, Uniform
  <1>4. LookupInv'
    <2>1. Becomes(v) /\ v \in Value \cup {None} /\ (settled => settled')
            /\ UNCHANGED <<ring, req, calm>>
      OBVIOUS
    <2>2. current' \in Value \cup {None}
      BY <1>1 DEF TypeOK
    <2> QED
      BY <2>1, <2>2, LookupsWatch DEF IndInv
  <1> QED
    BY <1>1, <1>2, <1>3, <1>4

LEMMA DeleteStep ==
  ASSUME IndInv, NEW p \in Replica, Delete(p)
  PROVE  IndInv'
  <1> USE DEF IndInv, Delete
  <1>1. TypeOK'
    BY RingOf, BecomesGrows DEF TypeOK
  <1>2. \A k \in Key : slot'[k] \in {None, slot[k]}
    BY DEF TypeOK
  <1>3. PayloadInv'
    BY <1>2 DEF PayloadInv, ConsumedOnce
  <1>4. RotationInv'
    <2>1. ASSUME settled' PROVE Uniform /\ ring[p] = NewRing
      BY <2>1 DEF RotationInv, Uniform
    <2>2. ASSUME settled', NEW k \in Key PROVE slot'[k] = None
      <3>1. k \in InRing(NewRing) \/ slot[k] = None
        BY DEF RotationInv
      <3> QED
        BY <2>1, <2>2, <3>1 DEF Candidates
    <2> QED
      BY <1>2, <2>1, <2>2, BecomesGrows DEF RotationInv, OneCopy, Uniform
  <1>5. LookupInv'
    <2>1. Becomes(None) /\ None \in Value \cup {None} /\ (settled => settled')
            /\ UNCHANGED <<ring, req, calm>>
      OBVIOUS
    <2>2. current' \in Value \cup {None}
      BY <1>1 DEF TypeOK
    <2> QED
      BY <2>1, <2>2, LookupsWatch DEF IndInv
  <1> QED
    BY <1>1, <1>3, <1>4, <1>5

LEMMA ExpireStep ==
  ASSUME IndInv, NEW x \in Key, Expire(x)
  PROVE  IndInv'
  <1> USE DEF IndInv, Expire
  <1>1. TypeOK'
    BY BecomesGrows DEF TypeOK
  <1>2. \A k \in Key : slot'[k] \in {None, slot[k]}
    BY DEF TypeOK
  <1>3. PayloadInv'
    BY <1>2 DEF PayloadInv, ConsumedOnce
  <1>4. RotationInv'
    BY <1>2, BecomesGrows DEF RotationInv, OneCopy, Uniform, TypeOK
  <1>5. LookupInv'
    <2>1. (Becomes(None) \/ UNCHANGED <<current, witnessed>>)
            /\ None \in Value \cup {None} /\ (settled => settled')
            /\ UNCHANGED <<ring, req, calm>>
      OBVIOUS
    <2>2. current' \in Value \cup {None}
      BY <1>1 DEF TypeOK
    <2> QED
      BY <2>1, <2>2, LookupsWatch DEF IndInv
  <1> QED
    BY <1>1, <1>3, <1>4, <1>5

LEMMA RestartStep ==
  ASSUME IndInv, NEW p \in Replica, Restart(p)
  PROVE  IndInv'
  <1> USE DEF IndInv, Restart
  <1> DEFINE gone == {r \in Request : req[r] # Idle /\ req[r].replica = p}
  <1>1. \A r \in Request : (r \in gone /\ req'[r] = Idle /\ r \notin calm')
                        \/ (r \notin gone /\ req'[r] = req[r]
                              /\ witnessed'[r] = witnessed[r])
    OBVIOUS
  <1>2. TypeOK'
    <2>1. \A r \in Request : req'[r] \in RequestType
      BY <1>1 DEF TypeOK, RequestType
    <2>2. ring' \in [Replica -> {OldRing, NewRing}]
      BY DEF TypeOK
    <2>3. \A r \in Request : req'[r].at = "find" =>
            req'[r].pos \in 1..Len(ring'[req'[r].replica])
      <3> SUFFICES ASSUME NEW r \in Request, req'[r].at = "find"
                   PROVE  req'[r].pos \in 1..Len(ring'[req'[r].replica])
        OBVIOUS
      <3>1. req'[r] = req[r] /\ r \notin gone /\ req[r] # Idle
        BY <1>1 DEF Idle
      <3>2. req[r].replica # p /\ req[r].replica \in Replica
        BY <3>1, ReqShape
      <3> QED
        BY <3>1, <3>2 DEF TypeOK
    <2>4. witnessed' \in [Request -> SUBSET (Value \cup {None})]
      BY DEF TypeOK
    <2> QED
      BY <2>1, <2>2, <2>3, <2>4 DEF TypeOK
  <1>3. PayloadInv'
    BY DEF PayloadInv, ConsumedOnce
  <1>4. RotationInv'
    BY DEF RotationInv, OneCopy, Uniform, TypeOK
  <1>5. LookupInv'
    BY <1>1 DEF LookupInv, Linear, Instant, Idle, TypeOK
  <1> QED
    BY <1>2, <1>3, <1>4, <1>5

LEMMA StartStep ==
  ASSUME IndInv, NEW r \in Request, NEW p \in Replica,
         NEW op \in {"get", "consume"}, Start(r, p, op)
  PROVE  IndInv'
  <1> USE DEF IndInv, Start, Goto
  <1>1. TypeOK'
    <2>1. req'[r] = [at |-> "find", op |-> op, replica |-> p, pos |-> 1]
            /\ \A q \in Request \ {r} : req'[q] = req[q]
      BY DEF TypeOK
    <2>2. req' \in [Request -> RequestType]
      BY <2>1 DEF TypeOK, RequestType
    <2>3. 1 \in 1..Len(ring[p])
      BY RingOf
    <2>4. \A q \in Request : req'[q].at = "find" =>
            req'[q].pos \in 1..Len(ring'[req'[q].replica])
      BY <2>1, <2>3 DEF TypeOK
    <2> QED
      BY <2>2, <2>4 DEF TypeOK
  <1>2. PayloadInv'
    BY DEF PayloadInv, ConsumedOnce
  <1>3. RotationInv'
    BY DEF RotationInv, OneCopy, Uniform
  <1>4. LookupInv'
    BY DEF LookupInv, Linear, Instant, Idle, TypeOK
  <1> QED
    BY <1>1, <1>2, <1>3, <1>4

LEMMA FindNextStep ==
  ASSUME IndInv, NEW r \in Request, FindNext(r)
  PROVE  IndInv'
  <1> USE DEF IndInv
  <1> DEFINE p == req[r].replica
             i == req[r].pos
             k == ring[p][i]
  <1>1. /\ req[r].at = "find" /\ p \in Replica /\ req[r].op \in {"get", "consume"}
        /\ i \in 1..Len(ring[p]) /\ i \in Nat /\ k \in Key
    <2>1. req[r].at = "find" /\ TypeOK
      BY DEF FindNext
    <2>2. p \in Replica /\ req[r].op \in {"get", "consume"} /\ i \in 1..Len(ring[p])
      BY <2>1, ReqShape DEF TypeOK
    <2> QED
      BY <2>1, <2>2, RingOf DEF TypeOK
  <1>2. UNCHANGED <<slot, ring, history>>
    BY DEF FindNext
  <1>3. \E next : /\ req' = [req EXCEPT ![r] = next]
                  /\ \/ /\ slot[k] # None
                        /\ next = [at |-> "answered", op |-> req[r].op,
                                   replica |-> p, result |-> slot[k]]
                     \/ /\ slot[k] # None
                        /\ next = [at |-> "eval", op |-> "consume",
                                   replica |-> p, key |-> k]
                     \/ /\ slot[k] = None
                        /\ i = Len(ring[p])
                        /\ next = [at |-> "answered", op |-> req[r].op,
                                   replica |-> p, result |-> None]
                     \/ /\ slot[k] = None
                        /\ i # Len(ring[p])
                        /\ next = [req[r] EXCEPT !.pos = i + 1]
    BY DEF FindNext, Goto, Answer, LastCandidate
  <1>4. PICK next : /\ req' = [req EXCEPT ![r] = next]
                  /\ \/ /\ slot[k] # None
                        /\ next = [at |-> "answered", op |-> req[r].op,
                                   replica |-> p, result |-> slot[k]]
                     \/ /\ slot[k] # None
                        /\ next = [at |-> "eval", op |-> "consume",
                                   replica |-> p, key |-> k]
                     \/ /\ slot[k] = None
                        /\ i = Len(ring[p])
                        /\ next = [at |-> "answered", op |-> req[r].op,
                                   replica |-> p, result |-> None]
                     \/ /\ slot[k] = None
                        /\ i # Len(ring[p])
                        /\ next = [req[r] EXCEPT !.pos = i + 1]
    BY <1>3
  <1>5. req'[r] = next /\ \A q \in Request \ {r} : req'[q] = req[q]
    BY <1>4 DEF TypeOK
  <1>6. slot[k] \in Value \cup {None}
    BY <1>1 DEF TypeOK
  <1>7. /\ next \in RequestType
        /\ next.at = "find" =>
             next.pos = i + 1 /\ next.replica = p /\ i + 1 \in 1..Len(ring[p])
                /\ slot[k] = None
        /\ next # Idle
    <2>1. req[r] \in [at : {"find"}, op : {"get", "consume"}, replica : Replica,
                      pos : Nat \ {0}]
      BY <1>1, ReqShape
    <2>2. Len(ring[p]) \in Nat
      BY <1>1, RingOf
    <2> QED
      BY <1>1, <1>4, <1>6, <2>1, <2>2 DEF RequestType, Idle
  <1>8. TypeOK'
    <2>1. req' \in [Request -> RequestType]
      BY <1>4, <1>5, <1>7 DEF TypeOK
    <2>2. \A q \in Request : req'[q].at = "find" =>
            req'[q].pos \in 1..Len(ring'[req'[q].replica])
      BY <1>2, <1>5, <1>7 DEF TypeOK
    <2> QED
      BY <1>2, <2>1, <2>2 DEF TypeOK, history
  <1>9. PayloadInv' /\ RotationInv'
    BY <1>2 DEF PayloadInv, ConsumedOnce, RotationInv, OneCopy, Uniform, history
  <1>10. LookupInv'
    <2>1. \A q \in Request : req'[q].at \in {"find", "eval"} =>
            current' \in witnessed'[q]
      BY <1>1, <1>2, <1>5 DEF LookupInv, history
    <2>2. ASSUME r \in calm
          PROVE  /\ settled /\ next # Idle
                 /\ next.at = "find" /\ next.pos # 1 => None \in witnessed[r]
                 /\ next.at = "eval" => next.key = Head(NewRing)
                 /\ next.at = "answered" => next.result \in witnessed[r]
      <3>1. settled /\ current \in witnessed[r] /\ (i # 1 => None \in witnessed[r])
        BY <1>1, <2>2 DEF LookupInv
      <3>2. slot[k] = IF k = Head(NewRing) THEN current ELSE None
        BY <1>1, <3>1 DEF RotationInv, OneCopy
      <3>3. ring[p] = NewRing
        BY <1>1, <3>1 DEF RotationInv, Uniform
      <3>4. i = 1 => k = Head(NewRing)
        BY <3>3, RingFacts
      <3>5. slot[k] = None => None \in witnessed[r]
        BY <3>1, <3>2, <3>4
      <3>6. slot[k] # None => k = Head(NewRing) /\ slot[k] \in witnessed[r]
        BY <3>1, <3>2
      <3>7. CASE slot[k] # None /\ next = [at |-> "answered", op |-> req[r].op,
                                          replica |-> p, result |-> slot[k]]
        BY <3>7, <1>7, <3>1, <3>6
      <3>8. CASE slot[k] # None /\ next = [at |-> "eval", op |-> "consume",
                                          replica |-> p, key |-> k]
        BY <3>8, <1>7, <3>1, <3>6
      <3>9. CASE slot[k] = None /\ next = [at |-> "answered", op |-> req[r].op,
                                          replica |-> p, result |-> None]
        BY <3>9, <1>7, <3>1, <3>5
      <3>10. CASE slot[k] = None /\ next = [req[r] EXCEPT !.pos = i + 1]
        <4>1. next.at = "find"
          BY <1>1, <3>10, ReqShape
        <4> QED
          BY <4>1, <1>7, <3>1, <3>5, <3>10
      <3> QED
        BY <1>4, <3>7, <3>8, <3>9, <3>10
    <2>3. \A q \in calm' : /\ settled'
                           /\ req'[q] # Idle
                           /\ req'[q].at = "find" /\ req'[q].pos # 1 =>
                                None \in witnessed'[q]
                           /\ req'[q].at = "eval" => req'[q].key = Head(NewRing)
                           /\ req'[q].at = "answered" =>
                                req'[q].result \in witnessed'[q]
      BY <1>2, <1>5, <2>2 DEF LookupInv, Linear, Instant, TypeOK, history
    <2> QED
      BY <2>1, <2>3 DEF LookupInv, Linear, Instant
  <1> QED
    BY <1>8, <1>9, <1>10

LEMMA LeaveStep ==
  ASSUME IndInv, NEW r \in Request, Leave(r)
  PROVE  IndInv'
  <1> USE DEF IndInv, Leave, Goto
  <1>1. req'[r] = Idle /\ r \notin calm' /\ \A q \in Request \ {r} :
          req'[q] = req[q] /\ witnessed'[q] = witnessed[q]
    BY DEF TypeOK
  <1>2. TypeOK'
    <2>1. req' \in [Request -> RequestType]
      BY DEF TypeOK, RequestType
    <2>2. \A q \in Request : req'[q].at = "find" =>
            req'[q].pos \in 1..Len(ring'[req'[q].replica])
      BY <1>1 DEF TypeOK, Idle
    <2> QED
      BY <2>1, <2>2 DEF TypeOK
  <1>3. PayloadInv' /\ RotationInv'
    BY DEF PayloadInv, ConsumedOnce, RotationInv, OneCopy, Uniform
  <1>4. LookupInv'
    BY <1>1 DEF LookupInv, Linear, Instant, Idle, TypeOK
  <1> QED
    BY <1>2, <1>3, <1>4

LEMMA EvalStep ==
  ASSUME IndInv, NEW r \in Request, Eval(r)
  PROVE  IndInv'
  <1> USE DEF IndInv
  <1> DEFINE k == req[r].key
             payload == slot[k]
             next == [at |-> "answered", op |-> req[r].op,
                      replica |-> req[r].replica, result |-> payload]
  <1>1. /\ req[r].at = "eval" /\ req[r].op \in {"get", "consume"}
        /\ req[r].replica \in Replica /\ k \in Key
        /\ payload \in Value \cup {None}
    BY ReqShape DEF Eval, TypeOK
  <1>2. /\ req' = [req EXCEPT ![r] = next]
        /\ slot' = [slot EXCEPT ![k] = None]
        /\ takes' = IF payload = None THEN takes
                                      ELSE [takes EXCEPT ![payload] = @ + 1]
        /\ IF payload # None /\ payload = current
             THEN Becomes(None) ELSE UNCHANGED <<current, witnessed>>
        /\ UNCHANGED <<ring, written, settled, calm>>
    BY DEF Eval, Goto, Answer, Taken
  <1>3. req'[r] = next /\ \A q \in Request \ {r} : req'[q] = req[q]
    BY <1>2 DEF TypeOK
  <1>4. \A j \in Key : slot'[j] = IF j = k THEN None ELSE slot[j]
    BY <1>2 DEF TypeOK
  <1>5. /\ current' \in Value \cup {None}
        /\ witnessed' \in [Request -> SUBSET (Value \cup {None})]
        /\ \A q \in Request : witnessed[q] \subseteq witnessed'[q]
        /\ \A q \in Request : req[q].at \in {"find", "eval"} =>
             current' \in witnessed'[q]
    BY <1>2, BecomesGrows DEF TypeOK, LookupInv
  <1>6. TypeOK'
    <2>1. next \in RequestType
      BY <1>1 DEF RequestType
    <2>2. req' \in [Request -> RequestType]
      BY <1>2, <2>1 DEF TypeOK
    <2>3. \A q \in Request : req'[q].at = "find" =>
            req'[q].pos \in 1..Len(ring'[req'[q].replica])
      BY <1>2, <1>3 DEF TypeOK
    <2>4. slot' \in [Key -> Value \cup {None}] /\ takes' \in [Value -> Nat]
      BY <1>1, <1>2 DEF TypeOK
    <2> QED
      BY <1>2, <1>5, <2>2, <2>3, <2>4 DEF TypeOK
  <1>7. PayloadInv'
    <2>1. CASE payload = None
      BY <1>2, <1>4, <2>1 DEF PayloadInv, ConsumedOnce
    <2>2. CASE payload # None
      <3>1. payload \in Value /\ takes[payload] = 0 /\ payload \in written
        BY <1>1, <2>2 DEF PayloadInv
      <3>2. \A v \in Value : takes'[v] = IF v = payload THEN 1 ELSE takes[v]
        BY <1>2, <2>2, <3>1 DEF TypeOK
      <3>3. \A j \in Key : slot'[j] # None => slot'[j] = slot[j] /\ slot[j] # payload
                                                /\ slot[j] \in Value
        BY <1>1, <1>4, <2>2 DEF PayloadInv, TypeOK
      <3>4. ConsumedOnce'
        BY <3>2 DEF PayloadInv, ConsumedOnce
      <3>5. \A j \in Key : slot'[j] # None =>
              slot'[j] \in written' /\ takes'[slot'[j]] = 0
        BY <1>2, <3>2, <3>3 DEF PayloadInv
      <3>6. \A i, j \in Key : slot'[i] # None /\ slot'[i] = slot'[j] => i = j
        BY <3>3 DEF PayloadInv
      <3>7. \A v \in Value : v \notin written' => takes'[v] = 0
        BY <1>2, <3>1, <3>2 DEF PayloadInv
      <3> QED
        BY <3>4, <3>5, <3>6, <3>7 DEF PayloadInv
    <2> QED
      BY <2>1, <2>2
  <1>8. RotationInv'
    <2>1. ASSUME settled, NEW j \in Key
          PROVE  slot'[j] = IF j = Head(NewRing) THEN current' ELSE None
      <3>1. \A x \in Key : slot[x] = IF x = Head(NewRing) THEN current ELSE None
        BY <2>1 DEF RotationInv, OneCopy
      <3>2. CASE payload = None
        BY <1>1, <1>2, <1>4, <3>1, <3>2
      <3>3. CASE payload # None
        <4>1. k = Head(NewRing) /\ payload = current
          BY <1>1, <3>1, <3>3
        <4>2. current' = None
          BY <1>2, <3>3, <4>1 DEF Becomes
        <4> QED
          BY <1>4, <3>1, <4>1, <4>2
      <3> QED
        BY <3>2, <3>3
    <2> QED
      BY <1>2, <1>4, <2>1 DEF RotationInv, OneCopy, Uniform
  <1>9. LookupInv'
    <2>1. ASSUME r \in calm PROVE payload \in witnessed'[r] /\ settled
      <3>1. settled /\ k = Head(NewRing) /\ current \in witnessed[r]
        BY <1>1, <2>1 DEF LookupInv
      <3>2. payload = current
        BY <1>1, <3>1 DEF RotationInv, OneCopy
      <3> QED
        BY <1>5, <3>1, <3>2
    <2>2. next.at = "answered" /\ next.result = payload /\ next # Idle
      BY DEF Idle
    <2>3. \A q \in Request : req'[q].at \in {"find", "eval"} =>
            current' \in witnessed'[q]
      BY <1>3, <1>5, <2>2
    <2>4. ASSUME NEW q \in calm'
          PROVE  /\ settled'
                 /\ req'[q] # Idle
                 /\ req'[q].at = "find" /\ req'[q].pos # 1 => None \in witnessed'[q]
                 /\ req'[q].at = "eval" => req'[q].key = Head(NewRing)
                 /\ req'[q].at = "answered" => req'[q].result \in witnessed'[q]
      <3>1. q \in calm /\ q \in Request /\ settled' = settled
        BY <1>2, <2>4 DEF TypeOK
      <3>2. CASE q = r
        BY <1>3, <2>1, <2>2, <3>1, <3>2
      <3>3. CASE q # r
        BY <1>3, <1>5, <3>1, <3>3 DEF LookupInv, Linear, Instant
      <3> QED
        BY <3>2, <3>3
    <2> QED
      BY <2>3, <2>4 DEF LookupInv, Linear, Instant
  <1> QED
    BY <1>6, <1>7, <1>8, <1>9

LEMMA NextIndInv == IndInv /\ [Next]_vars => IndInv'
  <1> SUFFICES ASSUME IndInv, [Next]_vars PROVE IndInv'
    OBVIOUS
  <1>1. ASSUME NEW p \in Replica,
               (\E v \in Value : Put(p, v)) \/ Delete(p) \/ Restart(p)
        PROVE  IndInv'
    BY <1>1, PutStep, DeleteStep, RestartStep
  <1>2. ASSUME NEW r \in Request, Lookup(r) PROVE IndInv'
    BY <1>2, StartStep, FindNextStep, EvalStep, LeaveStep DEF Lookup
  <1>3. ASSUME NEW k \in Key, Expire(k) PROVE IndInv'
    BY <1>3, ExpireStep
  <1>4. ASSUME UNCHANGED vars PROVE IndInv'
    BY <1>4 DEF vars, history, IndInv, TypeOK, PayloadInv, ConsumedOnce,
                RotationInv, OneCopy, Uniform, LookupInv, Linear, Instant
  <1> QED
    BY <1>1, <1>2, <1>3, <1>4 DEF Next

LEMMA IndInvHolds == Spec => []IndInv
  <1>1. Init => IndInv
    BY InitIndInv
  <1> QED
    BY <1>1, NextIndInv, PTL DEF Spec

\* Every state of the store has its type, whatever the rings and the lookups.
THEOREM TypeCorrect == Spec => []TypeOK
  <1>1. IndInv => TypeOK
    BY DEF IndInv
  <1> QED
    BY <1>1, IndInvHolds, PTL

\* No record is consumed twice, for any number of keys, replicas and lookups,
\* at any point of a rotation.
THEOREM SingleUse == Spec => []ConsumedOnce
  <1>1. IndInv => ConsumedOnce
    BY DEF IndInv, PayloadInv
  <1> QED
    BY <1>1, IndInvHolds, PTL

\* After the rotation a write or a delete leaves no copy under an old key.
THEOREM OneCopyAfterRotation == Spec => []OneCopy
  <1>1. IndInv => OneCopy
    BY DEF IndInv, RotationInv
  <1> QED
    BY <1>1, IndInvHolds, PTL

\* From then on each lookup sees the record as it was at one instant of it.
THEOREM LookupsLinear == Spec => []Linear
  <1>1. IndInv => Linear
    BY DEF IndInv, LookupInv
  <1> QED
    BY <1>1, IndInvHolds, PTL

-----------------------------------------------------------------------------
(* The refinement: every step looks like a step of AtomicRecord.            *)

\* What the mapping makes of a request, given where it is.
LEMMA MappedCalls ==
  ASSUME IndInv, NEW r \in Request
  PROVE  /\ r \notin calm => CallOf(r) = "nothing" /\ AnswerOf(r) = NoAnswer
         /\ r \in calm => CallOf(r) = req[r].op /\ CallOf(r) \in {"get", "consume"}
         /\ r \in calm /\ req[r].at = "find" /\ req[r].pos = 1 => AnswerOf(r) = NoAnswer
         /\ r \in calm /\ req[r].at = "find" /\ req[r].pos # 1 => AnswerOf(r) = None
         /\ r \in calm /\ req[r].at = "eval" => AnswerOf(r) = NoAnswer
         /\ r \in calm /\ req[r].at = "answered" => AnswerOf(r) = req[r].result
  <1>1. r \in calm => req[r].at \in {"find", "eval", "answered"}
    BY ReqShape DEF IndInv, LookupInv
  <1>2. req[r].at = "find" => req[r].pos \in Nat \ {0}
    BY ReqShape DEF IndInv
  <1> QED
    BY <1>1, <1>2, ReqShape DEF IndInv, CallOf, AnswerOf

\* A step that leaves every lookup where it is changes neither the calls nor
\* the answers of the abstract record.
LEMMA MappedSame ==
  ASSUME UNCHANGED <<req, calm>>
  PROVE  Calls' = Calls /\ Answers' = Answers
  BY DEF CallOf, AnswerOf, Calls, Answers

\* A step of the lookup r alone.
LEMMA MappedOne ==
  ASSUME IndInv, NEW r \in Request,
         \A q \in Request \ {r} : req'[q] = req[q] /\ (q \in calm' <=> q \in calm)
  PROVE  /\ Calls' = [Calls EXCEPT ![r] = CallOf(r)']
         /\ Answers' = [Answers EXCEPT ![r] = AnswerOf(r)']
         /\ Calls[r] = CallOf(r) /\ Answers[r] = AnswerOf(r)
  <1>1. \A q \in Request \ {r} : CallOf(q)' = CallOf(q) /\ AnswerOf(q)' = AnswerOf(q)
    BY DEF CallOf, AnswerOf
  <1> QED
    BY <1>1 DEF Calls, Answers

LEMMA AtomicInit == ASSUME Init PROVE Atomic!Init
  BY DEF Init, Atomic!Init, Calls, Answers, CallOf, AnswerOf, Idle

LEMMA WriteMaps ==
  ASSUME IndInv, NEW p \in Replica, NEW v \in Value, Put(p, v)
  PROVE  Atomic!Next
  BY MappedSame DEF Put, Becomes, Atomic!Next, Atomic!Write

LEMMA DeleteMaps ==
  ASSUME IndInv, NEW p \in Replica, Delete(p)
  PROVE  Atomic!Next
  BY MappedSame DEF Delete, Becomes, Atomic!Next, Atomic!Erase

LEMMA ExpireMaps ==
  ASSUME IndInv, NEW k \in Key, Expire(k)
  PROVE  [Atomic!Next]_(Atomic!vars)
  BY MappedSame DEF Expire, Becomes, Atomic!Next, Atomic!Erase, Atomic!vars

\* A restart ends the rotation of the replica, so nothing was settled before it.
LEMMA RestartMaps ==
  ASSUME IndInv, NEW p \in Replica, Restart(p)
  PROVE  UNCHANGED Atomic!vars
  <1>1. calm = {}
    BY DEF Restart, IndInv, RotationInv, LookupInv, Uniform
  <1>2. calm' = {}
    BY <1>1 DEF Restart
  <1>3. Calls' = Calls /\ Answers' = Answers
    BY <1>1, <1>2 DEF CallOf, AnswerOf, Calls, Answers
  <1> QED
    BY <1>3 DEF Restart, Atomic!vars

LEMMA StartMaps ==
  ASSUME IndInv, NEW r \in Request, NEW p \in Replica,
         NEW op \in {"get", "consume"}, Start(r, p, op)
  PROVE  [Atomic!Next]_(Atomic!vars)
  <1>1. /\ req'[r] = [at |-> "find", op |-> op, replica |-> p, pos |-> 1]
        /\ \A q \in Request \ {r} : req'[q] = req[q] /\ (q \in calm' <=> q \in calm)
        /\ UNCHANGED current
    BY DEF Start, Goto, IndInv, TypeOK
  <1>2. r \notin calm
    BY DEF Start, IndInv, LookupInv
  <1>3. Calls' = [Calls EXCEPT ![r] = CallOf(r)']
          /\ Answers' = [Answers EXCEPT ![r] = AnswerOf(r)']
          /\ Calls[r] = "nothing" /\ Answers[r] = NoAnswer
    BY <1>1, <1>2, MappedOne, MappedCalls
  <1>4. AnswerOf(r)' = NoAnswer
    BY <1>1 DEF AnswerOf
  <1>5. CallOf(r)' = op \/ CallOf(r)' = "nothing"
    BY <1>1 DEF CallOf
  <1>6. Answers' = Answers
    BY <1>3, <1>4 DEF Answers
  <1>7. CASE CallOf(r)' = op
    BY <1>1, <1>3, <1>6, <1>7 DEF Atomic!Next, Atomic!Call
  <1>8. CASE CallOf(r)' = "nothing"
    <2>1. Calls' = Calls
      BY <1>3, <1>8 DEF Calls
    <2> QED
      BY <1>1, <1>6, <2>1 DEF Atomic!vars
  <1> QED
    BY <1>5, <1>7, <1>8

LEMMA LeaveMaps ==
  ASSUME IndInv, NEW r \in Request, Leave(r)
  PROVE  Atomic!Next
  <1>1. \A q \in Request \ {r} : req'[q] = req[q] /\ (q \in calm' <=> q \in calm)
    BY DEF Leave, Goto, IndInv, TypeOK
  <1>2. CallOf(r)' = "nothing" /\ AnswerOf(r)' = NoAnswer
    BY DEF Leave, CallOf, AnswerOf
  <1> QED
    BY <1>1, <1>2, MappedOne DEF Leave, Atomic!Next, Atomic!Leave

\* The content of the abstract record is what the first key holds, and a lookup
\* that has not missed yet is at that key.
LEMMA CalmLooksHere ==
  ASSUME IndInv, NEW r \in calm, req[r].at = "find"
  PROVE  LET k == ring[req[r].replica][req[r].pos] IN
           /\ req[r].pos = 1 => slot[k] = current
           /\ req[r].pos # 1 => slot[k] = None
  <1> DEFINE p == req[r].replica
             i == req[r].pos
             k == ring[p][i]
  <1>1. r \in Request /\ settled /\ i \in 1..Len(ring[p]) /\ p \in Replica
    BY ReqShape DEF IndInv, LookupInv, TypeOK
  <1>2. ring[p] = NewRing
    BY <1>1 DEF IndInv, RotationInv, Uniform
  <1>3. k \in Key
    BY <1>1, RingOf DEF IndInv
  <1>4. slot[k] = IF k = Head(NewRing) THEN current ELSE None
    BY <1>1, <1>3 DEF IndInv, RotationInv, OneCopy
  <1>5. i = 1 => k = Head(NewRing)
    BY <1>2, RingFacts
  <1>6. i # 1 => k # Head(NewRing)
    BY <1>1, <1>2, NewKeyAssumption
  <1> QED
    BY <1>4, <1>5, <1>6

LEMMA FindNextMaps ==
  ASSUME IndInv, NEW r \in Request, FindNext(r)
  PROVE  [Atomic!Next]_(Atomic!vars)
  <1> DEFINE p == req[r].replica
             i == req[r].pos
             k == ring[p][i]
  <1>1. /\ req[r].at = "find" /\ req[r] # Idle /\ i \in Nat \ {0}
        /\ req[r] \in [at : {"find"}, op : {"get", "consume"}, replica : Replica,
                       pos : Nat \ {0}]
        /\ UNCHANGED <<current, calm>>
    BY ReqShape DEF FindNext, IndInv, history, Idle
  <1>2. \A q \in Request \ {r} : req'[q] = req[q] /\ (q \in calm' <=> q \in calm)
    BY <1>1 DEF FindNext, Goto, IndInv, TypeOK
  <1>3. Calls' = [Calls EXCEPT ![r] = CallOf(r)']
          /\ Answers' = [Answers EXCEPT ![r] = AnswerOf(r)']
          /\ Calls[r] = CallOf(r) /\ Answers[r] = AnswerOf(r)
    BY <1>2, MappedOne
  <1>4. CASE r \notin calm
    <2>1. r \notin calm'
      BY <1>1, <1>4
    <2>2. CallOf(r)' = CallOf(r) /\ AnswerOf(r)' = AnswerOf(r)
      BY <1>4, <2>1 DEF CallOf, AnswerOf
    <2>3. Calls' = Calls /\ Answers' = Answers
      BY <1>3, <2>2 DEF Calls, Answers
    <2> QED
      BY <1>1, <2>3 DEF Atomic!vars
  <1>5. CASE r \in calm
    <2>1. r \in calm' /\ CallOf(r) = req[r].op /\ req[r].op \in {"get", "consume"}
      BY <1>1, <1>5, MappedCalls
    <2>2. /\ i = 1 => slot[k] = current
          /\ i # 1 => slot[k] = None
      BY <1>1, <1>5, CalmLooksHere
    <2>3. req'[r].op = req[r].op
            /\ \/ slot[k] # None /\ req[r].op = "get"
                    /\ req'[r].at = "answered" /\ req'[r].result = slot[k]
               \/ slot[k] # None /\ req'[r].at = "eval"
               \/ slot[k] = None /\ req'[r].at = "answered" /\ req'[r].result = None
               \/ slot[k] = None /\ req'[r].at = "find" /\ req'[r].pos = i + 1
      BY <1>1 DEF FindNext, Goto, Answer, IndInv, TypeOK
    <2>4. CallOf(r)' = CallOf(r)
      BY <2>1, <2>3 DEF CallOf
    <2>5. Calls' = Calls
      BY <1>3, <2>4 DEF Calls
    <2>6. CASE i # 1
      <3>1. AnswerOf(r) = None /\ AnswerOf(r)' = None
        <4>1. AnswerOf(r) = None
          BY <1>1, <1>5, <2>6, MappedCalls DEF AnswerOf
        <4>2. \/ req'[r].at = "answered" /\ req'[r].result = None
              \/ req'[r].at = "find" /\ req'[r].pos = i + 1
          BY <2>2, <2>3, <2>6
        <4>3. i \in Nat \ {0} /\ i + 1 > 1
          BY <1>1
        <4> QED
          BY <2>1, <4>1, <4>2, <4>3 DEF AnswerOf
      <3>2. Answers' = Answers
        BY <1>3, <3>1 DEF Answers
      <3> QED
        BY <1>1, <2>5, <3>2 DEF Atomic!vars
    <2>7. CASE i = 1
      <3>1. AnswerOf(r) = NoAnswer
        BY <1>1, <1>5, <2>7, MappedCalls
      <3>2. CASE slot[k] # None /\ req'[r].at = "eval"
        <4>1. AnswerOf(r)' = NoAnswer
          BY <3>2 DEF AnswerOf
        <4>2. Answers' = Answers
          BY <1>3, <3>1, <4>1 DEF Answers
        <4> QED
          BY <1>1, <2>5, <4>2 DEF Atomic!vars
      <3>3. CASE slot[k] # None /\ req[r].op = "get"
                   /\ req'[r].at = "answered" /\ req'[r].result = slot[k]
        <4>1. AnswerOf(r)' = current
          BY <2>1, <2>2, <2>7, <3>3 DEF AnswerOf
        <4> QED
          BY <1>1, <1>3, <2>1, <2>5, <3>1, <3>3, <4>1
             DEF Atomic!Next, Atomic!Read, Atomic!Answered
      <3>4. CASE /\ slot[k] = None
                 /\ \/ req'[r].at = "answered" /\ req'[r].result = None
                    \/ req'[r].at = "find" /\ req'[r].pos = i + 1
        <4>1. AnswerOf(r)' = None /\ current = None
          BY <2>1, <2>2, <2>7, <3>4 DEF AnswerOf
        <4>2. Atomic!Read(r) \/ Atomic!Take(r)
          BY <1>1, <1>3, <2>1, <2>5, <3>1, <4>1
             DEF Atomic!Read, Atomic!Take, Atomic!Answered
        <4> QED
          BY <4>2 DEF Atomic!Next
      <3> QED
        BY <2>3, <3>2, <3>3, <3>4
    <2> QED
      BY <2>6, <2>7
  <1> QED
    BY <1>4, <1>5

LEMMA EvalMaps ==
  ASSUME IndInv, NEW r \in Request, Eval(r)
  PROVE  [Atomic!Next]_(Atomic!vars)
  <1>1. /\ req[r].at = "eval" /\ req[r].op = "consume" /\ req[r].key \in Key
        /\ UNCHANGED calm
        /\ req'[r].at = "answered" /\ req'[r].op = "consume"
        /\ req'[r].result = slot[req[r].key]
        /\ current' \in {current, None}
        /\ slot[req[r].key] = current => current' = None
    BY ReqShape DEF Eval, Goto, Answer, Becomes, IndInv, TypeOK
  <1>2. \A q \in Request \ {r} : req'[q] = req[q] /\ (q \in calm' <=> q \in calm)
    BY <1>1 DEF Eval, Goto, IndInv, TypeOK
  <1>3. Calls' = [Calls EXCEPT ![r] = CallOf(r)']
          /\ Answers' = [Answers EXCEPT ![r] = AnswerOf(r)']
          /\ Calls[r] = CallOf(r) /\ Answers[r] = AnswerOf(r)
    BY <1>2, MappedOne
  <1>4. CallOf(r)' = CallOf(r)
    BY <1>1 DEF CallOf
  <1>5. Calls' = Calls
    BY <1>3, <1>4 DEF Calls
  <1>6. CASE r \notin calm
    <2>1. AnswerOf(r)' = AnswerOf(r)
      BY <1>1, <1>6 DEF AnswerOf
    <2>2. Answers' = Answers
      BY <1>3, <2>1 DEF Answers
    <2> QED
      BY <1>1, <1>5, <2>2 DEF Atomic!vars, Atomic!Next, Atomic!Erase
  <1>7. CASE r \in calm
    <2>1. slot[req[r].key] = current
      BY <1>1, <1>7 DEF IndInv, LookupInv, RotationInv, OneCopy
    <2>2. AnswerOf(r) = NoAnswer /\ CallOf(r) = "consume" /\ AnswerOf(r)' = current
      BY <1>1, <1>7, <2>1, MappedCalls DEF AnswerOf
    <2> QED
      BY <1>1, <1>3, <1>5, <2>1, <2>2
         DEF Atomic!Next, Atomic!Take, Atomic!Answered
  <1> QED
    BY <1>6, <1>7

LEMMA NextMaps ==
  ASSUME IndInv, [Next]_vars
  PROVE  [Atomic!Next]_(Atomic!vars)
  <1>1. ASSUME NEW p \in Replica,
               (\E v \in Value : Put(p, v)) \/ Delete(p) \/ Restart(p)
        PROVE  [Atomic!Next]_(Atomic!vars)
    BY <1>1, WriteMaps, DeleteMaps, RestartMaps
  <1>2. ASSUME NEW r \in Request, Lookup(r) PROVE [Atomic!Next]_(Atomic!vars)
    BY <1>2, StartMaps, FindNextMaps, EvalMaps, LeaveMaps DEF Lookup
  <1>3. ASSUME NEW k \in Key, Expire(k) PROVE [Atomic!Next]_(Atomic!vars)
    BY <1>3, ExpireMaps
  <1>4. ASSUME UNCHANGED vars PROVE UNCHANGED Atomic!vars
    BY <1>4, MappedSame DEF vars, history, Atomic!vars
  <1> QED
    BY <1>1, <1>2, <1>3, <1>4 DEF Next

\* For any rings, replicas and lookups: for the lookups begun after a rotation
\* is over and the record was written or deleted since, the Redis keys, the
\* sequence of GETs and the consuming script implement an atomic record.
THEOREM RefinesAtomicRecord == Spec => ImplementsAtomic
  <1>1. Init => Atomic!Init
    BY AtomicInit
  <1>2. IndInv /\ [Next]_vars => [Atomic!Next]_(Atomic!vars)
    BY NextMaps
  <1> QED
    BY <1>1, <1>2, IndInvHolds, PTL DEF Spec, ImplementsAtomic, Atomic!Spec

=============================================================================
