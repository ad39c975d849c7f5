---------------------------- MODULE RedisRecords ----------------------------
(***************************************************************************)
(* One record of RedisTokenStore (auth/redis_store.py) while an encryption *)
(* key is being rotated replica by replica.                                *)
(*                                                                         *)
(* The Redis key of a record is an HMAC under an encryption key, so a      *)
(* record may be stored under several Redis keys, one per encryption key.  *)
(* A replica writes under the first key of its ring and looks records up   *)
(* under every key of its ring, with one GET after another.  Commands,     *)
(* MULTI transactions and scripts are atomic in Redis; everything else may *)
(* come between two of them.                                               *)
(*                                                                         *)
(* A payload is unique (its nonce is random) and decrypts exactly under    *)
(* the key it was stored with, so a payload stands for its record.  Every  *)
(* kind of record has some of the calls below; here it may get all of them *)
(* and what holds then holds for each kind.                                *)
(***************************************************************************)
EXTENDS Integers, Sequences

CONSTANTS
  Key,       \* encryption keys
  Replica,   \* server processes
  Request,   \* concurrent lookups
  Value,     \* payloads
  OldRing,   \* the ring the replicas were started with
  NewRing,   \* the ring they are restarted with
  Rewrites   \* whether the record is ever rewritten (downstream records are,
             \* states, codes, tokens and recovery handles are not)

InRing(ring) == {ring[i] : i \in 1..Len(ring)}

\* Rotating by prepending a key (docs/deployment.md:23).
ASSUME RingAssumption ==
  /\ OldRing \in Seq(Key) /\ NewRing \in Seq(Key)
  /\ Len(OldRing) > 0 /\ Len(NewRing) > 0
  /\ InRing(OldRing) \subseteq InRing(NewRing)
  /\ Rewrites \in BOOLEAN

\* The key that writes is listed once.
ASSUME NewKeyAssumption == \A i \in 2..Len(NewRing) : NewRing[i] # Head(NewRing)

None == "missing"
NoAnswer == "no answer"

ASSUME ValueAssumption == None \notin Value /\ NoAnswer \notin Value

VARIABLES
  slot,       \* the payload stored under each key
  ring,       \* the ring of each replica
  req,        \* the lookups
  \* history of what happened, read by the properties only
  current,    \* the record an atomic store would hold
  written,    \* the payloads ever stored
  witnessed,  \* the values current had during each lookup
  takes,      \* how often each payload was consumed
  settled,    \* the rotation is over and the record was written or deleted
              \* since
  calm        \* the lookups begun after that

history == <<current, written, witnessed, takes, settled, calm>>
vars == <<slot, ring, req, history>>

Idle == [at |-> "idle"]

RequestType ==
  {Idle}
  \cup [at : {"find"}, op : {"get", "consume"}, replica : Replica,
        pos : Nat \ {0}]
  \cup [at : {"eval"}, op : {"consume"}, replica : Replica, key : Key]
  \cup [at : {"answered"}, op : {"get", "consume"}, replica : Replica,
        result : Value \cup {None}]

TypeOK ==
  /\ slot \in [Key -> Value \cup {None}]
  /\ ring \in [Replica -> {OldRing, NewRing}]
  /\ req \in [Request -> RequestType]
  /\ \A r \in Request :
       req[r].at = "find" => req[r].pos \in 1..Len(ring[req[r].replica])
  /\ current \in Value \cup {None}
  /\ written \in SUBSET Value
  /\ witnessed \in [Request -> SUBSET (Value \cup {None})]
  /\ takes \in [Value -> Nat]
  /\ settled \in BOOLEAN
  /\ calm \in SUBSET Request

Uniform == \A p \in Replica : ring[p] = NewRing

\* The record may be there already, under any key of the first ring.
Init ==
  /\ current \in Value \cup {None}
  /\ \E k \in InRing(OldRing) :
       slot = [j \in Key |-> IF j = k THEN current ELSE None]
  /\ ring = [p \in Replica |-> OldRing]
  /\ req = [r \in Request |-> Idle]
  /\ written = {current} \ {None}
  /\ witnessed = [r \in Request |-> {}]
  /\ takes = [v \in Value |-> 0]
  /\ settled = (OldRing = NewRing /\ slot[Head(NewRing)] = current)
  /\ calm = {}

Goto(r, next) == req' = [req EXCEPT ![r] = next]

\* The record of an atomic store becomes v while the lookups go on.
Becomes(v) ==
  /\ current' = v
  /\ witnessed' = [r \in Request |->
                     IF req[r].at \in {"find", "eval"}
                       THEN witnessed[r] \cup {v} ELSE witnessed[r]]

-----------------------------------------------------------------------------
(* Writes: one transaction or one command.                                 *)

FirstKeyOnly(p) == {Head(ring[p])}

Candidates(p) == InRing(ring[p])

\* _put()
Put(p, v) ==
  /\ v \notin written
  /\ Rewrites \/ written = {}
  /\ slot' = [k \in Key |-> IF k = Head(ring[p]) THEN v
                            ELSE IF k \in Candidates(p) THEN None ELSE slot[k]]
  /\ Becomes(v)
  /\ written' = written \cup {v}
  /\ settled' = (settled \/ Uniform)
  /\ UNCHANGED <<ring, req, takes, calm>>

\* delete_downstream(), revoke_token_pair()
Delete(p) ==
  /\ slot' = [k \in Key |-> IF k \in Candidates(p) THEN None ELSE slot[k]]
  /\ Becomes(None)
  /\ settled' = (settled \/ Uniform)
  /\ UNCHANGED <<ring, req, written, takes, calm>>

-----------------------------------------------------------------------------
(* Lookups                                                                 *)

Start(r, p, op) ==
  /\ req[r] = Idle
  /\ Goto(r, [at |-> "find", op |-> op, replica |-> p, pos |-> 1])
  /\ witnessed' = [witnessed EXCEPT ![r] = {current}]
  /\ calm' = IF settled THEN calm \cup {r} ELSE calm
  /\ UNCHANGED <<slot, ring, current, written, takes, settled>>

Answer(r, result) ==
  [at |-> "answered", op |-> req[r].op, replica |-> req[r].replica,
   result |-> result]

LastCandidate(r) == req[r].pos = Len(ring[req[r].replica])

\* _find(): the next GET
FindNext(r) ==
  /\ req[r].at = "find"
  /\ LET k == ring[req[r].replica][req[r].pos] IN
       \/ /\ slot[k] # None
          /\ req[r].op = "get"
          /\ Goto(r, Answer(r, slot[k]))
       \/ /\ slot[k] # None
          /\ req[r].op = "consume"
          /\ Goto(r, [at |-> "eval", op |-> "consume",
                      replica |-> req[r].replica, key |-> k])
       \/ /\ slot[k] = None
          /\ Goto(r, IF LastCandidate(r) THEN Answer(r, None)
                                         ELSE [req[r] EXCEPT !.pos = @ + 1])
  /\ UNCHANGED <<slot, ring, history>>

NotDeleted(k) == slot

Taken(k) == [slot EXCEPT ![k] = None]

\* _consume(): the script gets the payload again and deletes it
Eval(r) ==
  /\ req[r].at = "eval"
  /\ LET k == req[r].key
         payload == slot[k]
     IN /\ Goto(r, Answer(r, payload))
        /\ slot' = Taken(k)
        /\ takes' = IF payload = None THEN takes
                                      ELSE [takes EXCEPT ![payload] = @ + 1]
        /\ IF payload # None /\ payload = current
             THEN Becomes(None)
             ELSE UNCHANGED <<current, witnessed>>
  /\ UNCHANGED <<ring, written, settled, calm>>

\* The lookup returns, or its connection is lost and its answer with it.
Leave(r) ==
  /\ req[r] # Idle
  /\ Goto(r, Idle)
  /\ witnessed' = [witnessed EXCEPT ![r] = {}]
  /\ calm' = calm \ {r}
  /\ UNCHANGED <<slot, ring, current, written, takes, settled>>

-----------------------------------------------------------------------------
(* The environment                                                         *)

\* Redis drops a payload whose time is over.
Expire(k) ==
  /\ slot[k] # None
  /\ slot' = [slot EXCEPT ![k] = None]
  /\ IF slot[k] = current THEN Becomes(None) ELSE UNCHANGED <<current, witnessed>>
  /\ UNCHANGED <<ring, req, written, takes, settled, calm>>

\* A replica is restarted with the new ring.
Restart(p) ==
  /\ ring[p] # NewRing
  /\ ring' = [ring EXCEPT ![p] = NewRing]
  /\ LET gone == {r \in Request : req[r] # Idle /\ req[r].replica = p} IN
       /\ req' = [r \in Request |-> IF r \in gone THEN Idle ELSE req[r]]
       /\ witnessed' = [r \in Request |-> IF r \in gone THEN {} ELSE witnessed[r]]
       /\ calm' = calm \ gone
  /\ UNCHANGED <<slot, current, written, takes, settled>>

Lookup(r) ==
  \/ \E p \in Replica, op \in {"get", "consume"} : Start(r, p, op)
  \/ FindNext(r) \/ Eval(r) \/ Leave(r)

Next ==
  \/ \E p \in Replica : (\E v \in Value : Put(p, v)) \/ Delete(p) \/ Restart(p)
  \/ \E r \in Request : Lookup(r)
  \/ \E k \in Key : Expire(k)

Spec == Init /\ [][Next]_vars

-----------------------------------------------------------------------------
(* Properties.                                                             *)

\* A record is consumed at most once, by whichever replica and under whichever
\* ring: "state and authorization codes are single-use", also while keys rotate
\* (docs/authentication.md:19).
ConsumedOnce == \A v \in Value : takes[v] <= 1

\* Once every replica has the new ring and the record was written or deleted
\* since, it is stored under the new key only, and what is stored is the last
\* record written: no copy under the old key outlives the rotation.
OneCopy ==
  settled => \A k \in Key :
    slot[k] = IF k = Head(NewRing) THEN current ELSE None

\* From then on a lookup sees the record as it was at one instant of the
\* lookup: it returns nothing that was replaced, deleted or consumed before it
\* began, and misses nothing that was there all along.
Instant(r) == req[r].at = "answered" => req[r].result \in witnessed[r]

Linear == \A r \in calm : Instant(r)

\* When all replicas use one ring from the start, that holds of every lookup of
\* a record that is never rewritten, under whichever key it is stored.
LinearAlways == \A r \in Request : Instant(r)

\* "All listed keys decrypt old records, enabling staged rotation"
\* (docs/authentication.md:19): a lookup misses a record only if it was missing
\* at some time during the lookup.
PresentIsFound ==
  \A r \in Request :
    req[r].at = "answered" /\ req[r].result = None => None \in witnessed[r]

\* A lookup of calm takes effect at its first GET that misses, at the script
\* that takes the payload, or at the GET that finds it.
CallOf(r) == IF r \in calm THEN req[r].op ELSE "nothing"

AnswerOf(r) ==
  IF r \in calm /\ req[r].at = "answered" THEN req[r].result
  ELSE IF r \in calm /\ req[r].at = "find" /\ req[r].pos > 1 THEN None
  ELSE NoAnswer

Calls == [r \in Request |-> CallOf(r)]

Answers == [r \in Request |-> AnswerOf(r)]

Atomic == INSTANCE AtomicRecord WITH
  content <- current, asked <- Calls, answer <- Answers

\* Once the rotation is over the store implements an atomic record for every
\* lookup begun from then on: each call takes effect at one instant, and what
\* earlier lookups and expiry do to the record looks like a deletion ("consumed
\* atomically once", docs/security.md:30).
ImplementsAtomic == Atomic!Spec

=============================================================================
