---------------------------- MODULE ClientRegistry ----------------------------
(***************************************************************************)
(* Dynamic registration of OAuth clients and the cap on how many clients   *)
(* one network peer may have registered: register_client (auth/oauth.py),  *)
(* put_client of both stores and the registration script of Redis.         *)
(*                                                                         *)
(* Every replica of the server has a ring of keys.  The set of clients of  *)
(* a peer is kept under a name made with the first key of the replica that *)
(* registers, so replicas that start with different keys count apart.  The *)
(* script runs atomically, but with the clock of the moment at which the   *)
(* replica sent it.  Replicas have the same time.                          *)
(***************************************************************************)
EXTENDS Integers, FiniteSets

CONSTANTS
  ClientId,  \* client ids; the SDK draws a new one for each registration
  Peer,      \* addresses of direct network peers, proxies among them
  Replica,
  Key,       \* encryption keys that are first in some ring
  Cap,       \* registration_cap
  Lifetime,  \* client_secret_expiry_seconds
  MaxTime    \* bound of the clock

ASSUME RegistryAssumption ==
  /\ Cap \in Nat \ {0}
  /\ Lifetime \in Nat \ {0}
  /\ MaxTime \in Nat

VARIABLES
  backend,  \* which of the two stores the server uses
  now,      \* time.time()
  first,    \* the first key of each replica
  state,    \* what became of the registration of each client
  request,  \* the record that register_client built, and when
  members   \* the clients that are counted, for each key and peer

registryVars == <<backend, now, first, state, request, members>>

Never == MaxTime + Lifetime + 1

NoRequest == [key |-> "none"]

Requests ==
  [key : Key, peer : Peer, sent : 0..MaxTime, expires : 1..Never]

RegistryTypeOK ==
  /\ backend \in {"memory", "redis"}
  /\ now \in 0..MaxTime
  /\ first \in [Replica -> Key]
  /\ state \in [ClientId -> {"new", "invalid", "sent", "registered", "refused", "lost"}]
  /\ request \in [ClientId -> {NoRequest} \cup Requests]
  /\ members \in [Key \X Peer -> SUBSET ClientId]

\* The memory store belongs to a single process.
RegistryInit ==
  /\ backend \in {"memory", "redis"}
  /\ now = 0
  /\ \E k \in Key : first = [r \in Replica |-> k]
  /\ state = [c \in ClientId |-> "new"]
  /\ request = [c \in ClientId |-> NoRequest]
  /\ members = [kp \in Key \X Peer |-> {}]

\* the registrations for which put_client() was called
Called == {"sent", "registered", "refused"}

\* Only a client with a secret expires, and with its secret.
Expiry(secret) == IF secret THEN now + Lifetime ELSE Never

Submit(c, r) ==
  /\ state[c] = "new"
  /\ \E p \in Peer, secret \in BOOLEAN :
       request' = [request EXCEPT ![c] =
         [key |-> first[r], peer |-> p, sent |-> now, expires |-> Expiry(secret)]]
  /\ state' = [state EXCEPT ![c] = "sent"]
  /\ UNCHANGED <<backend, now, first, members>>

\* No redirect URI, one that is not allowed, or a scope that is not offered.
Invalid(c) ==
  /\ state[c] = "new"
  /\ state' = [state EXCEPT ![c] = "invalid"]
  /\ UNCHANGED <<backend, now, first, request, members>>

\* The clock that decides who has expired: the store's own in memory, inside
\* its lock; in Redis an argument of the script.
Asof(c) == IF backend = "memory" THEN now ELSE request[c].sent

\* the name of the set in which the clients of c's peer are counted
Place(c) == <<request[c].key, request[c].peer>>

\* the clients of the same peer that are counted when the store looks at c
Counted(c) == {d \in members[Place(c)] : request[d].expires > Asof(c)}

HasRoomOffByOne(c) == Cardinality(Counted(c)) <= Cap

HasRoom(c) == Cardinality(Counted(c)) < Cap

NeverExists(c) == FALSE

\* ZSCORE, or the lookup of the record: the client is there already
Exists(c) == c \in Counted(c)

\* put_client() for a client that is new to the store, or runs again: redis-py
\* repeats a script whose answer was lost.  A client that expired while the store
\* was busy is stored and counted all the same; get_client() does not return it.
Register(c) ==
  /\ state[c] \in Called
  /\ IF Exists(c) \/ HasRoom(c)
       THEN /\ state' = [state EXCEPT ![c] = "registered"]
            /\ members' = [members EXCEPT ![Place(c)] = Counted(c) \cup {c}]
       ELSE /\ state' = [state EXCEPT ![c] = "refused"]
            /\ members' = [members EXCEPT ![Place(c)] = Counted(c)]
  /\ UNCHANGED <<backend, now, first, request>>

\* The connection to Redis fails, or the request is cancelled, before the
\* script ran.  (After it has run, only the answer is lost.)
Lose(c) ==
  /\ state[c] = "sent"
  /\ state' = [state EXCEPT ![c] = "lost"]
  /\ UNCHANGED <<backend, now, first, request, members>>

\* A replica restarts with another key prepended; without Redis nothing that
\* was registered or under way outlives the process.
Rotate(r) ==
  /\ \E k \in Key \ {first[r]} :
       first' = [q \in Replica |-> IF backend = "memory" \/ q = r THEN k ELSE first[q]]
  /\ IF backend = "redis"
       THEN UNCHANGED <<state, request, members>>
       ELSE /\ state' = [c \in ClientId |->
                 IF state[c] \in Called THEN "lost" ELSE state[c]]
            /\ members' = [kp \in Key \X Peer |-> {}]
            /\ UNCHANGED request
  /\ UNCHANGED <<backend, now>>

Tick ==
  /\ now < MaxTime
  /\ now' = now + 1
  /\ UNCHANGED <<backend, first, state, request, members>>

RegistryNext ==
  \/ \E c \in ClientId : \/ \E r \in Replica : Submit(c, r)
                       \/ Invalid(c) \/ Register(c) \/ Lose(c)
  \/ \E r \in Replica : Rotate(r)
  \/ Tick

RegistrySpec == RegistryInit /\ [][RegistryNext]_registryVars

-----------------------------------------------------------------------------
(* Properties.                                                             *)

\* get_client() still answers for it
Known(c) == state[c] = "registered" /\ request[c].expires > now

KnownOf(k, p) == {c \in ClientId : Known(c) /\ request[c].key = k /\ request[c].peer = p}

\* At no time does a peer have more usable clients under one key than the cap
\* allows, however late the script of a registration runs, and though expired
\* clients are dropped from the count (stores.py:254, redis_store.py:57-60).
CapHolds ==
  \A k \in Key, p \in Peer : Cardinality(KnownOf(k, p)) <= Cap

\* A registration is refused only if, when it was sent, as many other clients of
\* the same peer and key as the cap allows were registered and had not expired:
\* neither expired clients nor those of another peer use up the cap, nor does a
\* client itself when it is registered again.
RefusedOnlyWhenFull ==
  [][\A c \in ClientId :
       state[c] # "refused" /\ state'[c] = "refused" =>
         Cap <= Cardinality({d \in ClientId \ {c} :
           /\ state[d] = "registered"
           /\ request[d].key = request[c].key
           /\ request[d].peer = request[c].peer
           /\ request[d].expires > request[c].sent})]_registryVars

=============================================================================
