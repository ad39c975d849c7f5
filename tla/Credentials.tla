---------------------------- MODULE Credentials ----------------------------
(***************************************************************************)
(* The Yandex credential of one principal (auth/credentials.py):           *)
(* StoredCredentialProvider.resolve and _refresh on several replicas that   *)
(* share the token store, while the user signs in again (the OAuth          *)
(* callback) or revokes.  Each replica has its own lock for the principal,  *)
(* so refreshes exclude each other within a replica only, and neither the   *)
(* callback nor a revocation takes the lock.                                *)
(*                                                                         *)
(* A request is suspended at every store call, at the lock and at the call  *)
(* to Yandex, and may be cancelled there: the client's own deadline wraps   *)
(* the credential lookup (clients/base.py:99-103).                          *)
(***************************************************************************)
EXTENDS Integers

CONSTANTS
  Replica,   \* server processes
  Request,   \* concurrent tool calls of the principal
  MaxGrant,  \* bound on the account events: sign-ins and revocations
  MaxAccess  \* bound on the access tokens Yandex issues

ASSUME BoundAssumption == MaxGrant \in Nat /\ MaxAccess \in Nat

None == [kind |-> "none"]

ASSUME NoneAssumption == None \notin Request \cup Replica

\* Access tokens are numbered in the order Yandex issues them, 0 is an empty
\* one.  "grant" names the sign-in a record goes back to.
Record == [kind : {"record"}, grant : 1..MaxGrant, access : 0..MaxAccess,
           refreshable : BOOLEAN]

VARIABLES
  downstream,  \* the stored record, or None
  expired,     \* access tokens with at most 30 seconds left
  issued,      \* number of access tokens Yandex issued
  lock,        \* holder of each replica's lock for the principal
  req,         \* the tool calls
  \* history of what happened, read by the properties only
  events,      \* number of sign-ins and revocations
  inForce,     \* the last sign-in, 0 after a revocation
  overlap,     \* whether a refresh was under way at the last such event
  refreshed,   \* by replica: access tokens it replaced
  writer       \* the replica that wrote the record, None for the callback

history == <<events, inForce, overlap, refreshed, writer>>
vars == <<downstream, expired, issued, lock, req, history>>

Idle == [at |-> "idle"]

RequestType ==
  {Idle}
  \cup [at : {"get", "reread"}, replica : Replica]
  \cup [at : {"locking"}, replica : Replica, seen : Record]
  \cup [at : {"post", "forget"}, replica : Replica, record : Record]
  \cup [at : {"put"}, replica : Replica, old : 1..MaxAccess, record : Record]

TypeOK ==
  /\ downstream \in Record \cup {None}
  /\ downstream # None => downstream.access \in 1..issued
  /\ expired \in SUBSET (1..MaxAccess)
  /\ issued \in 0..MaxAccess
  /\ lock \in [Replica -> Request \cup {None}]
  /\ req \in [Request -> RequestType]
  /\ events \in 0..MaxGrant
  /\ inForce \in 0..MaxGrant
  /\ overlap \in BOOLEAN
  /\ refreshed \in [Replica -> SUBSET (1..MaxAccess)]
  /\ writer \in Replica \cup {None}

Init ==
  /\ downstream = None
  /\ expired = {}
  /\ issued = 0
  /\ lock = [p \in Replica |-> None]
  /\ req = [r \in Request |-> Idle]
  /\ events = 0
  /\ inForce = 0
  /\ overlap = FALSE
  /\ refreshed = [p \in Replica |-> {}]
  /\ writer = None

Goto(r, next) == req' = [req EXCEPT ![r] = next]

Stale(record) == record.access \in expired

-----------------------------------------------------------------------------
(* resolve()                                                               *)

Start(r, p) ==
  /\ req[r] = Idle
  /\ Goto(r, [at |-> "get", replica |-> p])
  /\ UNCHANGED <<downstream, expired, issued, lock, history>>

\* A missing record is an authentication error, a fresh one the result.
Get(r) ==
  /\ req[r].at = "get"
  /\ Goto(r, IF downstream # None /\ Stale(downstream)
               THEN [at |-> "locking", replica |-> req[r].replica,
                     seen |-> downstream]
               ELSE Idle)
  /\ UNCHANGED <<downstream, expired, issued, lock, history>>

-----------------------------------------------------------------------------
(* _refresh()                                                              *)

\* Using what was seen before the lock instead of reading again.
KeepSeen(r) ==
  [at |-> "post", replica |-> req[r].replica, record |-> req[r].seen]

ReadAgain(r) == [at |-> "reread", replica |-> req[r].replica]

LockIgnored(p) == TRUE

LockFree(p) == lock[p] = None

Acquire(r) ==
  /\ req[r].at = "locking"
  /\ LockFree(req[r].replica)
  /\ lock' = [lock EXCEPT ![req[r].replica] = r]
  /\ Goto(r, ReadAgain(r))
  /\ UNCHANGED <<downstream, expired, issued, history>>

HeldForever(p) == lock

Released(p) == [lock EXCEPT ![p] = None]

\* The request ends, with a credential or with an authentication error.
Leave(r) == lock' = Released(req[r].replica) /\ Goto(r, Idle)

Reread(r) ==
  /\ req[r].at = "reread"
  /\ IF downstream = None \/ ~Stale(downstream)
       THEN Leave(r)
       ELSE /\ Goto(r, [at |-> IF downstream.refreshable THEN "post" ELSE "forget",
                        replica |-> req[r].replica, record |-> downstream])
            /\ UNCHANGED lock
  /\ UNCHANGED <<downstream, expired, issued, history>>

Accepts(answer) == answer = "tokens"

\* Yandex answers, or the call fails or times out.
Answer(r, answer) ==
  /\ req[r].at = "post"
  /\ answer = "tokens" => issued < MaxAccess
  /\ issued' = IF answer = "tokens" THEN issued + 1 ELSE issued
  /\ LET current == req[r].record
         access == IF answer = "tokens" THEN issued' ELSE 0
     IN Goto(r, IF Accepts(answer)
                  THEN [at |-> "put", replica |-> req[r].replica,
                        old |-> current.access,
                        record |-> [current EXCEPT !.access = access]]
                  ELSE [req[r] EXCEPT !.at = "forget"])
  /\ UNCHANGED <<downstream, expired, lock, history>>

Put(r) ==
  /\ req[r].at = "put"
  /\ downstream' = req[r].record
  /\ refreshed' = [refreshed EXCEPT ![req[r].replica] = @ \cup {req[r].old}]
  /\ writer' = req[r].replica
  /\ Leave(r)
  /\ UNCHANGED <<expired, issued, events, inForce, overlap>>

Forget(r) ==
  /\ req[r].at = "forget"
  /\ downstream' = None
  /\ Leave(r)
  /\ UNCHANGED <<expired, issued, history>>

Holding(r) == req[r].at \in {"reread", "post", "put", "forget"}

\* A cancelled call, a store that cannot be reached, an answer that is not an
\* object, or a restart: the lock is given up, the store is left as it is.
Cancel(r) ==
  /\ req[r] # Idle
  /\ lock' = IF Holding(r) THEN Released(req[r].replica) ELSE lock
  /\ Goto(r, Idle)
  /\ UNCHANGED <<downstream, expired, issued, history>>

-----------------------------------------------------------------------------
(* The rest of the server and the passing of time.                         *)

\* A refresh has read the record it is going to replace or to delete.
UnderWay == \E r \in Request : req[r].at \in {"post", "put", "forget"}

\* put_downstream() in YandexOAuthCallback.handle
SignIn(refreshable) ==
  /\ events < MaxGrant
  /\ issued < MaxAccess
  /\ events' = events + 1
  /\ inForce' = events'
  /\ overlap' = UnderWay
  /\ issued' = issued + 1
  /\ downstream' = [kind |-> "record", grant |-> events', access |-> issued',
                    refreshable |-> refreshable]
  /\ writer' = None
  /\ UNCHANGED <<expired, lock, req, refreshed>>

\* delete_downstream() in revoke_token()
Revoke ==
  /\ events < MaxGrant
  /\ events' = events + 1
  /\ inForce' = 0
  /\ overlap' = UnderWay
  /\ downstream' = None
  /\ UNCHANGED <<expired, issued, lock, req, refreshed, writer>>

\* Time passes: an access token comes within 30 seconds of its end, or the
\* record within reach of its own expiry.
AccessAges ==
  /\ \E n \in 1..issued \ expired : expired' = expired \cup {n}
  /\ UNCHANGED <<downstream, issued, lock, req, history>>

RecordExpires ==
  /\ downstream # None
  /\ downstream' = None
  /\ UNCHANGED <<expired, issued, lock, req, history>>

Step(r) ==
  \/ Get(r) \/ Acquire(r) \/ Reread(r) \/ Put(r) \/ Forget(r)
  \/ \E answer \in {"tokens", "malformed", "error"} : Answer(r, answer)

Next ==
  \/ \E r \in Request :
       (\E p \in Replica : Start(r, p)) \/ Step(r) \/ Cancel(r)
  \/ \E refreshable \in BOOLEAN : SignIn(refreshable)
  \/ Revoke \/ AccessAges \/ RecordExpires

Spec == Init /\ [][Next]_vars

\* The store answers, the call to Yandex ends (it has a timeout), and the
\* lock is handed over in the order of arrival (anyio.Lock).
Fairness ==
  \A r \in Request : WF_vars(Step(r)) /\ SF_vars(Acquire(r))

FairSpec == Spec /\ Fairness

-----------------------------------------------------------------------------
(* Properties.                                                             *)

\* One refresh per expiry and process: a request that waited for the lock
\* uses what its predecessor obtained and never presents the refresh token
\* of a record its replica has already replaced.
RefreshedOnce ==
  \A r \in Request :
    req[r].at = "post" => req[r].record.access \notin refreshed[req[r].replica]

\* The stored record is that of the last sign-in, and there is none after a
\* revocation, unless a refresh was already under way at that moment.  (When
\* one was, its late write does bring the older record back.)
GrantInForce ==
  downstream # None /\ downstream.grant # inForce => overlap

\* A refresh that fails deletes the record it tried to refresh and no newer
\* one, unless the user signed in during the refresh or another replica
\* wrote the record in the meantime.
ForgetsOwn ==
  \A r \in Request :
    req[r].at = "forget" /\ downstream # None
      => \/ downstream.access = req[r].record.access
         \/ overlap
         \/ writer \notin {None, req[r].replica}

\* Every lookup of a credential ends, however many wait for the same refresh.
ResolveEnds == \A r \in Request : req[r] # Idle ~> req[r] = Idle

=============================================================================
