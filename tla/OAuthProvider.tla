---------------------------- MODULE OAuthProvider ----------------------------
(***************************************************************************)
(* The multi-user authorization server of auth/oauth.py: authorize, the    *)
(* Yandex callback, code exchange, refresh rotation and revocation, over a *)
(* token store whose operations are atomic (auth/stores.py).               *)
(*                                                                         *)
(* A request is a process.  It is suspended at every store call and every  *)
(* call to Yandex, so each store operation is one step and any number of   *)
(* steps of other requests may come between two steps of a request.  A     *)
(* request may also stop for good at any of these points: the client went  *)
(* away, the process was restarted, or the store or Yandex failed.         *)
(*                                                                         *)
(* Random tokens are model values that are never minted twice.  The access *)
(* and the refresh token of a pair share one name (the records link them). *)
(* A scope set closed under implication is its size: READ is 1, WRITE 2,   *)
(* DELETE 3.                                                               *)
(***************************************************************************)
EXTENDS Integers, FiniteSets

CONSTANTS
  Client,    \* registered MCP clients
  User,      \* Yandex accounts
  State,     \* values of the state parameter
  Code,      \* authorization codes
  Pair,      \* access/refresh token pairs
  Request,   \* concurrent HTTP requests
  MaxLevel   \* the largest of valid_scopes

ASSUME LevelAssumption == MaxLevel \in Nat \ {0}

Level == 1..MaxLevel

None == [kind |-> "none"]

\* Tokens of different kinds are looked up under different keys.
ASSUME TokenAssumption ==
  /\ State \cap Code = {} /\ State \cap Pair = {} /\ Code \cap Pair = {}
  /\ None \notin State \cup Code \cup Pair
  /\ {"unissued", "over"} \cap Pair = {}

\* principal_id(): a hash of the client and the Yandex subject.
Principal == [client : Client, user : User]

VARIABLES
  states,      \* OAuthStateRecord by state
  codes,       \* AuthorizationCodeRecord by code
  access,      \* AccessTokenRecord by pair
  refresh,     \* RefreshTokenRecord by pair
  downstream,  \* DownstreamCredentialRecord: the state whose callback wrote it
  minted,      \* every random token handed out so far
  req,         \* the request processes
  \* history of what happened, read by the properties only
  proven,      \* the principal Yandex named for a state
  asked,       \* the client and the scopes authorize() was called with
  codeState,   \* the state a code was issued for
  pairCode,    \* the code a pair goes back to
  parent,      \* the pair a pair was rotated from
  killed       \* codes whose current pair was revoked

store == <<states, codes, access, refresh, downstream>>
history == <<proven, asked, codeState, pairCode, parent, killed>>
vars == <<store, minted, req, history>>

StateRecord == [kind : {"state"}, client : Client, level : Level]
GrantRecord == [kind : {"grant"}, subject : Principal, level : Level]

Idle == [at |-> "idle"]

RequestType ==
  {Idle}
  \cup [at : {"identify"}, state : State, pending : StateRecord]
  \cup [at : {"put_downstream", "put_code"}, state : State,
        pending : StateRecord, subject : Principal]
  \cup [at : {"consume", "issue"}, code : Code, record : GrantRecord]
  \cup [at : {"rotate"}, old : Pair, record : GrantRecord]
  \cup [at : {"revoke_get"}, pair : Pair, kind : {"access", "refresh"}]
  \cup [at : {"revoke_pair", "delete_downstream"}, pair : Pair,
        subject : Principal]

TypeOK ==
  /\ states \in [State -> StateRecord \cup {None}]
  /\ codes \in [Code -> GrantRecord \cup {None}]
  /\ access \in [Pair -> GrantRecord \cup {None}]
  /\ refresh \in [Pair -> GrantRecord \cup {None}]
  /\ downstream \in [Principal -> State \cup {None}]
  /\ minted \in SUBSET (State \cup Code \cup Pair)
  /\ req \in [Request -> RequestType]
  /\ proven \in [State -> Principal \cup {None}]
  /\ asked \in [State -> StateRecord \cup {None}]
  /\ codeState \in [Code -> State \cup {None}]
  /\ pairCode \in [Pair -> Code \cup {None}]
  /\ parent \in [Pair -> Pair \cup {None}]
  /\ killed \in SUBSET Code

Init ==
  /\ states = [s \in State |-> None]
  /\ codes = [k \in Code |-> None]
  /\ access = [p \in Pair |-> None]
  /\ refresh = [p \in Pair |-> None]
  /\ downstream = [u \in Principal |-> None]
  /\ minted = {}
  /\ req = [r \in Request |-> Idle]
  /\ proven = [s \in State |-> None]
  /\ asked = [s \in State |-> None]
  /\ codeState = [k \in Code |-> None]
  /\ pairCode = [p \in Pair |-> None]
  /\ parent = [p \in Pair |-> None]
  /\ killed = {}

Goto(r, next) == req' = [req EXCEPT ![r] = next]

\* Reading a single-use record instead of consuming it.
ReadOnly(records, key) == records

Consumed(records, key) == [records EXCEPT ![key] = None]

Mint(token) ==
  /\ token \notin minted
  /\ minted' = minted \cup {token}

-----------------------------------------------------------------------------
(* authorize(): the checks on client, redirect URI, scopes and resource    *)
(* have passed, the pending authorization is stored.                       *)

Authorize(c, level, s) ==
  /\ Mint(s)
  /\ LET record == [kind |-> "state", client |-> c, level |-> level]
     IN /\ states' = [states EXCEPT ![s] = record]
        /\ asked' = [asked EXCEPT ![s] = record]
  /\ UNCHANGED <<codes, access, refresh, downstream, req, proven, codeState,
                 pairCode, parent, killed>>

-----------------------------------------------------------------------------
(* YandexOAuthCallback.handle                                              *)

\* The state is gone before anything is known about the rest of the request;
\* a callback whose state is missing fails and changes nothing.
CallbackConsume(r, s) ==
  /\ req[r] = Idle
  /\ states[s] # None
  /\ states' = Consumed(states, s)
  /\ Goto(r, [at |-> "identify", state |-> s, pending |-> states[s]])
  /\ UNCHANGED <<codes, access, refresh, downstream, minted, history>>

\* Both calls to Yandex succeeded and named the account.
CallbackIdentify(r, u) ==
  /\ req[r].at = "identify"
  /\ LET s == req[r].state
         subject == [client |-> req[r].pending.client, user |-> u]
     IN /\ Goto(r, [at |-> "put_downstream", state |-> s,
                    pending |-> req[r].pending, subject |-> subject])
        /\ proven' = [proven EXCEPT ![s] = subject]
  /\ UNCHANGED <<store, minted, asked, codeState, pairCode, parent, killed>>

CallbackPutDownstream(r) ==
  /\ req[r].at = "put_downstream"
  /\ downstream' = [downstream EXCEPT ![req[r].subject] = req[r].state]
  /\ Goto(r, [req[r] EXCEPT !.at = "put_code"])
  /\ UNCHANGED <<states, codes, access, refresh, minted, history>>

\* complete_authorization_record()
CallbackPutCode(r, k) ==
  /\ req[r].at = "put_code"
  /\ Mint(k)
  /\ codes' = [codes EXCEPT ![k] = [kind |-> "grant",
                                    subject |-> req[r].subject,
                                    level |-> req[r].pending.level]]
  /\ codeState' = [codeState EXCEPT ![k] = req[r].state]
  /\ Goto(r, Idle)
  /\ UNCHANGED <<states, access, refresh, downstream, proven, asked, pairCode,
                 parent, killed>>

-----------------------------------------------------------------------------
(* The token endpoint.  The SDK authenticates the client, loads the code   *)
(* or the refresh token, verifies it (PKCE, redirect URI) and only then    *)
(* calls the exchange.                                                     *)

\* load_authorization_code()
ExchangeLoad(r, c, k) ==
  /\ req[r] = Idle
  /\ codes[k] # None
  /\ codes[k].subject.client = c
  /\ Goto(r, [at |-> "consume", code |-> k, record |-> codes[k]])
  /\ UNCHANGED <<store, minted, history>>

\* exchange_authorization_code() up to its comparison
ExchangeConsume(r) ==
  /\ req[r].at = "consume"
  /\ LET k == req[r].code IN
       /\ Goto(r, IF codes[k] # None /\ codes[k] = req[r].record
                    THEN [req[r] EXCEPT !.at = "issue"]
                    ELSE Idle)
       /\ codes' = Consumed(codes, k)
  /\ UNCHANGED <<states, access, refresh, downstream, minted, history>>

\* _issue_token_pair(): put_token_pair writes both records at once
ExchangeIssue(r, p) ==
  /\ req[r].at = "issue"
  /\ Mint(p)
  /\ access' = [access EXCEPT ![p] = req[r].record]
  /\ refresh' = [refresh EXCEPT ![p] = req[r].record]
  /\ pairCode' = [pairCode EXCEPT ![p] = req[r].code]
  /\ Goto(r, Idle)
  /\ UNCHANGED <<states, codes, downstream, proven, asked, codeState, parent,
                 killed>>

WithinValidScopes(level, record) == level <= MaxLevel

WithinGrant(level, record) == level <= record.level

NarrowedTo(record, level) == [record EXCEPT !.level = level]

\* load_refresh_token() and the scope checks of exchange_refresh_token()
RefreshLoad(r, c, p, level) ==
  /\ req[r] = Idle
  /\ refresh[p] # None
  /\ refresh[p].subject.client = c
  /\ WithinGrant(level, refresh[p])
  /\ Goto(r, [at |-> "rotate", old |-> p,
              record |-> NarrowedTo(refresh[p], level)])
  /\ UNCHANGED <<store, minted, history>>

AccessAddedOnly(p, q, record) == [access EXCEPT ![q] = record]

RotatedAccess(p, q, record) ==
  [access EXCEPT ![p] = None, ![q] = record]

RotatedRefresh(p, q, record) ==
  [refresh EXCEPT ![p] = None, ![q] = record]

TrustsLoaded(p) == TRUE

StillValid(p) == refresh[p] # None

\* rotate_token_pair(): under the store's lock, or one script in Redis
RefreshRotate(r, q) ==
  /\ req[r].at = "rotate"
  /\ StillValid(req[r].old)
  /\ Mint(q)
  /\ LET p == req[r].old IN
       /\ access' = RotatedAccess(p, q, req[r].record)
       /\ refresh' = RotatedRefresh(p, q, req[r].record)
       /\ pairCode' = [pairCode EXCEPT ![q] = pairCode[p]]
       /\ parent' = [parent EXCEPT ![q] = p]
  /\ Goto(r, Idle)
  /\ UNCHANGED <<states, codes, downstream, proven, asked, codeState, killed>>

\* invalid_grant: the token was rotated, revoked or expired since it was loaded
RefreshTooLate(r) ==
  /\ req[r].at = "rotate"
  /\ ~StillValid(req[r].old)
  /\ Goto(r, Idle)
  /\ UNCHANGED <<store, minted, history>>

-----------------------------------------------------------------------------
(* The revocation endpoint and revoke_token().                             *)

TokenRecord(kind, p) == IF kind = "access" THEN access[p] ELSE refresh[p]

\* The SDK loads the token and checks that it is the caller's.
RevokeLoad(r, c, kind, p) ==
  /\ req[r] = Idle
  /\ TokenRecord(kind, p) # None
  /\ TokenRecord(kind, p).subject.client = c
  /\ Goto(r, [at |-> "revoke_get", pair |-> p, kind |-> kind])
  /\ UNCHANGED <<store, minted, history>>

RevokeGet(r) ==
  /\ req[r].at = "revoke_get"
  /\ LET record == TokenRecord(req[r].kind, req[r].pair) IN
       Goto(r, IF record = None
                 THEN Idle
                 ELSE [at |-> "revoke_pair", pair |-> req[r].pair,
                       subject |-> record.subject])
  /\ UNCHANGED <<store, minted, history>>

AccessUntouched(p) == access

RevokedAccess(p) == [access EXCEPT ![p] = None]

RefreshUntouched(p) == refresh

RevokedRefresh(p) == [refresh EXCEPT ![p] = None]

\* revoke_token_pair()
RevokePair(r) ==
  /\ req[r].at = "revoke_pair"
  /\ LET p == req[r].pair IN
       /\ access' = RevokedAccess(p)
       /\ refresh' = RevokedRefresh(p)
       /\ killed' = IF refresh[p] # None THEN killed \cup {pairCode[p]}
                                         ELSE killed
  /\ Goto(r, [req[r] EXCEPT !.at = "delete_downstream"])
  /\ UNCHANGED <<states, codes, downstream, minted, proven, asked, codeState,
                 pairCode, parent>>

RevokeDownstream(r) ==
  /\ req[r].at = "delete_downstream"
  /\ downstream' = [downstream EXCEPT ![req[r].subject] = None]
  /\ Goto(r, Idle)
  /\ UNCHANGED <<states, codes, access, refresh, minted, history>>

-----------------------------------------------------------------------------

\* A request ends early: Yandex answered with an error, PKCE failed, the store
\* was unreachable, the client disconnected or the process was restarted.
Abandon(r) ==
  /\ req[r] # Idle
  /\ Goto(r, Idle)
  /\ UNCHANGED <<store, minted, history>>

\* Expired records are treated as missing.  An access token's hour is over
\* before its refresh token's thirty days.
Expire ==
  /\ \/ \E s \in State :
          /\ states[s] # None
          /\ states' = [states EXCEPT ![s] = None]
          /\ UNCHANGED <<codes, access, refresh, downstream>>
     \/ \E k \in Code :
          /\ codes[k] # None
          /\ codes' = [codes EXCEPT ![k] = None]
          /\ UNCHANGED <<states, access, refresh, downstream>>
     \/ \E p \in Pair :
          /\ access[p] # None
          /\ access' = [access EXCEPT ![p] = None]
          /\ UNCHANGED <<states, codes, refresh, downstream>>
     \/ \E p \in Pair :
          /\ refresh[p] # None
          /\ access[p] = None
          /\ refresh' = [refresh EXCEPT ![p] = None]
          /\ UNCHANGED <<states, codes, access, downstream>>
     \/ \E u \in Principal :
          /\ downstream[u] # None
          /\ downstream' = [downstream EXCEPT ![u] = None]
          /\ UNCHANGED <<states, codes, access, refresh>>
  /\ UNCHANGED <<minted, req, history>>

CallbackStep(r) ==
  \/ \E s \in State : CallbackConsume(r, s)
  \/ \E u \in User : CallbackIdentify(r, u)
  \/ CallbackPutDownstream(r)
  \/ \E k \in Code : CallbackPutCode(r, k)

ExchangeStep(r) ==
  \/ \E c \in Client, k \in Code : ExchangeLoad(r, c, k)
  \/ ExchangeConsume(r)
  \/ \E p \in Pair : ExchangeIssue(r, p)

RefreshStep(r) ==
  \/ \E c \in Client, p \in Pair, level \in Level : RefreshLoad(r, c, p, level)
  \/ \E q \in Pair : RefreshRotate(r, q)
  \/ RefreshTooLate(r)

RevokeStep(r) ==
  \/ \E c \in Client, kind \in {"access", "refresh"}, p \in Pair :
       RevokeLoad(r, c, kind, p)
  \/ RevokeGet(r)
  \/ RevokePair(r)
  \/ RevokeDownstream(r)

Next ==
  \/ \E c \in Client, level \in Level, s \in State : Authorize(c, level, s)
  \/ \E r \in Request :
       CallbackStep(r) \/ ExchangeStep(r) \/ RefreshStep(r) \/ RevokeStep(r)
         \/ Abandon(r)
  \/ Expire

Spec == Init /\ [][Next]_vars

-----------------------------------------------------------------------------
(* Properties.                                                             *)

\* "State and authorization codes are single-use" (docs/authentication.md:19):
\* however callbacks are replayed and interleaved, one authorization request
\* yields at most one code, ...
StateSingleUse ==
  \A j, k \in Code : codeState[j] # None /\ codeState[j] = codeState[k] => j = k

\* ... and one code at most one pair that was not rotated from another.
CodeSingleUse ==
  \A p, q \in Pair :
    /\ pairCode[p] # None
    /\ pairCode[p] = pairCode[q]
    /\ parent[p] = None
    /\ parent[q] = None
    => p = q

\* A refresh token is good for one rotation: two concurrent refreshes with the
\* same token cannot both succeed.
RotationLinear ==
  \A p, q \in Pair : parent[p] # None /\ parent[p] = parent[q] => p = q

Live(p) == access[p] # None \/ refresh[p] # None

\* At most one pair of an authorization is accepted at any time, so issuing
\* and rotating are atomic to every other request.
OneLivePair ==
  \A p, q \in Pair : Live(p) /\ Live(q) /\ pairCode[p] = pairCode[q] => p = q

\* An access token never outlives the refresh token of its pair, and both
\* carry the same rights.
PairConsistent == \A p \in Pair : access[p] # None => access[p] = refresh[p]

\* A live token, a code and a downstream record act for the principal Yandex
\* named in the callback of the authorization they go back to, and with no
\* more rights than that authorization asked for.
GrantOf(record, s) ==
  record.subject = proven[s] /\ record.level <= asked[s].level

PrincipalBound ==
  /\ \A k \in Code : codes[k] # None => GrantOf(codes[k], codeState[k])
  /\ \A p \in Pair :
       refresh[p] # None => GrantOf(refresh[p], codeState[pairCode[p]])
  /\ \A u \in Principal : downstream[u] # None => proven[downstream[u]] = u

\* "Revocation removes the pair": once the current pair of an authorization
\* was revoked, no request, not even one that had loaded the token before,
\* brings that authorization back to life.
RevokedForGood ==
  \A p \in Pair : pairCode[p] \in killed => ~Live(p)

-----------------------------------------------------------------------------
(* What a client may rely on, per authorization code.                      *)

PairsOf(k) == {p \in Pair : pairCode[p] = k}

CurrentPair(k) ==
  IF \E p \in PairsOf(k) : refresh[p] # None
    THEN CHOOSE p \in PairsOf(k) : refresh[p] # None
    ELSE IF PairsOf(k) = {} THEN "unissued" ELSE "over"

Lifecycle == INSTANCE GrantLifecycle WITH
  current <- [k \in Code |-> CurrentPair(k)],
  spent <- minted \cap Pair

\* The provider implements the abstract life of a grant.
ImplementsLifecycle == Lifecycle!Spec

=============================================================================
