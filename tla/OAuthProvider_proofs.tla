------------------------ MODULE OAuthProvider_proofs ------------------------
(***************************************************************************)
(* Proofs about OAuthProvider, for any number of clients, accounts,        *)
(* concurrent requests and tokens, and, at the end, about ClientRegistry,  *)
(* the registration of the same provider's clients.                        *)
(***************************************************************************)
EXTENDS OAuthProvider, ClientRegistry, FiniteSetTheorems, TLAPS

InCallback(r) == req[r].at \in {"identify", "put_downstream", "put_code"}

\* A random token that was not handed out has no record and no history.
UnmintedInv ==
  /\ \A s \in State : s \notin minted =>
       states[s] = None /\ asked[s] = None /\ proven[s] = None
  /\ \A k \in Code : k \notin minted => codes[k] = None /\ codeState[k] = None
  /\ \A p \in Pair : (p \in minted <=> pairCode[p] # None)
                       /\ (p \notin minted => parent[p] = None)
                       /\ (parent[p] # None => parent[p] \in minted)

\* A state is in the store, or in one callback, or turned into one code.
StateInv ==
  /\ \A s \in State : states[s] # None =>
       states[s] = asked[s] /\ proven[s] = None
         /\ \A k \in Code : codeState[k] # s
  /\ \A r \in Request : InCallback(r) =>
       LET s == req[r].state IN
         /\ states[s] = None
         /\ s \in minted
         /\ req[r].pending = asked[s]
         /\ \A k \in Code : codeState[k] # s
         /\ req[r].at = "identify" => proven[s] = None
         /\ req[r].at # "identify" => proven[s] = req[r].subject
  /\ \A q, r \in Request :
       InCallback(q) /\ InCallback(r) /\ req[q].state = req[r].state => q = r
  /\ StateSingleUse
  /\ \A k \in Code : codeState[k] # None =>
       asked[codeState[k]] # None /\ proven[codeState[k]] # None
  /\ \A u \in Principal : downstream[u] # None => proven[downstream[u]] = u

\* A code is in the store, or in one exchange, or turned into a chain of pairs.
CodeInv ==
  /\ \A k \in Code : codes[k] # None =>
       /\ codeState[k] # None
       /\ GrantOf(codes[k], codeState[k])
       /\ \A p \in Pair : pairCode[p] # k
  /\ \A r \in Request : req[r].at \in {"consume", "issue"} =>
       /\ codeState[req[r].code] # None
       /\ GrantOf(req[r].record, codeState[req[r].code])
  /\ \A r \in Request : req[r].at = "issue" =>
       codes[req[r].code] = None /\ \A p \in Pair : pairCode[p] # req[r].code
  /\ \A q, r \in Request :
       req[q].at = "issue" /\ req[r].at = "issue" /\ req[q].code = req[r].code
         => q = r
  /\ \A p \in Pair : pairCode[p] # None => codeState[pairCode[p]] # None
  /\ CodeSingleUse

\* At most the last pair of a chain has records.
PairInv ==
  /\ \A p \in Pair : refresh[p] # None =>
       /\ pairCode[p] # None
       /\ GrantOf(refresh[p], codeState[pairCode[p]])
       /\ \A q \in Pair : parent[q] # p
  /\ PairConsistent
  /\ \A p, q \in Pair :
       refresh[p] # None /\ refresh[q] # None /\ pairCode[p] = pairCode[q] => p = q
  /\ RotationLinear

\* A refresh in flight carries no more than the grant it goes back to.
RotateInv ==
  \A r \in Request : req[r].at = "rotate" =>
    /\ pairCode[req[r].old] # None
    /\ GrantOf(req[r].record, codeState[pairCode[req[r].old]])

\* Nothing that could bring a revoked grant back is in the store or in flight.
KilledInv ==
  \A k \in killed :
    /\ codes[k] = None /\ codeState[k] # None
    /\ \A r \in Request : req[r].at = "issue" => req[r].code # k
    /\ \A p \in Pair : pairCode[p] = k => refresh[p] = None

IndInv ==
  TypeOK /\ UnmintedInv /\ StateInv /\ CodeInv /\ PairInv /\ RotateInv /\ KilledInv

\* The shape of a request record follows from where the request is.
LEMMA ReqShape ==
  ASSUME TypeOK, NEW r \in Request
  PROVE  /\ req[r] \in RequestType
         /\ req[r].at = "idle" => req[r] = Idle
         /\ req[r].at = "identify" =>
              req[r] \in [at : {"identify"}, state : State, pending : StateRecord]
         /\ req[r].at \in {"put_downstream", "put_code"} =>
              req[r] \in [at : {"put_downstream", "put_code"}, state : State,
                          pending : StateRecord, subject : Principal]
         /\ req[r].at \in {"consume", "issue"} =>
              req[r] \in [at : {"consume", "issue"}, code : Code,
                          record : GrantRecord]
         /\ req[r].at = "rotate" =>
              req[r] \in [at : {"rotate"}, old : Pair, record : GrantRecord]
         /\ req[r].at = "revoke_get" =>
              req[r] \in [at : {"revoke_get"}, pair : Pair,
                          kind : {"access", "refresh"}]
         /\ req[r].at \in {"revoke_pair", "delete_downstream"} =>
              req[r] \in [at : {"revoke_pair", "delete_downstream"}, pair : Pair,
                          subject : Principal]
  BY DEF TypeOK, RequestType, Idle

\* What is known of an issued code never changes.
HistoryStable ==
  \A k \in Code : codeState[k] # None =>
    /\ codeState'[k] = codeState[k]
    /\ proven'[codeState[k]] = proven[codeState[k]]
    /\ asked'[codeState[k]] = asked[codeState[k]]

\* A step that leaves the pairs alone keeps what holds of them.
LEMMA PairFrame ==
  ASSUME IndInv, HistoryStable, UNCHANGED <<access, refresh, pairCode, parent>>
  PROVE  PairInv'
  <1>1. \A p \in Pair : refresh[p] # None =>
          pairCode[p] \in Code /\ codeState[pairCode[p]] # None
    BY DEF IndInv, TypeOK, CodeInv, PairInv
  <1>2. \A p \in Pair : refresh'[p] # None =>
          GrantOf(refresh[p], codeState[pairCode[p]])'
    BY <1>1 DEF IndInv, PairInv, HistoryStable, GrantOf
  <1> QED
    BY <1>2 DEF IndInv, PairInv, PairConsistent, RotationLinear

LEMMA RotateFrame ==
  ASSUME IndInv, HistoryStable, UNCHANGED pairCode,
         \A r \in Request : req'[r].at = "rotate" => req'[r] = req[r]
  PROVE  RotateInv'
  <1>1. \A r \in Request : req[r].at = "rotate" =>
          /\ pairCode[req[r].old] \in Code
          /\ codeState[pairCode[req[r].old]] # None
    BY ReqShape DEF IndInv, TypeOK, CodeInv, RotateInv
  <1> QED
    BY <1>1 DEF IndInv, RotateInv, HistoryStable, GrantOf

LEMMA KilledFrame ==
  ASSUME IndInv, HistoryStable, UNCHANGED <<pairCode, killed>>,
         \A p \in Pair : refresh[p] = None => refresh'[p] = None,
         \A r \in Request : req'[r].at = "issue" => req'[r] = req[r],
         \A k \in Code : codes[k] = None /\ codeState[k] # None => codes'[k] = None
  PROVE  KilledInv'
  BY DEF IndInv, TypeOK, KilledInv, HistoryStable

LEMMA InitIndInv == ASSUME Init PROVE IndInv
  <1>1. TypeOK
    BY DEF Init, TypeOK, RequestType
  <1>2. \A r \in Request : req[r].at = "idle"
    BY DEF Init, Idle
  <1>3. UnmintedInv
    BY DEF Init, UnmintedInv
  <1>4. StateInv
    BY <1>2 DEF Init, StateInv, StateSingleUse, InCallback
  <1>5. CodeInv
    BY <1>2 DEF Init, CodeInv, CodeSingleUse
  <1>6. PairInv /\ RotateInv /\ KilledInv
    BY <1>2 DEF Init, PairInv, PairConsistent, RotationLinear, RotateInv, KilledInv
  <1> QED
    BY <1>1, <1>3, <1>4, <1>5, <1>6 DEF IndInv

LEMMA AuthorizeStep ==
  ASSUME IndInv, NEW c \in Client, NEW level \in Level, NEW s \in State,
         Authorize(c, level, s)
  PROVE  IndInv'
  <1> DEFINE record == [kind |-> "state", client |-> c, level |-> level]
  <1>1. /\ record \in StateRecord /\ record # None
        /\ s \notin minted /\ minted' = minted \cup {s}
        /\ states' = [states EXCEPT ![s] = record]
        /\ asked' = [asked EXCEPT ![s] = record]
        /\ UNCHANGED <<codes, access, refresh, downstream, req, proven, codeState,
                       pairCode, parent, killed>>
    BY DEF Authorize, Mint, StateRecord, None
  <1> HIDE DEF record
  <1>2. TypeOK'
    BY <1>1 DEF IndInv, TypeOK
  <1>3. UnmintedInv'
    BY <1>1, TokenAssumption DEF IndInv, TypeOK, UnmintedInv
  <1>4. StateInv'
    <2>1. states[s] = None /\ asked[s] = None /\ proven[s] = None
      BY <1>1 DEF IndInv, UnmintedInv
    <2>2. \A k \in Code : codeState[k] # s
      BY <2>1, TokenAssumption DEF IndInv, StateInv
    <2>3. \A r \in Request : InCallback(r) => req[r].state # s
      BY <1>1 DEF IndInv, StateInv
    <2> QED
      BY <1>1, <2>1, <2>2, <2>3, ReqShape
         DEF IndInv, TypeOK, StateInv, StateSingleUse, InCallback
  <1>5. CodeInv' /\ PairInv' /\ RotateInv' /\ KilledInv'
    <2>1. \A k \in Code : codeState[k] # s
      BY <1>1, TokenAssumption DEF IndInv, StateInv, UnmintedInv
    <2>2. \A k \in Code : codeState[k] # None => asked'[codeState[k]] = asked[codeState[k]]
      BY <1>1, <2>1 DEF IndInv, TypeOK
    <2>3. CodeInv'
      BY <1>1, <2>2, ReqShape DEF IndInv, TypeOK, CodeInv, GrantOf, CodeSingleUse
    <2>4. HistoryStable
      BY <1>1, <2>2 DEF HistoryStable
    <2> QED
      BY <1>1, <2>3, <2>4, PairFrame, RotateFrame, KilledFrame
  <1> QED
    BY <1>2, <1>3, <1>4, <1>5 DEF IndInv

LEMMA CallbackConsumeStep ==
  ASSUME IndInv, NEW r \in Request, NEW s \in State, CallbackConsume(r, s)
  PROVE  IndInv'
  <1> DEFINE next == [at |-> "identify", state |-> s, pending |-> states[s]]
  <1>1. /\ req[r].at = "idle" /\ states[s] # None /\ states[s] \in StateRecord
        /\ next \in RequestType
        /\ next.at = "identify" /\ next.state = s /\ next.pending = states[s]
        /\ states' = [states EXCEPT ![s] = None]
        /\ req' = [req EXCEPT ![r] = next]
        /\ UNCHANGED <<codes, access, refresh, downstream, minted, history>>
    BY DEF CallbackConsume, Goto, Consumed, Idle, IndInv, TypeOK, RequestType
  <1> HIDE DEF next
  <1>2. TypeOK'
    BY <1>1 DEF IndInv, TypeOK, history
  <1>3. UnmintedInv'
    BY <1>1 DEF IndInv, TypeOK, UnmintedInv, history
  <1>4. StateInv'
    <2>1. s \in minted /\ states[s] = asked[s] /\ proven[s] = None
          /\ \A k \in Code : codeState[k] # s
      BY <1>1 DEF IndInv, UnmintedInv, StateInv
    <2>2. \A q \in Request : InCallback(q) => req[q].state # s
      BY <1>1 DEF IndInv, StateInv
    <2> QED
      BY <1>1, <2>1, <2>2, ReqShape
         DEF IndInv, TypeOK, StateInv, StateSingleUse, InCallback, history
  <1>5. CodeInv'
    BY <1>1, ReqShape DEF IndInv, TypeOK, CodeInv, GrantOf, CodeSingleUse, history
  <1>6. HistoryStable /\ UNCHANGED <<access, refresh, pairCode, parent, killed>>
        /\ \A q \in Request : req'[q].at \in {"rotate", "issue"} => req'[q] = req[q]
    BY <1>1 DEF HistoryStable, history, IndInv, TypeOK
  <1>7. PairInv' /\ RotateInv' /\ KilledInv'
    BY <1>1, <1>6, PairFrame, RotateFrame, KilledFrame
  <1> QED
    BY <1>2, <1>3, <1>4, <1>5, <1>7 DEF IndInv

LEMMA CallbackIdentifyStep ==
  ASSUME IndInv, NEW r \in Request, NEW u \in User, CallbackIdentify(r, u)
  PROVE  IndInv'
  <1> DEFINE s == req[r].state
             subject == [client |-> req[r].pending.client, user |-> u]
             next == [at |-> "put_downstream", state |-> s,
                      pending |-> req[r].pending, subject |-> subject]
  <1>1. /\ req[r].at = "identify" /\ s \in State /\ req[r].pending \in StateRecord
        /\ subject \in Principal /\ subject # None
        /\ next \in RequestType
        /\ next.at = "put_downstream" /\ next.state = s
        /\ next.pending = req[r].pending /\ next.subject = subject
        /\ req' = [req EXCEPT ![r] = next]
        /\ proven' = [proven EXCEPT ![s] = subject]
        /\ UNCHANGED <<states, codes, access, refresh, downstream, minted, asked,
                       codeState, pairCode, parent, killed>>
    <2>1. req[r].at = "identify"
      BY DEF CallbackIdentify
    <2>2. req[r] \in [at : {"identify"}, state : State, pending : StateRecord]
      BY <2>1, ReqShape DEF IndInv
    <2>3. subject \in Principal /\ subject # None
      BY <2>2 DEF StateRecord, Principal, None
    <2>4. next \in RequestType
      BY <2>2, <2>3 DEF RequestType
    <2> QED
      BY <2>1, <2>2, <2>3, <2>4 DEF CallbackIdentify, Goto, store
  <1>2. InCallback(r) /\ proven[s] = None /\ states[s] = None /\ s \in minted
        /\ req[r].pending = asked[s] /\ \A k \in Code : codeState[k] # s
    BY <1>1 DEF IndInv, StateInv, InCallback
  <1> HIDE DEF next, s, subject
  <1>3. TypeOK'
    BY <1>1 DEF IndInv, TypeOK
  <1>4. UnmintedInv'
    BY <1>1, <1>2 DEF IndInv, TypeOK, UnmintedInv
  <1>5. \A q \in Request : InCallback(q) /\ req[q].state = s => q = r
    BY <1>1, <1>2 DEF IndInv, StateInv, s
  <1>6. \A v \in Principal : downstream[v] # None => downstream[v] # s
    <2>1. \A v \in Principal : v # None
      BY DEF Principal, None
    <2> QED
      BY <2>1, <1>2 DEF IndInv, StateInv
  <1>7. StateInv'
    BY <1>1, <1>2, <1>5, <1>6, ReqShape
       DEF IndInv, TypeOK, StateInv, StateSingleUse, InCallback
  <1>8. \A k \in Code : codeState[k] # None => proven'[codeState[k]] = proven[codeState[k]]
    BY <1>1, <1>2 DEF IndInv, TypeOK
  <1>9. CodeInv'
    BY <1>1, <1>8, ReqShape DEF IndInv, TypeOK, CodeInv, GrantOf, CodeSingleUse
  <1>10. HistoryStable
         /\ \A q \in Request : req'[q].at \in {"rotate", "issue"} => req'[q] = req[q]
    BY <1>1, <1>8 DEF HistoryStable, IndInv, TypeOK
  <1>11. PairInv' /\ RotateInv' /\ KilledInv'
    BY <1>1, <1>10, PairFrame, RotateFrame, KilledFrame
  <1> QED
    BY <1>3, <1>4, <1>7, <1>9, <1>11 DEF IndInv

LEMMA CallbackPutDownstreamStep ==
  ASSUME IndInv, NEW r \in Request, CallbackPutDownstream(r)
  PROVE  IndInv'
  <1> DEFINE s == req[r].state
             next == [req[r] EXCEPT !.at = "put_code"]
  <1>1. /\ req[r].at = "put_downstream" /\ s \in State
        /\ req[r].subject \in Principal
        /\ next \in RequestType
        /\ next.at = "put_code" /\ next.state = s
        /\ next.pending = req[r].pending /\ next.subject = req[r].subject
        /\ req' = [req EXCEPT ![r] = next]
        /\ downstream' = [downstream EXCEPT ![req[r].subject] = s]
        /\ UNCHANGED <<states, codes, access, refresh, minted, history>>
    <2>1. req[r].at = "put_downstream"
      BY DEF CallbackPutDownstream
    <2>2. req[r] \in [at : {"put_downstream", "put_code"}, state : State,
                      pending : StateRecord, subject : Principal]
      BY <2>1, ReqShape DEF IndInv
    <2>3. next \in RequestType
      BY <2>2 DEF RequestType
    <2> QED
      BY <2>1, <2>2, <2>3 DEF CallbackPutDownstream, Goto
  <1>2. InCallback(r) /\ proven[s] = req[r].subject
    BY <1>1 DEF IndInv, StateInv, InCallback
  <1> HIDE DEF next, s
  <1>3. TypeOK'
    BY <1>1 DEF IndInv, TypeOK, history
  <1>4. UnmintedInv'
    BY <1>1 DEF IndInv, UnmintedInv, history
  <1>5. StateInv'
    <2>1. \A q \in Request : InCallback(q)' <=> InCallback(q)
      BY <1>1, <1>2 DEF IndInv, TypeOK, InCallback
    <2>2. \A q \in Request : InCallback(q) => req'[q].state = req[q].state
                  /\ req'[q].pending = req[q].pending
      BY <1>1 DEF IndInv, TypeOK, s
    <2>3. \A v \in Principal : downstream'[v] # None => proven[downstream'[v]] = v
      BY <1>1, <1>2 DEF IndInv, TypeOK, StateInv
    <2>4. \A q \in Request : InCallback(q)' => LET t == req'[q].state IN
            /\ states'[t] = None
            /\ t \in minted'
            /\ req'[q].pending = asked'[t]
            /\ \A k \in Code : codeState'[k] # t
            /\ req'[q].at = "identify" => proven'[t] = None
            /\ req'[q].at # "identify" => proven'[t] = req'[q].subject
      BY <1>1, <1>2, <2>1, <2>2 DEF IndInv, TypeOK, StateInv, history
    <2> QED
      BY <1>1, <2>1, <2>2, <2>3, <2>4 DEF IndInv, StateInv, StateSingleUse, history
  <1>6. CodeInv'
    BY <1>1, ReqShape DEF IndInv, TypeOK, CodeInv, GrantOf, CodeSingleUse, history
  <1>7. HistoryStable /\ UNCHANGED <<codes, access, refresh, pairCode, parent, killed>>
        /\ \A q \in Request : req'[q].at \in {"rotate", "issue"} => req'[q] = req[q]
    BY <1>1 DEF HistoryStable, history, IndInv, TypeOK
  <1>8. PairInv' /\ RotateInv' /\ KilledInv'
    BY <1>7, PairFrame, RotateFrame, KilledFrame
  <1> QED
    BY <1>3, <1>4, <1>5, <1>6, <1>8 DEF IndInv

LEMMA CallbackPutCodeStep ==
  ASSUME IndInv, NEW r \in Request, NEW k \in Code, CallbackPutCode(r, k)
  PROVE  IndInv'
  <1> DEFINE s == req[r].state
             record == [kind |-> "grant", subject |-> req[r].subject,
                        level |-> req[r].pending.level]
  <1>1. /\ req[r].at = "put_code" /\ s \in State
        /\ record \in GrantRecord /\ record # None
        /\ record.subject = req[r].subject /\ record.level = req[r].pending.level
        /\ Idle \in RequestType /\ Idle.at = "idle"
        /\ k \notin minted /\ minted' = minted \cup {k}
        /\ codes' = [codes EXCEPT ![k] = record]
        /\ codeState' = [codeState EXCEPT ![k] = s]
        /\ req' = [req EXCEPT ![r] = Idle]
        /\ UNCHANGED <<states, access, refresh, downstream, proven, asked,
                       pairCode, parent, killed>>
    <2>1. req[r].at = "put_code"
      BY DEF CallbackPutCode
    <2>2. req[r] \in [at : {"put_downstream", "put_code"}, state : State,
                      pending : StateRecord, subject : Principal]
      BY <2>1, ReqShape DEF IndInv
    <2>3. record \in GrantRecord /\ record # None
      BY <2>2 DEF GrantRecord, StateRecord, None
    <2> QED
      BY <2>1, <2>2, <2>3 DEF CallbackPutCode, Mint, Goto, RequestType, Idle
  <1>2. /\ InCallback(r) /\ proven[s] = req[r].subject /\ states[s] = None
        /\ req[r].pending = asked[s] /\ \A i \in Code : codeState[i] # s
    BY <1>1 DEF IndInv, StateInv, InCallback
  <1>3. s # None /\ asked[s] # None /\ proven[s] # None
    <2>1. req[r] \in [at : {"put_downstream", "put_code"}, state : State,
                      pending : StateRecord, subject : Principal]
      BY <1>1, ReqShape DEF IndInv
    <2> QED
      BY <1>1, <1>2, <2>1, TokenAssumption DEF StateRecord, Principal, None
  <1>4. GrantOf(record, s)
    <2>1. asked[s].level \in Level
      <3>1. req[r] \in [at : {"put_downstream", "put_code"}, state : State,
                        pending : StateRecord, subject : Principal]
        BY <1>1, ReqShape DEF IndInv
      <3> QED
        BY <1>2, <3>1 DEF StateRecord
    <2> QED
      BY <1>1, <1>2, <2>1, LevelAssumption DEF GrantOf, Level
  <1>5. codes[k] = None /\ codeState[k] = None /\ \A p \in Pair : pairCode[p] # k
    BY <1>1, TokenAssumption DEF IndInv, UnmintedInv, CodeInv
  <1>6. k \notin killed
    BY <1>5 DEF IndInv, KilledInv
  <1>7. \A q \in Request : req[q].at \in {"consume", "issue"} => req[q].code # k
    BY <1>5 DEF IndInv, CodeInv
  <1> HIDE DEF record, s
  <1>8. \A q \in Request : q # r => req'[q] = req[q]
    BY <1>1 DEF IndInv, TypeOK
  <1>9. req'[r].at = "idle"
    BY <1>1 DEF IndInv, TypeOK
  <1>10. TypeOK'
    BY <1>1 DEF IndInv, TypeOK
  <1>11. UnmintedInv'
    BY <1>1, TokenAssumption DEF IndInv, TypeOK, UnmintedInv
  <1>12. StateInv'
    <2>1. \A q \in Request : InCallback(q)' => q # r /\ InCallback(q) /\ req[q].state # s
      BY <1>2, <1>8, <1>9 DEF IndInv, StateInv, InCallback, s
    <2>2. \A i \in Code : codeState'[i] = s <=> i = k
      BY <1>1, <1>2 DEF IndInv, TypeOK
    <2> QED
      BY <1>1, <1>2, <1>3, <1>8, <2>1, <2>2 DEF IndInv, TypeOK, StateInv, StateSingleUse
  <1>13. CodeInv'
    BY <1>1, <1>3, <1>4, <1>5, <1>7, <1>8, <1>9, ReqShape
       DEF IndInv, TypeOK, CodeInv, GrantOf, CodeSingleUse
  <1>14. HistoryStable
         /\ \A i \in Code : codes[i] = None /\ codeState[i] # None => codes'[i] = None
    BY <1>1, <1>5 DEF HistoryStable, IndInv, TypeOK
  <1>15. PairInv' /\ RotateInv' /\ KilledInv'
    BY <1>1, <1>8, <1>9, <1>14, PairFrame, RotateFrame, KilledFrame
  <1> QED
    BY <1>10, <1>11, <1>12, <1>13, <1>15 DEF IndInv

\* A step that only removes records and moves requests to places that hold no
\* grant keeps everything; revocation also adds to the history of kills.
Removed(old, new, D) == \A x \in D : new[x] = old[x] \/ new[x] = None

LEMMA RemovingStep ==
  ASSUME IndInv, TypeOK',
         UNCHANGED <<minted, proven, asked, codeState, pairCode, parent>>,
         \A q \in Request :
           \/ req'[q] = req[q]
           \/ req'[q].at \in {"idle", "revoke_get", "revoke_pair", "delete_downstream"},
         Removed(states, states', State), Removed(codes, codes', Code),
         Removed(access, access', Pair), Removed(refresh, refresh', Pair),
         Removed(downstream, downstream', Principal),
         \A p \in Pair : access'[p] # None => refresh'[p] = refresh[p]
  PROVE  /\ UnmintedInv' /\ StateInv' /\ CodeInv' /\ PairInv' /\ RotateInv'
         /\ killed' = killed => KilledInv'
  <1> USE DEF Removed
  <1>1. UnmintedInv'
    BY DEF IndInv, UnmintedInv
  <1>2. \A q \in Request : InCallback(q)' => InCallback(q) /\ req'[q] = req[q]
    BY DEF InCallback
  <1>3. StateInv'
    BY <1>2, ReqShape DEF IndInv, TypeOK, StateInv, StateSingleUse, InCallback
  <1>4. \A q \in Request : req'[q].at \in {"consume", "issue", "rotate"} =>
          req'[q] = req[q]
    OBVIOUS
  <1>5. CodeInv'
    BY <1>4, ReqShape DEF IndInv, TypeOK, CodeInv, CodeSingleUse, GrantOf
  <1>6. HistoryStable
    BY DEF HistoryStable
  <1>7. PairInv'
    <2>1. \A p \in Pair : refresh'[p] # None => refresh'[p] = refresh[p]
      OBVIOUS
    <2>2. \A p \in Pair : refresh'[p] # None =>
            /\ pairCode'[p] # None
            /\ GrantOf(refresh[p], codeState[pairCode[p]])'
            /\ \A q \in Pair : parent'[q] # p
      BY <2>1 DEF IndInv, PairInv, GrantOf
    <2>3. PairConsistent'
      BY DEF IndInv, PairInv, PairConsistent
    <2>4. \A p, q \in Pair : refresh'[p] # None /\ refresh'[q] # None
                               /\ pairCode'[p] = pairCode'[q] => p = q
      BY <2>1 DEF IndInv, PairInv
    <2> QED
      BY <2>2, <2>3, <2>4 DEF IndInv, PairInv, RotationLinear
  <1>8. RotateInv'
    BY <1>4, <1>6, RotateFrame
  <1>9. killed' = killed => KilledInv'
    BY <1>4, <1>6, KilledFrame DEF IndInv, TypeOK
  <1> QED
    BY <1>1, <1>3, <1>5, <1>7, <1>8, <1>9

\* The steps of this kind that only move a request.
LEMMA MovingStep ==
  ASSUME IndInv, NEW r \in Request, NEW next \in RequestType,
         next.at \in {"idle", "revoke_get", "revoke_pair", "delete_downstream"},
         Goto(r, next), UNCHANGED <<store, minted, history>>
  PROVE  IndInv'
  <1>1. TypeOK'
    BY DEF IndInv, TypeOK, Goto, store, history
  <1>2. \A q \in Request :
           \/ req'[q] = req[q]
           \/ req'[q].at \in {"idle", "revoke_get", "revoke_pair", "delete_downstream"}
    BY DEF Goto, IndInv, TypeOK
  <1>3. /\ Removed(states, states', State) /\ Removed(codes, codes', Code)
        /\ Removed(access, access', Pair) /\ Removed(refresh, refresh', Pair)
        /\ Removed(downstream, downstream', Principal)
        /\ \A p \in Pair : access'[p] # None => refresh'[p] = refresh[p]
    BY DEF Removed, store
  <1> QED
    BY <1>1, <1>2, <1>3, RemovingStep DEF IndInv, history, store

LEMMA ExchangeLoadStep ==
  ASSUME IndInv, NEW r \in Request, NEW c \in Client, NEW k \in Code,
         ExchangeLoad(r, c, k)
  PROVE  IndInv'
  <1> DEFINE next == [at |-> "consume", code |-> k, record |-> codes[k]]
  <1>1. /\ req[r].at = "idle" /\ codes[k] # None /\ codes[k] \in GrantRecord
        /\ next \in RequestType
        /\ next.at = "consume" /\ next.code = k /\ next.record = codes[k]
        /\ req' = [req EXCEPT ![r] = next]
        /\ UNCHANGED <<store, minted, history>>
    BY DEF ExchangeLoad, Goto, Idle, IndInv, TypeOK, RequestType
  <1> HIDE DEF next
  <1>2. TypeOK'
    BY <1>1 DEF IndInv, TypeOK, store, history
  <1>3. UnmintedInv'
    BY <1>1 DEF IndInv, UnmintedInv, store, history
  <1>4. \A q \in Request : q # r => req'[q] = req[q]
    BY <1>1 DEF IndInv, TypeOK
  <1>5. req'[r] = next
    BY <1>1 DEF IndInv, TypeOK
  <1>6. StateInv'
    <2>1. \A q \in Request : InCallback(q)' => InCallback(q) /\ req'[q] = req[q]
      BY <1>1, <1>4, <1>5 DEF InCallback
    <2> QED
      BY <1>1, <2>1, ReqShape
         DEF IndInv, TypeOK, StateInv, StateSingleUse, InCallback, store, history
  <1>7. CodeInv'
    BY <1>1, <1>4, <1>5, ReqShape
       DEF IndInv, TypeOK, CodeInv, CodeSingleUse, GrantOf, store, history
  <1>8. HistoryStable
    BY <1>1 DEF HistoryStable, history
  <1>9. PairInv' /\ RotateInv' /\ KilledInv'
    BY <1>1, <1>4, <1>5, <1>8, PairFrame, RotateFrame, KilledFrame DEF store, history
  <1> QED
    BY <1>2, <1>3, <1>6, <1>7, <1>9 DEF IndInv

LEMMA ExchangeConsumeStep ==
  ASSUME IndInv, NEW r \in Request, ExchangeConsume(r)
  PROVE  IndInv'
  <1> DEFINE k == req[r].code
  <1>1. /\ req[r].at = "consume" /\ k \in Code /\ req[r].record \in GrantRecord
        /\ codes' = [codes EXCEPT ![k] = None]
        /\ UNCHANGED <<states, access, refresh, downstream, minted, history>>
    BY ReqShape DEF ExchangeConsume, Consumed, IndInv
  <1>2. CASE codes[k] # None /\ codes[k] = req[r].record
    <2> DEFINE next == [req[r] EXCEPT !.at = "issue"]
    <2>1. /\ next \in RequestType
          /\ next.at = "issue" /\ next.code = k /\ next.record = codes[k]
          /\ req' = [req EXCEPT ![r] = next]
      <3>1. req[r] \in [at : {"consume", "issue"}, code : Code, record : GrantRecord]
        BY <1>1, ReqShape DEF IndInv
      <3>2. next \in [at : {"consume", "issue"}, code : Code, record : GrantRecord]
        BY <3>1
      <3>3. next.at = "issue" /\ next.code = k /\ next.record = req[r].record
        BY <3>1
      <3>4. next \in RequestType
        BY <3>2 DEF RequestType
      <3>5. req' = [req EXCEPT ![r] = next]
        BY <1>2 DEF ExchangeConsume, Goto
      <3> QED
        BY <1>2, <3>3, <3>4, <3>5
    <2> HIDE DEF next, k
    <2>2. (\A q \in Request : q # r => req'[q] = req[q]) /\ req'[r] = next
      BY <2>1 DEF IndInv, TypeOK
    <2>3. TypeOK'
      BY <1>1, <2>1 DEF IndInv, TypeOK, history
    <2>4. UnmintedInv'
      BY <1>1 DEF IndInv, TypeOK, UnmintedInv, history
    <2>5. StateInv'
      <3>1. \A q \in Request : InCallback(q)' => InCallback(q) /\ req'[q] = req[q]
        BY <2>1, <2>2 DEF InCallback
      <3> QED
        BY <1>1, <3>1, ReqShape
           DEF IndInv, TypeOK, StateInv, StateSingleUse, InCallback, history
    <2>6. /\ codeState[k] # None /\ GrantOf(codes[k], codeState[k])
          /\ \A p \in Pair : pairCode[p] # k
          /\ \A q \in Request : req[q].at = "issue" => req[q].code # k
      BY <1>1, <1>2 DEF IndInv, CodeInv
    <2>7. CodeInv'
      BY <1>1, <2>1, <2>2, <2>6, ReqShape
         DEF IndInv, TypeOK, CodeInv, CodeSingleUse, GrantOf, history
    <2>8. HistoryStable
      BY <1>1 DEF HistoryStable, history
    <2>9. PairInv' /\ RotateInv'
      BY <1>1, <2>1, <2>2, <2>8, PairFrame, RotateFrame DEF history
    <2>10. k \notin killed
      BY <1>2 DEF IndInv, KilledInv
    <2>11. KilledInv'
      BY <1>1, <2>1, <2>2, <2>10 DEF IndInv, TypeOK, KilledInv, history
    <2> QED
      BY <2>3, <2>4, <2>5, <2>7, <2>9, <2>11 DEF IndInv
  <1>3. CASE ~(codes[k] # None /\ codes[k] = req[r].record)
    <2>1. req' = [req EXCEPT ![r] = Idle] /\ Idle \in RequestType /\ Idle.at = "idle"
      BY <1>3 DEF ExchangeConsume, Goto, RequestType, Idle
    <2>2. TypeOK'
      BY <1>1, <2>1 DEF IndInv, TypeOK, history
    <2>3. \A q \in Request : req'[q] = req[q] \/ req'[q].at = "idle"
      BY <2>1 DEF IndInv, TypeOK
    <2>4. /\ Removed(states, states', State) /\ Removed(codes, codes', Code)
          /\ Removed(access, access', Pair) /\ Removed(refresh, refresh', Pair)
          /\ Removed(downstream, downstream', Principal)
      BY <1>1 DEF Removed, IndInv, TypeOK
    <2> QED
      BY <1>1, <2>2, <2>3, <2>4, RemovingStep DEF IndInv, history
  <1> QED
    BY <1>2, <1>3

LEMMA ExchangeIssueStep ==
  ASSUME IndInv, NEW r \in Request, NEW p \in Pair, ExchangeIssue(r, p)
  PROVE  IndInv'
  <1> DEFINE k == req[r].code
             record == req[r].record
  <1>1. /\ req[r].at = "issue" /\ k \in Code /\ record \in GrantRecord
        /\ record # None
        /\ Idle \in RequestType /\ Idle.at = "idle"
        /\ p \notin minted /\ minted' = minted \cup {p}
        /\ access' = [access EXCEPT ![p] = record]
        /\ refresh' = [refresh EXCEPT ![p] = record]
        /\ pairCode' = [pairCode EXCEPT ![p] = k]
        /\ req' = [req EXCEPT ![r] = Idle]
        /\ UNCHANGED <<states, codes, downstream, proven, asked, codeState, parent,
                       killed>>
    BY ReqShape DEF ExchangeIssue, Mint, Goto, RequestType, Idle, IndInv, GrantRecord,
                    None
  <1>2. /\ codes[k] = None /\ codeState[k] # None /\ GrantOf(record, codeState[k])
        /\ \A q \in Pair : pairCode[q] # k
        /\ \A q \in Request : req[q].at = "issue" /\ req[q].code = k => q = r
    BY <1>1 DEF IndInv, CodeInv
  <1>3. pairCode[p] = None /\ parent[p] = None /\ refresh[p] = None /\ access[p] = None
        /\ \A q \in Pair : parent[q] # p
    <2>1. pairCode[p] = None /\ parent[p] = None
      BY <1>1 DEF IndInv, UnmintedInv
    <2>2. refresh[p] = None
      BY <2>1 DEF IndInv, PairInv
    <2>3. access[p] = None
      BY <2>2 DEF IndInv, PairInv, PairConsistent
    <2>4. \A q \in Pair : parent[q] # p
      BY <1>1, TokenAssumption DEF IndInv, UnmintedInv
    <2> QED
      BY <2>1, <2>2, <2>3, <2>4
  <1>4. k \notin killed
    BY <1>1 DEF IndInv, KilledInv
  <1> HIDE DEF k, record
  <1>5. (\A q \in Request : q # r => req'[q] = req[q]) /\ req'[r].at = "idle"
    BY <1>1 DEF IndInv, TypeOK
  <1>6. TypeOK'
    BY <1>1 DEF IndInv, TypeOK
  <1>7. k # None
    BY <1>1, TokenAssumption
  <1>8. UnmintedInv'
    BY <1>1, <1>7, TokenAssumption DEF IndInv, TypeOK, UnmintedInv
  <1>9. StateInv'
    <2>1. \A q \in Request : InCallback(q)' => InCallback(q) /\ req'[q] = req[q]
      BY <1>5 DEF InCallback
    <2> QED
      BY <1>1, <2>1, ReqShape
         DEF IndInv, TypeOK, StateInv, StateSingleUse, InCallback
  <1>10. CodeInv'
    <2>1. \A q \in Request : req'[q].at \in {"consume", "issue"} => q # r /\ req'[q] = req[q]
      BY <1>5
    <2>2. \A q \in Request : req'[q].at = "issue" => req'[q].code # k
      BY <1>2, <2>1
    <2>3. \A q \in Pair : pairCode'[q] = IF q = p THEN k ELSE pairCode[q]
      BY <1>1 DEF IndInv, TypeOK
    <2> QED
      BY <1>1, <1>2, <1>3, <2>1, <2>2, <2>3, ReqShape
         DEF IndInv, TypeOK, CodeInv, CodeSingleUse, GrantOf
  <1>11. PairInv'
    <2>1. \A q \in Pair : /\ pairCode'[q] = (IF q = p THEN k ELSE pairCode[q])
                          /\ refresh'[q] = (IF q = p THEN record ELSE refresh[q])
                          /\ access'[q] = (IF q = p THEN record ELSE access[q])
      BY <1>1 DEF IndInv, TypeOK
    <2>2. \A q \in Pair : refresh'[q] # None =>
            /\ pairCode'[q] # None
            /\ GrantOf(refresh'[q], codeState[pairCode'[q]])
            /\ \A i \in Pair : parent[i] # q
      BY <1>2, <1>3, <1>7, <2>1 DEF IndInv, PairInv
    <2>3. PairConsistent'
      BY <2>1 DEF IndInv, PairInv, PairConsistent
    <2>4. \A i, q \in Pair : refresh'[i] # None /\ refresh'[q] # None
                               /\ pairCode'[i] = pairCode'[q] => i = q
      BY <1>2, <2>1 DEF IndInv, PairInv
    <2>5. RotationLinear'
      BY <1>1 DEF IndInv, PairInv, RotationLinear
    <2>6. \A q \in Pair : (refresh[q] # None =>
            /\ pairCode[q] # None
            /\ GrantOf(refresh[q], codeState[pairCode[q]])
            /\ \A i \in Pair : parent[i] # q)'
      BY <1>1, <2>2 DEF GrantOf
    <2> QED
      BY <2>3, <2>4, <2>5, <2>6 DEF PairInv
  <1>12. RotateInv'
    <2> SUFFICES ASSUME NEW q \in Request, req'[q].at = "rotate"
                 PROVE  (/\ pairCode[req[q].old] # None
                         /\ GrantOf(req[q].record, codeState[pairCode[req[q].old]]))'
      BY DEF RotateInv
    <2>1. req'[q] = req[q] /\ req[q].at = "rotate"
      BY <1>5
    <2>2. /\ pairCode[req[q].old] # None
          /\ GrantOf(req[q].record, codeState[pairCode[req[q].old]])
      BY <2>1 DEF IndInv, RotateInv
    <2>3. req[q].old \in Pair
      BY <2>1, ReqShape DEF IndInv, TypeOK
    <2>4. pairCode'[req[q].old] = pairCode[req[q].old]
      BY <1>1, <1>3, <2>2, <2>3 DEF IndInv, TypeOK
    <2> QED
      BY <1>1, <2>1, <2>2, <2>4 DEF GrantOf
  <1>13. KilledInv'
    BY <1>1, <1>4, <1>5 DEF IndInv, TypeOK, KilledInv
  <1> QED
    BY <1>6, <1>8, <1>9, <1>10, <1>11, <1>12, <1>13 DEF IndInv

LEMMA RefreshLoadStep ==
  ASSUME IndInv, NEW r \in Request, NEW c \in Client, NEW p \in Pair,
         NEW level \in Level, RefreshLoad(r, c, p, level)
  PROVE  IndInv'
  <1> DEFINE record == [refresh[p] EXCEPT !.level = level]
             next == [at |-> "rotate", old |-> p, record |-> record]
  <1>1. refresh[p] # None /\ refresh[p] \in GrantRecord /\ level <= refresh[p].level
    BY DEF RefreshLoad, WithinGrant, IndInv, TypeOK
  <1>2. record \in GrantRecord /\ record.subject = refresh[p].subject
        /\ record.level = level
    BY <1>1 DEF GrantRecord
  <1>3. /\ req[r].at = "idle"
        /\ next \in RequestType
        /\ next.at = "rotate" /\ next.old = p /\ next.record = record
        /\ req' = [req EXCEPT ![r] = next]
        /\ UNCHANGED <<store, minted, history>>
    BY <1>2 DEF RefreshLoad, NarrowedTo, Goto, Idle, RequestType
  <1>4. pairCode[p] # None /\ GrantOf(record, codeState[pairCode[p]])
    <2>1. pairCode[p] \in Code /\ GrantOf(refresh[p], codeState[pairCode[p]])
          /\ codeState[pairCode[p]] \in State /\ asked[codeState[pairCode[p]]] \in StateRecord
      BY <1>1, TokenAssumption DEF IndInv, TypeOK, PairInv, CodeInv, StateInv
    <2>2. asked[codeState[pairCode[p]]].level \in Int /\ refresh[p].level \in Int
          /\ level \in Int
      BY <1>1, <2>1 DEF StateRecord, GrantRecord, Level
    <2> QED
      BY <1>1, <1>2, <2>1, <2>2, TokenAssumption DEF GrantOf
  <1> HIDE DEF next, record
  <1>5. (\A q \in Request : q # r => req'[q] = req[q]) /\ req'[r] = next
    BY <1>3 DEF IndInv, TypeOK
  <1>6. TypeOK'
    BY <1>3 DEF IndInv, TypeOK, store, history
  <1>7. UnmintedInv'
    BY <1>3 DEF IndInv, UnmintedInv, store, history
  <1>8. StateInv'
    <2>1. \A q \in Request : InCallback(q)' => InCallback(q) /\ req'[q] = req[q]
      BY <1>3, <1>5 DEF InCallback
    <2> QED
      BY <1>3, <2>1, ReqShape
         DEF IndInv, TypeOK, StateInv, StateSingleUse, InCallback, store, history
  <1>9. CodeInv'
    BY <1>3, <1>5, ReqShape
       DEF IndInv, TypeOK, CodeInv, CodeSingleUse, GrantOf, store, history
  <1>10. HistoryStable
    BY <1>3 DEF HistoryStable, history
  <1>11. PairInv' /\ KilledInv'
    BY <1>3, <1>5, <1>10, PairFrame, KilledFrame DEF store, history
  <1>12. RotateInv'
    BY <1>3, <1>4, <1>5, ReqShape DEF IndInv, TypeOK, RotateInv, GrantOf, history
  <1> QED
    BY <1>6, <1>7, <1>8, <1>9, <1>11, <1>12 DEF IndInv

LEMMA RefreshRotateStep ==
  ASSUME IndInv, NEW r \in Request, NEW q \in Pair, RefreshRotate(r, q)
  PROVE  IndInv'
  <1> DEFINE p == req[r].old
             record == req[r].record
             k == pairCode[p]
  <1>1. /\ req[r].at = "rotate" /\ p \in Pair /\ record \in GrantRecord
        /\ record # None
        /\ Idle \in RequestType /\ Idle.at = "idle"
        /\ refresh[p] # None
        /\ q \notin minted /\ minted' = minted \cup {q}
        /\ access' = [access EXCEPT ![p] = None, ![q] = record]
        /\ refresh' = [refresh EXCEPT ![p] = None, ![q] = record]
        /\ pairCode' = [pairCode EXCEPT ![q] = k]
        /\ parent' = [parent EXCEPT ![q] = p]
        /\ req' = [req EXCEPT ![r] = Idle]
        /\ UNCHANGED <<states, codes, downstream, proven, asked, codeState, killed>>
    BY ReqShape DEF RefreshRotate, StillValid, RotatedAccess, RotatedRefresh, Mint,
                    Goto, RequestType, Idle, IndInv, GrantRecord, None
  <1>2. /\ k # None /\ k \in Code /\ codeState[k] # None /\ GrantOf(record, codeState[k])
        /\ p \in minted /\ p # q
        /\ \A i \in Pair : parent[i] # p
        /\ \A i \in Pair : refresh[i] # None /\ pairCode[i] = k => i = p
    <2>1. k # None /\ \A i \in Pair : parent[i] # p
      BY <1>1 DEF IndInv, PairInv
    <2>2. k \in Code
      BY <1>1, <2>1 DEF IndInv, TypeOK
    <2>3. codeState[k] # None
      BY <1>1, <2>1 DEF IndInv, CodeInv
    <2>4. GrantOf(record, codeState[k])
      BY <1>1 DEF IndInv, RotateInv
    <2>5. p \in minted
      BY <1>1, <2>1 DEF IndInv, UnmintedInv
    <2>6. \A i \in Pair : refresh[i] # None /\ pairCode[i] = k => i = p
      BY <1>1 DEF IndInv, PairInv
    <2> QED
      BY <1>1, <2>1, <2>2, <2>3, <2>4, <2>5, <2>6
  <1>3. pairCode[q] = None /\ parent[q] = None /\ refresh[q] = None
        /\ \A i \in Pair : parent[i] # q
    <2>1. pairCode[q] = None /\ parent[q] = None
      BY <1>1 DEF IndInv, UnmintedInv
    <2>2. refresh[q] = None
      BY <2>1 DEF IndInv, PairInv
    <2>3. \A i \in Pair : parent[i] # q
      BY <1>1, TokenAssumption DEF IndInv, UnmintedInv
    <2> QED
      BY <2>1, <2>2, <2>3
  <1>4. k \notin killed
    BY <1>1 DEF IndInv, KilledInv
  <1>5. codes[k] = None
    BY <1>1, <1>2 DEF IndInv, CodeInv
  <1>6. p # None
    BY <1>1, TokenAssumption
  <1>7. \A j \in Request : req[j].at = "issue" => req[j].code # k
    BY <1>1 DEF IndInv, CodeInv
  <1> HIDE DEF p, record, k
  <1>8. (\A j \in Request : j # r => req'[j] = req[j]) /\ req'[r].at = "idle"
    BY <1>1 DEF IndInv, TypeOK
  <1>9. \A i \in Pair :
          /\ pairCode'[i] = (IF i = q THEN k ELSE pairCode[i])
          /\ parent'[i] = (IF i = q THEN p ELSE parent[i])
          /\ refresh'[i] = (IF i = q THEN record ELSE IF i = p THEN None ELSE refresh[i])
          /\ access'[i] = (IF i = q THEN record ELSE IF i = p THEN None ELSE access[i])
    BY <1>1, <1>2 DEF IndInv, TypeOK
  <1>10. TypeOK'
    BY <1>1, <1>2 DEF IndInv, TypeOK
  <1>11. UnmintedInv'
    BY <1>1, <1>2, <1>9, TokenAssumption DEF IndInv, UnmintedInv
  <1>12. StateInv'
    <2>1. \A j \in Request : InCallback(j)' => InCallback(j) /\ req'[j] = req[j]
      BY <1>8 DEF InCallback
    <2> QED
      BY <1>1, <2>1, ReqShape
         DEF IndInv, TypeOK, StateInv, StateSingleUse, InCallback
  <1>13. CodeInv'
    <2>1. \A j \in Request : req'[j].at \in {"consume", "issue"} => req'[j] = req[j]
      BY <1>8
    <2>2. CodeSingleUse'
      BY <1>6, <1>9 DEF IndInv, CodeInv, CodeSingleUse
    <2>3. \A i \in Code : codes[i] # None => i # k
      BY <1>5
    <2>4. \A i \in Code : codes'[i] # None =>
            /\ codeState'[i] # None
            /\ GrantOf(codes'[i], codeState'[i])
            /\ \A j \in Pair : pairCode'[j] # i
      BY <1>1, <1>9, <2>3 DEF IndInv, CodeInv
    <2>5. \A j \in Request : req'[j].at = "issue" =>
            codes'[req'[j].code] = None /\ \A i \in Pair : pairCode'[i] # req'[j].code
      BY <1>1, <1>7, <1>9, <2>1 DEF IndInv, CodeInv
    <2>6. \A j \in Request : req'[j].at \in {"consume", "issue"} =>
            /\ codeState'[req'[j].code] # None
            /\ GrantOf(req'[j].record, codeState'[req'[j].code])
      BY <1>1, <2>1 DEF IndInv, CodeInv
    <2>7. \A i, j \in Request :
            req'[i].at = "issue" /\ req'[j].at = "issue" /\ req'[i].code = req'[j].code
              => i = j
      BY <2>1 DEF IndInv, CodeInv
    <2>8. \A i \in Pair : pairCode'[i] # None => codeState'[pairCode'[i]] # None
      BY <1>1, <1>2, <1>9 DEF IndInv, CodeInv
    <2> QED
      BY <1>1, <2>2, <2>4, <2>5, <2>6, <2>7, <2>8 DEF CodeInv, GrantOf
  <1>14. PairInv'
    <2>1. \A i \in Pair : refresh'[i] # None =>
            /\ pairCode'[i] # None
            /\ GrantOf(refresh'[i], codeState[pairCode'[i]])
            /\ \A j \in Pair : parent'[j] # i
      BY <1>2, <1>3, <1>9 DEF IndInv, PairInv
    <2>2. PairConsistent'
      BY <1>9 DEF IndInv, PairInv, PairConsistent
    <2>3. \A i, j \in Pair : refresh'[i] # None /\ refresh'[j] # None
                               /\ pairCode'[i] = pairCode'[j] => i = j
      BY <1>2, <1>9 DEF IndInv, PairInv
    <2>4. RotationLinear'
      BY <1>2, <1>9 DEF IndInv, PairInv, RotationLinear
    <2> QED
      BY <1>1, <2>1, <2>2, <2>3, <2>4 DEF PairInv, GrantOf
  <1>15. RotateInv'
    <2> SUFFICES ASSUME NEW j \in Request, req'[j].at = "rotate"
                 PROVE  /\ pairCode'[req'[j].old] # None
                        /\ GrantOf(req[j].record, codeState[pairCode[req[j].old]])'
      BY DEF RotateInv
    <2>1. req'[j] = req[j] /\ req[j].at = "rotate"
      BY <1>8
    <2>2. req[j].old \in Pair /\ pairCode[req[j].old] # None
      BY <2>1, ReqShape DEF IndInv, RotateInv
    <2>3. req[j].old # q
      BY <1>3, <2>2
    <2>4. pairCode'[req'[j].old] = pairCode[req[j].old]
      BY <1>9, <2>1, <2>2, <2>3
    <2>5. GrantOf(req[j].record, codeState[pairCode[req[j].old]])
      BY <2>1 DEF IndInv, RotateInv
    <2> QED
      BY <1>1, <2>1, <2>2, <2>4, <2>5 DEF GrantOf
  <1>16. KilledInv'
    BY <1>1, <1>4, <1>8, <1>9 DEF IndInv, TypeOK, KilledInv
  <1> QED
    BY <1>10, <1>11, <1>12, <1>13, <1>14, <1>15, <1>16 DEF IndInv

LEMMA RevokePairStep ==
  ASSUME IndInv, NEW r \in Request, RevokePair(r)
  PROVE  IndInv'
  <1> DEFINE p == req[r].pair
             next == [req[r] EXCEPT !.at = "delete_downstream"]
  <1>1. /\ p \in Pair
        /\ next \in RequestType /\ next.at = "delete_downstream"
        /\ access' = [access EXCEPT ![p] = None]
        /\ refresh' = [refresh EXCEPT ![p] = None]
        /\ killed' = (IF refresh[p] # None THEN killed \cup {pairCode[p]} ELSE killed)
        /\ req' = [req EXCEPT ![r] = next]
        /\ UNCHANGED <<states, codes, downstream, minted, proven, asked, codeState,
                       pairCode, parent>>
    <2>1. req[r].at = "revoke_pair"
      BY DEF RevokePair
    <2>2. req[r] \in [at : {"revoke_pair", "delete_downstream"}, pair : Pair,
                      subject : Principal]
      BY <2>1, ReqShape DEF IndInv
    <2>3. next \in RequestType /\ next.at = "delete_downstream"
      BY <2>2 DEF RequestType
    <2> QED
      BY <2>2, <2>3 DEF RevokePair, RevokedAccess, RevokedRefresh, Goto
  <1> HIDE DEF p, next
  <1>2. refresh[p] # None => pairCode[p] \in Code
    BY <1>1 DEF IndInv, TypeOK, PairInv
  <1>3. TypeOK'
    BY <1>1, <1>2 DEF IndInv, TypeOK
  <1>4. \A j \in Request : req'[j] = req[j] \/ req'[j].at = "delete_downstream"
    BY <1>1 DEF IndInv, TypeOK
  <1>5. /\ Removed(states, states', State) /\ Removed(codes, codes', Code)
        /\ Removed(access, access', Pair) /\ Removed(refresh, refresh', Pair)
        /\ Removed(downstream, downstream', Principal)
        /\ \A i \in Pair : access'[i] # None => refresh'[i] = refresh[i]
    BY <1>1 DEF Removed, IndInv, TypeOK
  <1>6. /\ UnmintedInv' /\ StateInv' /\ CodeInv' /\ PairInv' /\ RotateInv'
        /\ killed' = killed => KilledInv'
    BY <1>1, <1>3, <1>4, <1>5, RemovingStep
  <1>7. CASE refresh[p] = None
    BY <1>1, <1>3, <1>6, <1>7 DEF IndInv
  <1>8. CASE refresh[p] # None
    <2> DEFINE k == pairCode[p]
    <2>1. /\ k \in Code /\ codes[k] = None /\ codeState[k] # None
          /\ \A j \in Request : req[j].at = "issue" => req[j].code # k
          /\ \A i \in Pair : pairCode[i] = k /\ refresh[i] # None => i = p
      BY <1>1, <1>2, <1>8 DEF IndInv, CodeInv, PairInv
    <2>2. killed' = killed \cup {k}
      BY <1>1, <1>8
    <2> HIDE DEF k
    <2>3. \A i \in Pair : refresh'[i] = (IF i = p THEN None ELSE refresh[i])
      BY <1>1 DEF IndInv, TypeOK
    <2>4. KilledInv'
      BY <1>1, <1>4, <2>1, <2>2, <2>3 DEF IndInv, KilledInv
    <2> QED
      BY <1>3, <1>6, <2>4 DEF IndInv
  <1> QED
    BY <1>7, <1>8

LEMMA RevokeDownstreamStep ==
  ASSUME IndInv, NEW r \in Request, RevokeDownstream(r)
  PROVE  IndInv'
  <1>1. /\ req[r].subject \in Principal
        /\ Idle \in RequestType /\ Idle.at = "idle"
        /\ downstream' = [downstream EXCEPT ![req[r].subject] = None]
        /\ req' = [req EXCEPT ![r] = Idle]
        /\ UNCHANGED <<states, codes, access, refresh, minted, history>>
    BY ReqShape DEF RevokeDownstream, Goto, RequestType, Idle, IndInv
  <1>2. TypeOK'
    BY <1>1 DEF IndInv, TypeOK, history
  <1>3. \A j \in Request : req'[j] = req[j] \/ req'[j].at = "idle"
    BY <1>1 DEF IndInv, TypeOK
  <1>4. /\ Removed(states, states', State) /\ Removed(codes, codes', Code)
        /\ Removed(access, access', Pair) /\ Removed(refresh, refresh', Pair)
        /\ Removed(downstream, downstream', Principal)
    BY <1>1 DEF Removed, IndInv, TypeOK
  <1> QED
    BY <1>1, <1>2, <1>3, <1>4, RemovingStep DEF IndInv, history

LEMMA ExpireStep ==
  ASSUME IndInv, Expire
  PROVE  IndInv'
  <1>1. UNCHANGED <<minted, req, history>>
    BY DEF Expire
  <1>2. /\ Removed(states, states', State) /\ Removed(codes, codes', Code)
        /\ Removed(access, access', Pair) /\ Removed(refresh, refresh', Pair)
        /\ Removed(downstream, downstream', Principal)
    BY DEF Expire, Removed, IndInv, TypeOK
  <1>3. \A p \in Pair : access'[p] # None => refresh'[p] = refresh[p]
    BY DEF Expire, IndInv, TypeOK
  <1>4. TypeOK'
    BY <1>1 DEF Expire, IndInv, TypeOK, history
  <1> QED
    BY <1>1, <1>2, <1>3, <1>4, RemovingStep DEF IndInv, history

LEMMA NextIndInv == IndInv /\ [Next]_vars => IndInv'
  <1> SUFFICES ASSUME IndInv, [Next]_vars PROVE IndInv'
    OBVIOUS
  <1>1. ASSUME NEW r \in Request, CallbackStep(r) PROVE IndInv'
    BY <1>1, CallbackConsumeStep, CallbackIdentifyStep, CallbackPutDownstreamStep,
       CallbackPutCodeStep DEF CallbackStep
  <1>2. ASSUME NEW r \in Request, ExchangeStep(r) PROVE IndInv'
    BY <1>2, ExchangeLoadStep, ExchangeConsumeStep, ExchangeIssueStep DEF ExchangeStep
  <1> Idle \in RequestType /\ Idle.at = "idle"
    BY DEF RequestType, Idle
  <1>3. ASSUME NEW r \in Request, RefreshStep(r) PROVE IndInv'
    <2>1. CASE RefreshTooLate(r)
      BY <2>1, MovingStep DEF RefreshTooLate
    <2> QED
      BY <1>3, <2>1, RefreshLoadStep, RefreshRotateStep DEF RefreshStep
  <1>4. ASSUME NEW r \in Request, RevokeStep(r) PROVE IndInv'
    <2>1. ASSUME NEW c \in Client, NEW kind \in {"access", "refresh"}, NEW p \in Pair,
                 RevokeLoad(r, c, kind, p)
          PROVE  IndInv'
      <3> DEFINE next == [at |-> "revoke_get", pair |-> p, kind |-> kind]
      <3>1. next \in RequestType /\ next.at = "revoke_get"
        BY DEF RequestType
      <3> HIDE DEF next
      <3> QED
        BY <2>1, <3>1, MovingStep DEF RevokeLoad, next
    <2>2. CASE RevokeGet(r)
      <3> DEFINE record == TokenRecord(req[r].kind, req[r].pair)
                 next == IF record = None THEN Idle
                         ELSE [at |-> "revoke_pair", pair |-> req[r].pair,
                               subject |-> record.subject]
      <3>1. req[r].pair \in Pair
        BY <2>2, ReqShape DEF RevokeGet, IndInv
      <3>2. record \in GrantRecord \cup {None}
        BY <3>1 DEF TokenRecord, IndInv, TypeOK
      <3>3. next \in RequestType /\ next.at \in {"idle", "revoke_pair"}
        BY <3>1, <3>2 DEF RequestType, GrantRecord
      <3>4. Goto(r, next) /\ UNCHANGED <<store, minted, history>>
        BY <2>2 DEF RevokeGet
      <3> HIDE DEF next
      <3> QED
        BY <3>3, <3>4, MovingStep
    <2> QED
      BY <1>4, <2>1, <2>2, RevokePairStep, RevokeDownstreamStep DEF RevokeStep
  <1>5. ASSUME NEW r \in Request, Abandon(r) PROVE IndInv'
    BY <1>5, MovingStep DEF Abandon
  <1>6. CASE UNCHANGED vars
    <2>1. /\ UNCHANGED <<states, codes, access, refresh, downstream, minted, req>>
          /\ UNCHANGED <<proven, asked, codeState, pairCode, parent, killed>>
      BY <1>6 DEF vars, store, history
    <2>2. TypeOK'
      BY <2>1 DEF IndInv, TypeOK
    <2>3. /\ Removed(states, states', State) /\ Removed(codes, codes', Code)
          /\ Removed(access, access', Pair) /\ Removed(refresh, refresh', Pair)
          /\ Removed(downstream, downstream', Principal)
      BY <2>1 DEF Removed
    <2> QED
      BY <2>1, <2>2, <2>3, RemovingStep DEF IndInv
  <1> QED
    BY <1>1, <1>2, <1>3, <1>4, <1>5, <1>6, AuthorizeStep, ExpireStep DEF Next

\* The inductive invariant: where a state, a code and a pair can be, and that
\* nothing in flight exceeds the grant it goes back to.
THEOREM IndInvHolds == Spec => []IndInv
  BY InitIndInv, NextIndInv, PTL DEF Spec

\* Every variable of the provider keeps its type in all reachable states.
THEOREM TypeCorrect == Spec => []TypeOK
  <1>1. IndInv => TypeOK
    BY DEF IndInv
  <1> QED
    BY <1>1, IndInvHolds, PTL

\* However many callbacks race with the same state, one authorization request
\* yields at most one code (consume in YandexOAuthCallback.handle).
THEOREM StatesSingleUse == Spec => []StateSingleUse
  <1>1. IndInv => StateSingleUse
    BY DEF IndInv, StateInv
  <1> QED
    BY <1>1, IndInvHolds, PTL

\* However many exchanges race with the same code, at most one of them issues a
\* pair (consume in exchange_authorization_code).
THEOREM CodesSingleUse == Spec => []CodeSingleUse
  <1>1. IndInv => CodeSingleUse
    BY DEF IndInv, CodeInv
  <1> QED
    BY <1>1, IndInvHolds, PTL

\* Of any number of refreshes racing with the same refresh token at most one
\* gets a new pair (rotate_token_pair).
THEOREM RotationIsLinear == Spec => []RotationLinear
  <1>1. IndInv => RotationLinear
    BY DEF IndInv, PairInv
  <1> QED
    BY <1>1, IndInvHolds, PTL

\* At most one pair of an authorization is accepted at any time.
THEOREM AtMostOneLivePair == Spec => []OneLivePair
  <1>1. IndInv => OneLivePair
    BY DEF IndInv, PairInv, PairConsistent, OneLivePair, Live
  <1> QED
    BY <1>1, IndInvHolds, PTL

\* An access token never outlives the refresh token of its pair, through any
\* sequence of rotations, revocations and expiries.
THEOREM PairsConsistent == Spec => []PairConsistent
  <1>1. IndInv => PairConsistent
    BY DEF IndInv, PairInv
  <1> QED
    BY <1>1, IndInvHolds, PTL

\* Codes, tokens and downstream records act for the principal Yandex named and
\* within the scopes that were authorized.
THEOREM BoundToPrincipal == Spec => []PrincipalBound
  <1>1. IndInv => PrincipalBound
    BY DEF IndInv, StateInv, CodeInv, PairInv, PrincipalBound
  <1> QED
    BY <1>1, IndInvHolds, PTL

\* Revoking the current pair of an authorization ends it: nothing in flight
\* brings it back.
THEOREM RevocationIsFinal == Spec => []RevokedForGood
  <1>1. IndInv => RevokedForGood
    BY DEF IndInv, TypeOK, PairInv, PairConsistent, KilledInv, RevokedForGood, Live
  <1> QED
    BY <1>1, IndInvHolds, PTL

-----------------------------------------------------------------------------
(* The refinement: every step looks like a step of GrantLifecycle.          *)

Current == [k \in Code |-> CurrentPair(k)]

\* The current pair of a code is the one with a refresh token, if there is one.
CurrentCases(k) ==
  /\ \A p \in PairsOf(k) : refresh[p] # None => CurrentPair(k) = p
  /\ (\A p \in PairsOf(k) : refresh[p] = None) =>
       CurrentPair(k) = IF PairsOf(k) = {} THEN "unissued" ELSE "over"

LEMMA CurrentDecided == IndInv => \A k \in Code : CurrentCases(k)
  <1> SUFFICES ASSUME IndInv, NEW k \in Code PROVE CurrentCases(k)
    OBVIOUS
  <1>1. \A p, q \in PairsOf(k) : refresh[p] # None /\ refresh[q] # None => p = q
    BY DEF IndInv, PairInv, PairsOf
  <1> QED
    BY <1>1 DEF CurrentCases, CurrentPair

\* What every step below starts from.
Mapped ==
  /\ IndInv
  /\ \A k \in Code : CurrentCases(k) /\ CurrentCases(k)'

\* A code none of whose pairs is touched keeps its current pair.
LEMMA CurrentKept ==
  ASSUME Mapped, NEW k \in Code, PairsOf(k)' = PairsOf(k),
         \A p \in PairsOf(k) : refresh'[p] = None <=> refresh[p] = None
  PROVE  CurrentPair(k)' = CurrentPair(k)
  BY DEF Mapped, CurrentCases

LEMMA QuietMaps ==
  ASSUME Mapped, UNCHANGED <<pairCode, refresh>>,
         \A p \in Pair : p \in minted' <=> p \in minted
  PROVE  Current' = Current /\ (minted \cap Pair)' = minted \cap Pair
  <1>1. \A k \in Code : PairsOf(k)' = PairsOf(k)
    BY DEF PairsOf
  <1> QED
    BY <1>1, CurrentKept DEF Current

\* The refresh token of a pair is revoked or expires.
LEMMA EndMaps ==
  ASSUME Mapped, NEW p \in Pair, refresh[p] # None,
         refresh' = [refresh EXCEPT ![p] = None], UNCHANGED <<pairCode, minted>>
  PROVE  Lifecycle!Next
  <1> DEFINE k == pairCode[p]
  <1>1. k \in Code /\ refresh \in [Pair -> GrantRecord \cup {None}]
    BY DEF Mapped, IndInv, TypeOK, PairInv
  <1>2. \A j \in Code : PairsOf(j)' = PairsOf(j)
    BY DEF PairsOf
  <1>3. p \in PairsOf(k) /\ \A q \in PairsOf(k) : refresh'[q] = None
    BY <1>1 DEF PairsOf, Mapped, IndInv, PairInv
  <1>4. CurrentPair(k) = p /\ CurrentPair(k)' = "over"
    BY <1>1, <1>2, <1>3 DEF Mapped, CurrentCases
  <1>5. \A j \in Code \ {k} : CurrentPair(j)' = CurrentPair(j)
    <2> SUFFICES ASSUME NEW j \in Code \ {k} PROVE CurrentPair(j)' = CurrentPair(j)
      OBVIOUS
    <2>1. p \notin PairsOf(j)
      BY DEF PairsOf
    <2> QED
      BY <2>1, <1>1, <1>2, CurrentKept DEF PairsOf
  <1>6. Current' = [Current EXCEPT ![k] = "over"] /\ Current[k] \in Pair
    BY <1>1, <1>4, <1>5 DEF Current
  <1> QED
    BY <1>1, <1>6 DEF Lifecycle!Next, Lifecycle!End, Current

\* A pair is handed out for the code k, by an exchange or by a rotation.
LEMMA HandOutMaps ==
  ASSUME Mapped, NEW k \in Code, NEW p \in Pair, p \notin minted,
         minted' = minted \cup {p}, pairCode' = [pairCode EXCEPT ![p] = k],
         refresh'[p] # None,
         \A q \in Pair : pairCode[q] # k => q = p \/ refresh'[q] = refresh[q]
  PROVE  Lifecycle!HandOut(k, p)
  <1>1. pairCode[p] = None /\ None \notin Code
    BY TokenAssumption DEF Mapped, IndInv, UnmintedInv
  <1>2. pairCode \in [Pair -> Code \cup {None}]
    BY DEF Mapped, IndInv, TypeOK
  <1>3. CurrentPair(k)' = p
    <2>1. p \in PairsOf(k)'
      BY <1>2 DEF PairsOf
    <2> QED
      BY <2>1 DEF Mapped, CurrentCases
  <1>4. \A j \in Code \ {k} : CurrentPair(j)' = CurrentPair(j)
    <2> SUFFICES ASSUME NEW j \in Code \ {k} PROVE CurrentPair(j)' = CurrentPair(j)
      OBVIOUS
    <2>1. PairsOf(j)' = PairsOf(j) /\ p \notin PairsOf(j)
      BY <1>1, <1>2 DEF PairsOf
    <2>2. \A q \in PairsOf(j) : refresh'[q] = refresh[q]
      BY <2>1 DEF PairsOf
    <2> QED
      BY <2>1, <2>2, CurrentKept
  <1>5. Current' = [Current EXCEPT ![k] = p]
    BY <1>3, <1>4 DEF Current
  <1> QED
    BY <1>5 DEF Lifecycle!HandOut, Current

LEMMA IssueMaps ==
  ASSUME Mapped, NEW r \in Request, NEW p \in Pair, ExchangeIssue(r, p)
  PROVE  Lifecycle!Next
  <1> DEFINE k == req[r].code
  <1>1. k \in Code /\ req[r].record \in GrantRecord
    BY ReqShape DEF ExchangeIssue, Mapped, IndInv
  <1>2. PairsOf(k) = {}
    BY DEF ExchangeIssue, Mapped, IndInv, CodeInv, PairsOf
  <1>3. Current[k] = "unissued"
    BY <1>1, <1>2 DEF Mapped, CurrentCases, Current
  <1>4. refresh \in [Pair -> GrantRecord \cup {None}] /\ None \notin GrantRecord
    BY DEF Mapped, IndInv, TypeOK, GrantRecord, None
  <1>5. Lifecycle!HandOut(k, p)
    BY <1>1, <1>4, HandOutMaps DEF ExchangeIssue, Mint
  <1> QED
    BY <1>1, <1>3, <1>5 DEF Lifecycle!Next, Lifecycle!Issue, Current

LEMMA RotateMaps ==
  ASSUME Mapped, NEW r \in Request, NEW q \in Pair, RefreshRotate(r, q)
  PROVE  Lifecycle!Next
  <1> DEFINE p == req[r].old
             k == pairCode[p]
  <1>1. p \in Pair /\ req[r].record \in GrantRecord
    BY ReqShape DEF RefreshRotate, Mapped, IndInv
  <1>2. refresh[p] # None /\ k \in Code
    BY <1>1 DEF RefreshRotate, StillValid, Mapped, IndInv, TypeOK, PairInv
  <1>3. Current[k] = p
    BY <1>1, <1>2 DEF Mapped, CurrentCases, Current, PairsOf
  <1>4. refresh \in [Pair -> GrantRecord \cup {None}] /\ None \notin GrantRecord
    BY DEF Mapped, IndInv, TypeOK, GrantRecord, None
  <1>5. Lifecycle!HandOut(k, q)
    BY <1>1, <1>2, <1>4, HandOutMaps DEF RefreshRotate, RotatedRefresh, Mint
  <1> QED
    BY <1>1, <1>2, <1>3, <1>5 DEF Lifecycle!Next, Lifecycle!Rotate, Current

LEMMA RevokeMaps ==
  ASSUME Mapped, NEW r \in Request, RevokePair(r)
  PROVE  [Lifecycle!Next]_<<Current, minted \cap Pair>>
  <1> DEFINE p == req[r].pair
  <1>1. p \in Pair /\ refresh \in [Pair -> GrantRecord \cup {None}]
    BY ReqShape DEF RevokePair, Mapped, IndInv, TypeOK
  <1>2. CASE refresh[p] = None
    <2>1. refresh' = refresh
      BY <1>1, <1>2 DEF RevokePair, RevokedRefresh
    <2> QED
      BY <2>1, QuietMaps DEF RevokePair
  <1>3. CASE refresh[p] # None
    BY <1>1, <1>3, EndMaps DEF RevokePair, RevokedRefresh
  <1> QED
    BY <1>2, <1>3

LEMMA ExpireMaps ==
  ASSUME Mapped, Expire
  PROVE  [Lifecycle!Next]_<<Current, minted \cap Pair>>
  <1>1. UNCHANGED <<minted, pairCode>>
    BY DEF Expire, history
  <1>2. CASE UNCHANGED refresh
    BY <1>1, <1>2, QuietMaps
  <1>3. ASSUME NEW p \in Pair, refresh[p] # None,
               refresh' = [refresh EXCEPT ![p] = None]
        PROVE  Lifecycle!Next
    BY <1>1, <1>3, EndMaps
  <1> QED
    BY <1>2, <1>3 DEF Expire

LEMMA MintsOther ==
  ASSUME NEW token \in State \cup Code, Mint(token)
  PROVE  \A p \in Pair : p \in minted' <=> p \in minted
  BY TokenAssumption DEF Mint

LEMMA NextMaps ==
  ASSUME Mapped, [Next]_vars
  PROVE  [Lifecycle!Next]_<<Current, minted \cap Pair>>
  <1>1. ASSUME NEW c \in Client, NEW level \in Level, NEW s \in State,
               Authorize(c, level, s)
        PROVE  UNCHANGED <<Current, minted \cap Pair>>
    BY <1>1, MintsOther, QuietMaps DEF Authorize
  <1>2. ASSUME NEW r \in Request, CallbackStep(r)
        PROVE  UNCHANGED <<Current, minted \cap Pair>>
    <2>1. ASSUME NEW k \in Code, CallbackPutCode(r, k)
          PROVE  UNCHANGED <<Current, minted \cap Pair>>
      BY <2>1, MintsOther, QuietMaps DEF CallbackPutCode
    <2>2. CASE ~ \E k \in Code : CallbackPutCode(r, k)
      <3>1. UNCHANGED <<pairCode, refresh, minted>>
        BY <1>2, <2>2 DEF CallbackStep, CallbackConsume, CallbackIdentify,
                          CallbackPutDownstream, history, store
      <3> QED
        BY <3>1, QuietMaps
    <2> QED
      BY <2>1, <2>2
  <1>3. ASSUME NEW r \in Request, ExchangeStep(r)
        PROVE  [Lifecycle!Next]_<<Current, minted \cap Pair>>
    <2>1. CASE (\E c \in Client, k \in Code : ExchangeLoad(r, c, k)) \/ ExchangeConsume(r)
      <3>1. UNCHANGED <<pairCode, refresh, minted>>
        BY <2>1 DEF ExchangeLoad, ExchangeConsume, history, store
      <3> QED
        BY <3>1, QuietMaps
    <2> QED
      BY <1>3, <2>1, IssueMaps DEF ExchangeStep
  <1>4. ASSUME NEW r \in Request, RefreshStep(r)
        PROVE  [Lifecycle!Next]_<<Current, minted \cap Pair>>
    <2>1. CASE ~ \E q \in Pair : RefreshRotate(r, q)
      <3>1. UNCHANGED <<pairCode, refresh, minted>>
        BY <1>4, <2>1 DEF RefreshStep, RefreshLoad, RefreshTooLate, history, store
      <3> QED
        BY <3>1, QuietMaps
    <2> QED
      BY <2>1, RotateMaps
  <1>5. ASSUME NEW r \in Request, RevokeStep(r)
        PROVE  [Lifecycle!Next]_<<Current, minted \cap Pair>>
    <2>1. CASE ~ RevokePair(r)
      <3>1. UNCHANGED <<pairCode, refresh, minted>>
        BY <1>5, <2>1 DEF RevokeStep, RevokeLoad, RevokeGet, RevokeDownstream,
                          history, store
      <3> QED
        BY <3>1, QuietMaps
    <2> QED
      BY <2>1, RevokeMaps
  <1>6. ASSUME NEW r \in Request, Abandon(r)
        PROVE  UNCHANGED <<Current, minted \cap Pair>>
    BY <1>6, QuietMaps DEF Abandon, history, store
  <1>7. CASE UNCHANGED vars
    BY <1>7, QuietMaps DEF vars, history, store
  <1> QED
    BY <1>1, <1>2, <1>3, <1>4, <1>5, <1>6, <1>7, ExpireMaps DEF Next

\* For any number of clients, accounts, requests and tokens the endpoints of
\* auth/oauth.py implement the abstract life of a grant: a code gives one pair,
\* a refresh replaces it in one step, and what is over stays over.
THEOREM RefinesGrantLifecycle == Spec => ImplementsLifecycle
  <1>1. Init => Lifecycle!Init
    <2> SUFFICES ASSUME Init PROVE Lifecycle!Init
      OBVIOUS
    <2>1. \A k \in Code : PairsOf(k) = {}
      BY TokenAssumption DEF Init, PairsOf
    <2> QED
      BY <2>1 DEF Init, Lifecycle!Init, CurrentPair
  <1>2. IndInv /\ IndInv' /\ [Next]_vars => [Lifecycle!Next]_<<Current, minted \cap Pair>>
    <2> SUFFICES ASSUME IndInv, IndInv', [Next]_vars
                 PROVE  [Lifecycle!Next]_<<Current, minted \cap Pair>>
      OBVIOUS
    <2>1. IndInv' => (\A k \in Code : CurrentCases(k))'
      BY CurrentDecided, PTL
    <2>2. Mapped
      BY <2>1, CurrentDecided DEF Mapped
    <2> QED
      BY <2>2, NextMaps
  <1> QED
    BY <1>1, <1>2, IndInvHolds, PTL DEF Spec, ImplementsLifecycle, Lifecycle!Spec, Current

-----------------------------------------------------------------------------
(* Registration of clients: the cap on the clients of one peer             *)

\* The clients counted at a place are registered there, and not too many.
MembersInv ==
  \A place \in Key \X Peer :
    /\ IsFiniteSet(members[place])
    /\ Cardinality(members[place]) <= Cap
    /\ \A d \in members[place] :
         state[d] = "registered" /\ place = Place(d)

\* A registration under way was built in the past, and one that get_client()
\* answers for is counted: what the script drops has expired at the clock that
\* it is given, which is never ahead of the time.
PlaceInv ==
  \A c \in ClientId :
    /\ state[c] \in Called => request[c] \in Requests /\ request[c].sent <= now
    /\ Known(c) => c \in members[Place(c)]

\* Only finitely many clients have come so far.
ArrivedInv == IsFiniteSet({c \in ClientId : state[c] # "new"})

RegistryInv == RegistryTypeOK /\ ArrivedInv /\ MembersInv /\ PlaceInv

LEMMA RegistryInit_Inv == RegistryInit => RegistryInv
  <1> SUFFICES ASSUME RegistryInit PROVE RegistryInv
    OBVIOUS
  <1>1. RegistryTypeOK
    BY RegistryAssumption DEF RegistryInit, RegistryTypeOK
  <1>2. ArrivedInv
    <2>1. {c \in ClientId : state[c] # "new"} = {}
      BY DEF RegistryInit
    <2> QED
      BY <2>1, FS_EmptySet DEF ArrivedInv
  <1>3. MembersInv
    BY FS_EmptySet, RegistryAssumption DEF RegistryInit, MembersInv
  <1>4. PlaceInv
    BY DEF RegistryInit, PlaceInv, Known, Called
  <1> QED
    BY <1>1, <1>2, <1>3, <1>4 DEF RegistryInv

\* A client that registers, or is refused, is counted among the clients of its
\* place that had not expired when it was sent.
LEMMA CountedHere ==
  ASSUME RegistryInv, NEW c \in ClientId, state[c] \in Called
  PROVE  /\ Place(c) \in Key \X Peer
         /\ Asof(c) \in Nat /\ request[c].sent <= Asof(c) /\ Asof(c) <= now
         /\ IsFiniteSet(Counted(c))
         /\ Counted(c) \subseteq members[Place(c)]
         /\ Cardinality(Counted(c)) <= Cap
         /\ Cardinality(Counted(c)) \in Nat
  <1> USE DEF Place
  <1> DEFINE place == Place(c)
  <1>1. request[c] \in Requests /\ request[c].sent <= now /\ now \in 0..MaxTime
    BY DEF RegistryInv, PlaceInv, RegistryTypeOK
  <1>2. place \in Key \X Peer
    BY <1>1 DEF Requests
  <1>3. /\ Asof(c) \in Nat
        /\ request[c].sent <= Asof(c) /\ Asof(c) <= now
    BY <1>1, RegistryAssumption DEF Asof, Requests, RegistryInv, RegistryTypeOK
  <1>4. Counted(c) \subseteq members[place]
    BY DEF Counted
  <1>5. IsFiniteSet(members[place]) /\ Cardinality(members[place]) <= Cap
    BY <1>2 DEF RegistryInv, MembersInv
  <1>6. /\ IsFiniteSet(Counted(c))
        /\ Cardinality(Counted(c)) <= Cardinality(members[place])
    BY <1>4, <1>5, FS_Subset
  <1>7. Cardinality(Counted(c)) \in Nat /\ Cardinality(members[place]) \in Nat
    BY <1>5, <1>6, FS_CardinalityType
  <1>8. Cardinality(Counted(c)) <= Cap
    BY <1>5, <1>6, <1>7, RegistryAssumption
  <1> QED
    BY <1>2, <1>3, <1>4, <1>6, <1>7, <1>8

LEMMA Submit_Inv ==
  ASSUME RegistryInv, NEW c \in ClientId, NEW r \in Replica, Submit(c, r)
  PROVE  RegistryInv'
  <1> USE DEF RegistryInv, Place
  <1>1. PICK p \in Peer, secret \in BOOLEAN :
          request' = [request EXCEPT ![c] =
            [key |-> first[r], peer |-> p, sent |-> now, expires |-> Expiry(secret)]]
    BY DEF Submit
  <1> DEFINE built == [key |-> first[r], peer |-> p, sent |-> now, expires |-> Expiry(secret)]
  <1>2. built \in Requests
    <2>1. Expiry(secret) \in 1..Never
      BY RegistryAssumption DEF Expiry, Never, RegistryTypeOK
    <2> QED
      BY <2>1 DEF Requests, RegistryTypeOK
  <1> HIDE DEF built
  <1>3. /\ request' \in [ClientId -> {NoRequest} \cup Requests]
        /\ request'[c] = built
        /\ \A d \in ClientId \ {c} : request'[d] = request[d]
    BY <1>1, <1>2 DEF RegistryTypeOK, built
  <1>4. /\ state' \in [ClientId -> {"new", "invalid", "sent", "registered", "refused", "lost"}]
        /\ state[c] = "new" /\ state'[c] = "sent"
        /\ \A d \in ClientId \ {c} : state'[d] = state[d]
    BY DEF RegistryTypeOK, Submit
  <1>5. RegistryTypeOK'
    BY <1>3, <1>4 DEF RegistryTypeOK, Submit
  <1>6. ArrivedInv'
    <2>1. {d \in ClientId : state'[d] # "new"} = {d \in ClientId : state[d] # "new"} \cup {c}
      BY <1>4
    <2> QED
      BY <2>1, FS_AddElement DEF ArrivedInv
  <1>7. MembersInv'
    <2>1. members' = members /\ members \in [Key \X Peer -> SUBSET ClientId]
      BY DEF Submit, RegistryTypeOK
    <2>2. \A place \in Key \X Peer : c \notin members[place]
      BY <1>4 DEF MembersInv
    <2> QED
      BY <1>3, <1>4, <2>1, <2>2 DEF MembersInv
  <1>8. PlaceInv'
    <2>1. now' = now /\ members' = members /\ now \in Nat
      BY DEF Submit, RegistryTypeOK
    <2>2. built.sent = now
      BY DEF built
    <2> QED
      BY <1>2, <1>3, <1>4, <2>1, <2>2 DEF PlaceInv, Known, Called
  <1> QED
    BY <1>5, <1>6, <1>7, <1>8

LEMMA Register_Inv ==
  ASSUME RegistryInv, NEW c \in ClientId, Register(c)
  PROVE  RegistryInv'
  <1> USE DEF RegistryInv, Place
  <1> DEFINE place == Place(c)
             in == Exists(c) \/ HasRoom(c)
             kept  == IF in THEN Counted(c) \cup {c} ELSE Counted(c)
             outcome == IF in THEN "registered" ELSE "refused"
  <1>1. /\ state[c] \in Called
        /\ state' = [state EXCEPT ![c] = outcome]
        /\ members' = [members EXCEPT ![place] = kept]
        /\ UNCHANGED <<backend, now, first, request>>
    BY DEF Register
  <1>2. /\ place \in Key \X Peer
        /\ Asof(c) \in Nat /\ Asof(c) <= now
        /\ IsFiniteSet(Counted(c)) /\ Counted(c) \subseteq members[place]
        /\ Cardinality(Counted(c)) \in Nat
        /\ Cardinality(Counted(c)) <= Cap
    BY <1>1, CountedHere
  <1>3. ~in => c \notin Counted(c)
    BY DEF Exists
  <1>4. IsFiniteSet(kept) /\ Cardinality(kept) <= Cap
    <2>1. CASE HasRoom(c) /\ c \notin Counted(c)
      <3>1. kept = Counted(c) \cup {c}
        BY <2>1
      <3>2. IsFiniteSet(kept) /\ Cardinality(kept) = Cardinality(Counted(c)) + 1
        BY <3>1, <2>1, <1>2, FS_AddElement
      <3> QED
        BY <2>1, <3>2, <1>2, RegistryAssumption DEF HasRoom
    <2>2. CASE c \in Counted(c) \/ ~in
      <3>1. kept = Counted(c)
        BY <2>2
      <3> QED
        BY <3>1, <1>2
    <2> QED
      BY <2>1, <2>2 DEF Exists
  <1>5. kept \subseteq ClientId /\ \A d \in kept : d = c \/ d \in members[place]
    BY <1>2 DEF RegistryTypeOK
  <1>6. /\ state'[c] = outcome
        /\ \A d \in ClientId \ {c} : state'[d] = state[d]
        /\ members' \in [Key \X Peer -> SUBSET ClientId]
        /\ members'[place] = kept
        /\ \A q \in (Key \X Peer) \ {place} : members'[q] = members[q]
    BY <1>1, <1>2, <1>5 DEF RegistryTypeOK
  <1>7. RegistryTypeOK'
    BY <1>1, <1>6 DEF RegistryTypeOK
  <1>8. ArrivedInv'
    <2>1. {d \in ClientId : state'[d] # "new"} = {d \in ClientId : state[d] # "new"}
      BY <1>1, <1>6 DEF Called
    <2> QED
      BY <2>1 DEF ArrivedInv
  <1>9. MembersInv'
    <2>0. request' = request
      BY <1>1
    <2> SUFFICES ASSUME NEW q \in Key \X Peer
                 PROVE  /\ IsFiniteSet(members'[q])
                        /\ Cardinality(members'[q]) <= Cap
                        /\ \A d \in members'[q] :
                             state'[d] = "registered" /\ q = Place(d)
      BY <2>0 DEF MembersInv
    <2>1. CASE q = place
      <3>1. \A d \in kept : state'[d] = "registered" /\ q = Place(d)
        <4> SUFFICES ASSUME NEW d \in kept
                     PROVE  state'[d] = "registered" /\ q = Place(d)
          OBVIOUS
        <4>1. CASE d = c
          BY <4>1, <2>1, <1>3, <1>6
        <4>2. CASE d # c
          BY <4>2, <2>1, <1>2, <1>5, <1>6 DEF MembersInv
        <4> QED
          BY <4>1, <4>2
      <3> QED
        BY <2>1, <3>1, <1>4, <1>6
    <2>2. CASE q # place
      <3>1. c \notin members[q]
        BY <2>2 DEF MembersInv
      <3>2. members[q] \subseteq ClientId
        BY DEF RegistryTypeOK
      <3> QED
        BY <2>2, <3>1, <3>2, <1>6 DEF MembersInv
    <2> QED
      BY <2>1, <2>2
  <1>10. PlaceInv'
    <2> SUFFICES ASSUME NEW d \in ClientId
                 PROVE  /\ state'[d] \in Called =>
                             request[d] \in Requests /\ request[d].sent <= now
                        /\ state'[d] = "registered" /\ request[d].expires > now =>
                             d \in members'[Place(d)]
      BY <1>1 DEF PlaceInv, Known
    <2>1. state'[d] \in Called => request[d] \in Requests /\ request[d].sent <= now
      BY <1>1, <1>6 DEF PlaceInv
    <2>2. ASSUME state'[d] = "registered", request[d].expires > now
          PROVE  d \in members'[Place(d)]
      <3>1. CASE d = c
        BY <3>1, <2>2, <1>6
      <3>2. CASE d # c
        <4>1. state[d] = "registered" /\ d \in members[Place(d)]
          BY <3>2, <2>2, <1>6 DEF PlaceInv, Known
        <4>2. /\ request[d] \in Requests /\ now \in Nat
              /\ Place(d) \in Key \X Peer
          BY <2>1, <2>2 DEF Called, Requests, RegistryTypeOK
        <4>3. CASE Place(d) = place
          <5>1. request[d].expires > Asof(c)
            BY <2>2, <4>2, <1>2, RegistryAssumption DEF Requests, Never
          <5>2. d \in Counted(c)
            BY <4>1, <4>3, <5>1 DEF Counted
          <5> QED
            BY <4>3, <5>2, <1>6
        <4>4. CASE Place(d) # place
          BY <4>1, <4>2, <4>4, <1>6
        <4> QED
          BY <4>3, <4>4
      <3> QED
        BY <3>1, <3>2
    <2> QED
      BY <2>1, <2>2
  <1> QED
    BY <1>7, <1>8, <1>9, <1>10

LEMMA Rotate_Inv ==
  ASSUME RegistryInv, NEW r \in Replica, Rotate(r)
  PROVE  RegistryInv'
  <1> USE DEF RegistryInv, Place
  <1>1. first' \in [Replica -> Key] /\ UNCHANGED <<backend, now, request>>
    BY DEF Rotate, RegistryTypeOK
  <1>2. CASE backend = "redis"
    <2>1. UNCHANGED <<state, members>>
      BY <1>2 DEF Rotate
    <2> QED
      BY <1>1, <2>1 DEF RegistryTypeOK, ArrivedInv, MembersInv, PlaceInv, Known
  <1>3. CASE backend # "redis"
    <2>1. /\ state' = [c \in ClientId |->
                 IF state[c] \in Called THEN "lost" ELSE state[c]]
          /\ members' = [kp \in Key \X Peer |-> {}]
      BY <1>3 DEF Rotate
    <2>2. RegistryTypeOK'
      BY <1>1, <2>1 DEF RegistryTypeOK
    <2>3. {c \in ClientId : state'[c] # "new"} = {c \in ClientId : state[c] # "new"}
      BY <2>1 DEF Called
    <2>4. MembersInv'
      BY <2>1, FS_EmptySet, RegistryAssumption DEF MembersInv
    <2>5. PlaceInv'
      BY <2>1 DEF PlaceInv, Known, Called, RegistryTypeOK
    <2> QED
      BY <2>2, <2>3, <2>4, <2>5 DEF ArrivedInv
  <1> QED
    BY <1>2, <1>3

\* A registration that is dropped was not registered yet.
LEMMA Dropped_Inv ==
  ASSUME RegistryInv, NEW c \in ClientId, Invalid(c) \/ Lose(c)
  PROVE  RegistryInv'
  <1> USE DEF RegistryInv, Place
  <1>1. PICK end \in {"invalid", "lost"} : state' = [state EXCEPT ![c] = end]
    BY DEF Invalid, Lose
  <1>2. state[c] \in {"new", "sent"} /\ UNCHANGED <<backend, now, first, request, members>>
    BY DEF Invalid, Lose
  <1>3. RegistryTypeOK'
    BY <1>1, <1>2 DEF RegistryTypeOK
  <1>4. state'[c] = end /\ \A d \in ClientId \ {c} : state'[d] = state[d]
    BY <1>1 DEF RegistryTypeOK
  <1>5. ArrivedInv'
    <2>1. {d \in ClientId : state'[d] # "new"} = {d \in ClientId : state[d] # "new"} \cup {c}
      BY <1>4
    <2> QED
      BY <2>1, FS_AddElement DEF ArrivedInv
  <1>6. MembersInv'
    <2>1. \A place \in Key \X Peer : members[place] \subseteq ClientId \ {c}
      BY <1>2 DEF MembersInv, RegistryTypeOK
    <2> QED
      BY <1>2, <1>4, <2>1 DEF MembersInv
  <1>7. PlaceInv'
    BY <1>2, <1>4 DEF PlaceInv, Known, Called
  <1> QED
    BY <1>3, <1>5, <1>6, <1>7

LEMMA Tick_Inv ==
  ASSUME RegistryInv, Tick
  PROVE  RegistryInv'
  <1> USE DEF RegistryInv, Place
  <1>1. UNCHANGED <<backend, first, state, request, members>> /\ now' = now + 1
    BY DEF Tick
  <1>2. RegistryTypeOK'
    BY <1>1, RegistryAssumption DEF Tick, RegistryTypeOK
  <1>3. PlaceInv'
    <2> SUFFICES ASSUME NEW c \in ClientId, state[c] \in Called
                 PROVE  /\ request[c] \in Requests /\ request[c].sent <= now'
                        /\ state[c] = "registered" /\ request[c].expires > now' =>
                             c \in members[Place(c)]
      BY <1>1 DEF PlaceInv, Known, Called
    <2>1. request[c] \in Requests /\ request[c].sent <= now
      BY DEF PlaceInv
    <2>2. request[c].sent \in Nat /\ request[c].expires \in Nat /\ now \in Nat
      BY <2>1, RegistryAssumption DEF Requests, Never, RegistryTypeOK
    <2> QED
      BY <1>1, <2>1, <2>2 DEF PlaceInv, Known
  <1> QED
    BY <1>1, <1>2, <1>3 DEF ArrivedInv, MembersInv

LEMMA RegistryNext_Inv == RegistryInv /\ [RegistryNext]_registryVars => RegistryInv'
  <1> SUFFICES ASSUME RegistryInv, [RegistryNext]_registryVars PROVE RegistryInv'
    OBVIOUS
  <1>1. ASSUME NEW c \in ClientId, NEW r \in Replica, Submit(c, r) PROVE RegistryInv'
    BY <1>1, Submit_Inv
  <1>2. ASSUME NEW c \in ClientId, Register(c) PROVE RegistryInv'
    BY <1>2, Register_Inv
  <1>3. ASSUME NEW c \in ClientId, Invalid(c) \/ Lose(c) PROVE RegistryInv'
    BY <1>3, Dropped_Inv
  <1>4. ASSUME NEW r \in Replica, Rotate(r) PROVE RegistryInv'
    BY <1>4, Rotate_Inv
  <1>5. CASE Tick
    BY <1>5, Tick_Inv
  <1>6. CASE UNCHANGED registryVars
    BY <1>6 DEF registryVars, RegistryInv, RegistryTypeOK, ArrivedInv, MembersInv, PlaceInv, Known, Called, Place
  <1> QED
    BY <1>1, <1>2, <1>3, <1>4, <1>5, <1>6 DEF RegistryNext

LEMMA RegistryInvariant == RegistrySpec => []RegistryInv
  BY RegistryInit_Inv, RegistryNext_Inv, PTL DEF RegistrySpec

\* Every variable of the registration model keeps its type, for both stores.
THEOREM RegistryTypeCorrect == RegistrySpec => []RegistryTypeOK
  <1>1. RegistryInv => RegistryTypeOK
    BY DEF RegistryInv
  <1> QED
    BY <1>1, RegistryInvariant, PTL

\* However many clients register through however many replicas, and however
\* late the script of a registration runs, a peer has at most Cap usable clients
\* under one key.
THEOREM RegistrationCapHolds == RegistrySpec => []CapHolds
  <1>1. RegistryInv => CapHolds
    <2> SUFFICES ASSUME RegistryInv, NEW k \in Key, NEW p \in Peer
                 PROVE  Cardinality(KnownOf(k, p)) <= Cap
      BY DEF CapHolds
    <2> DEFINE counted == members[<<k, p>>]
    <2>1. KnownOf(k, p) \subseteq counted
      BY DEF KnownOf, RegistryInv, PlaceInv, Place
    <2>2. IsFiniteSet(counted) /\ Cardinality(counted) <= Cap
      BY DEF RegistryInv, MembersInv
    <2>3. /\ IsFiniteSet(KnownOf(k, p))
          /\ Cardinality(KnownOf(k, p)) <= Cardinality(counted)
      BY <2>1, <2>2, FS_Subset
    <2> QED
      BY <2>2, <2>3, FS_CardinalityType, RegistryAssumption
  <1> QED
    BY <1>1, RegistryInvariant, PTL

\* A client is refused only if Cap other clients of its peer and key were
\* registered and had not expired when it was sent.
THEOREM RefusalsJustified == RegistrySpec => RefusedOnlyWhenFull
  <1> USE DEF Place
  <1>1. ASSUME RegistryInv, [RegistryNext]_registryVars,
               NEW c \in ClientId, state[c] # "refused", state'[c] = "refused"
        PROVE  Cap <= Cardinality({d \in ClientId \ {c} :
                 /\ state[d] = "registered"
                 /\ request[d].key = request[c].key
                 /\ request[d].peer = request[c].peer
                 /\ request[d].expires > request[c].sent})
    <2> DEFINE fresh == {d \in ClientId \ {c} :
                 /\ state[d] = "registered"
                 /\ request[d].key = request[c].key
                 /\ request[d].peer = request[c].peer
                 /\ request[d].expires > request[c].sent}
    <2>1. Register(c) /\ ~HasRoom(c) /\ ~Exists(c)
      <3>1. ASSUME NEW d \in ClientId, Register(d) PROVE Register(c) /\ ~HasRoom(c) /\ ~Exists(c)
        <4>1. d = c
          BY <1>1, <3>1 DEF Register, RegistryInv, RegistryTypeOK
        <4> QED
          BY <1>1, <3>1, <4>1 DEF Register, RegistryInv, RegistryTypeOK
      <3>2. ASSUME NEW d \in ClientId, NEW r \in Replica, Submit(d, r) PROVE FALSE
        BY <1>1, <3>2 DEF Submit, RegistryInv, RegistryTypeOK
      <3>3. ASSUME NEW d \in ClientId, Invalid(d) \/ Lose(d) PROVE FALSE
        BY <1>1, <3>3 DEF Invalid, Lose, RegistryInv, RegistryTypeOK
      <3>4. ASSUME NEW r \in Replica, Rotate(r) PROVE FALSE
        BY <1>1, <3>4 DEF Rotate, RegistryInv, RegistryTypeOK
      <3>5. ~Tick /\ ~UNCHANGED registryVars
        BY <1>1 DEF Tick, registryVars
      <3> QED
        BY <1>1, <3>1, <3>2, <3>3, <3>4, <3>5 DEF RegistryNext
    <2>2. /\ Place(c) \in Key \X Peer
          /\ Asof(c) \in Nat /\ request[c].sent <= Asof(c)
          /\ Counted(c) \subseteq members[Place(c)]
          /\ Cardinality(Counted(c)) \in Nat
      BY <1>1, <2>1, CountedHere DEF Register
    <2>3. Counted(c) \subseteq fresh
      <3> SUFFICES ASSUME NEW d \in Counted(c) PROVE d \in fresh
        OBVIOUS
      <3>1. /\ d \in ClientId \ {c} /\ state[d] = "registered"
            /\ Place(c) = Place(d)
        BY <1>1, <2>1, <2>2 DEF RegistryInv, RegistryTypeOK, MembersInv, Exists
      <3>2. request[d] \in Requests /\ request[c] \in Requests
        BY <1>1, <2>1, <3>1 DEF RegistryInv, PlaceInv, Called, Register
      <3>3. request[d].expires > request[c].sent
        BY <2>2, <3>2, RegistryAssumption DEF Counted, Requests, Never
      <3> QED
        BY <3>1, <3>3
    <2>4. IsFiniteSet(fresh)
      <3>1. fresh \in SUBSET {d \in ClientId : state[d] # "new"}
        OBVIOUS
      <3>2. IsFiniteSet({d \in ClientId : state[d] # "new"})
        BY <1>1 DEF RegistryInv, ArrivedInv
      <3> QED
        BY <3>1, <3>2, FS_Subset
    <2> HIDE DEF fresh
    <2>5. Cardinality(Counted(c)) <= Cardinality(fresh) /\ Cardinality(fresh) \in Nat
      BY <2>3, <2>4, FS_Subset, FS_CardinalityType
    <2>6. Cap <= Cardinality(Counted(c))
      BY <2>1, <2>2, RegistryAssumption DEF HasRoom
    <2>7. Cap <= Cardinality(fresh)
      BY <2>2, <2>5, <2>6, RegistryAssumption
    <2> QED
      BY <2>7 DEF fresh
  <1>2. RegistryInv /\ [RegistryNext]_registryVars =>
          [\A c \in ClientId :
             state[c] # "refused" /\ state'[c] = "refused" =>
               Cap <= Cardinality({d \in ClientId \ {c} :
                 /\ state[d] = "registered"
                 /\ request[d].key = request[c].key
                 /\ request[d].peer = request[c].peer
                 /\ request[d].expires > request[c].sent})]_registryVars
    BY <1>1
  <1> QED
    BY <1>2, RegistryInvariant, PTL DEF RegistrySpec, RefusedOnlyWhenFull

=============================================================================
