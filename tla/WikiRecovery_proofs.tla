------------------------ MODULE WikiRecovery_proofs ------------------------
(***************************************************************************)
(* Proofs about WikiRecovery, for any requests, principals, pages and      *)
(* deletions.                                                              *)
(***************************************************************************)
EXTENDS WikiRecovery, TLAPS

\* A request on its way to the store, or from there to Yandex, with a token.
Carries(r, h) ==
  req[r].handle = h /\ req[r].at \in {"deleted", "put", "recover"}

\* A token is in one place: with one request, or in the store, or it was sent.
TokenInv ==
  /\ \A r, s \in Request, h \in Handle : Carries(r, h) /\ Carries(s, h) => r = s
  /\ \A r \in Request, h \in Handle :
       Carries(r, h) => records[h] = None /\ sends[h] = 0 /\ owner[h] # None
  /\ \A h \in Handle :
       records[h] # None => sends[h] = 0 /\ owner[h] # None
  /\ \A h \in Handle : owner[h] = None => restores[h] = None /\ sends[h] = 0
  /\ SentOnce

\* Whoever has it, it is its owner's, for the page that was deleted.
OwnerInv ==
  /\ \A r \in Request, h \in Handle :
       Carries(r, h) => /\ req[r].who = owner[h]
                        /\ restores[h] # None => req[r].page = restores[h]
  /\ \A h \in Handle :
       records[h] # None => /\ records[h].owner = owner[h]
                            /\ restores[h] # None => records[h].page = restores[h]
  /\ Recoverable

\* A request that will still write a record is ahead of close() in the queue.
CloseInv ==
  /\ closer = "no" <=> ~closed
  /\ closer = "waiting" =>
       \A r \in Request : req[r].at = "put" => r \in ahead[Closer]
  /\ closer = "done" => \A r \in Request : req[r].at # "put"
  /\ ClosedEmpty

IndInv == TypeOK /\ TokenInv /\ OwnerInv /\ CloseInv

LEMMA InitIndInv == ASSUME Init PROVE IndInv
  <1> USE DEF Init, Idle
  <1>1. TypeOK
    BY NameAssumption DEF TypeOK, RequestType, Task
  <1>2. \A r \in Request : req[r].at = "idle"
    OBVIOUS
  <1>3. TokenInv /\ OwnerInv /\ CloseInv
    BY <1>2 DEF TokenInv, OwnerInv, CloseInv, Carries, SentOnce, Recoverable,
                ClosedEmpty
  <1> QED
    BY <1>1, <1>3 DEF IndInv

\* What a request is after it moved, and that the others stay.
LEMMA MoveFacts ==
  ASSUME TypeOK, NEW r \in Request, NEW next, Goto(r, next)
  PROVE  /\ req'[r] = next
         /\ \A s \in Request : s # r => req'[s] = req[s]
         /\ next \in RequestType => req' \in [Request -> RequestType]
  BY DEF TypeOK, Goto

LEMMA Fields ==
  ASSUME TypeOK, NEW r \in Request, NEW place,
         place \in {"idle", "resolve", "delete", "deleted", "put",
                    "consume", "recover", "recovered"}
  PROVE  LET next == [req[r] EXCEPT !.at = place] IN
         /\ next \in RequestType
         /\ next.at = place /\ next.who = req[r].who /\ next.page = req[r].page
         /\ next.handle = req[r].handle
  <1>1. req[r] \in RequestType
    BY DEF TypeOK
  <1> QED
    BY <1>1 DEF RequestType

LEMMA JoinFacts ==
  ASSUME TypeOK, NEW t \in Task, t \notin queued, Join(t)
  PROVE  /\ queued' = queued \cup {t} /\ queued' \in SUBSET Task
         /\ ahead' \in [Task -> SUBSET queued']
         /\ ahead'[t] = queued
         /\ \A u \in Task : u # t => ahead'[u] = ahead[u]
  BY DEF TypeOK, Join, AheadOf

LEMMA LeaveFacts ==
  ASSUME TypeOK, NEW t \in Task, LeaveLock(t)
  PROVE  /\ queued' = queued \ {t} /\ queued' \in SUBSET Task
         /\ ahead' \in [Task -> SUBSET queued']
         /\ \A u \in Task : u # t => ahead'[u] = ahead[u] \ {t}
  BY DEF TypeOK, LeaveLock, OthersAfter

\* A request moves that has no token before or after and is not at the lock.
LEMMA QuietStep ==
  ASSUME IndInv, NEW r \in Request, NEW next \in RequestType, Goto(r, next),
         req[r].at \in {"idle", "resolve", "delete", "recovered"},
         next.at \in {"idle", "resolve", "delete"},
         next.at # "idle" => next.who \in Principal,
         UNCHANGED <<live, restores, records, closed, closer, queued, ahead,
                     owner, sends, logged, gone>>
  PROVE  IndInv'
  <1> USE DEF IndInv
  <1>2. /\ req'[r] = next /\ \A s \in Request : s # r => req'[s] = req[s]
        /\ req' \in [Request -> RequestType]
    BY MoveFacts
  <1>4. TypeOK'
    BY <1>2 DEF TypeOK
  <1>5. \A s \in Request, h \in Handle :
          (Carries(s, h)' <=> Carries(s, h)) /\ (Carries(s, h) => s # r)
    BY <1>2 DEF Carries
  <1>6. TokenInv'
    BY <1>5 DEF TokenInv, SentOnce
  <1>7. OwnerInv'
    BY <1>2, <1>5 DEF OwnerInv, Recoverable, Carries
  <1>8. CloseInv'
    BY <1>2 DEF CloseInv, ClosedEmpty
  <1> QED
    BY <1>4, <1>6, <1>7, <1>8

LEMMA IdleIsRequest == Idle \in RequestType /\ Idle.at = "idle"
  BY DEF Idle, RequestType

LEMMA StartDeleteStep ==
  ASSUME IndInv, NEW r \in Request, NEW u \in Principal, NEW p \in Page,
         StartDelete(r, u, p)
  PROVE  IndInv'
  <1> DEFINE next == [at |-> "resolve", who |-> u, page |-> p, handle |-> None,
                      waited |-> FALSE]
  <1>1. next \in RequestType
    BY DEF RequestType
  <1>3. Goto(r, next) /\ req[r].at = "idle"
    BY DEF StartDelete, Idle
  <1> QED
    BY <1>1, <1>3, QuietStep DEF StartDelete, yandex, store, lock, history

LEMMA ResolveStep ==
  ASSUME IndInv, NEW r \in Request, Resolve(r)
  PROVE  IndInv'
  <1> DEFINE next == [req[r] EXCEPT !.at = "delete"]
  <1>1. /\ next \in RequestType /\ next.at = "delete" /\ next.who \in Principal
        /\ req[r].at = "resolve"
    BY Fields DEF IndInv, Resolve, TypeOK
  <1>2. Goto(r, next)
    BY DEF Resolve, Move
  <1> QED
    BY <1>1, <1>2, QuietStep DEF Resolve, yandex, store, lock, history

LEMMA RecoverAnsweredStep ==
  ASSUME IndInv, NEW r \in Request, RecoverAnswered(r)
  PROVE  IndInv'
  BY QuietStep, IdleIsRequest DEF RecoverAnswered, yandex, store, lock, history

LEMMA DeleteUpstreamStep ==
  ASSUME IndInv, NEW r \in Request, NEW d \in Handle, DeleteUpstream(r, d)
  PROVE  IndInv'
  <1> DEFINE next == [req[r] EXCEPT !.at = "deleted", !.handle = d]
  <1> USE DEF IndInv
  <1>1. /\ req[r].at = "delete" /\ req[r].page \in live /\ owner[d] = None
        /\ live \subseteq Page /\ req[r].who \in Principal
        /\ req[r] \in RequestType
    BY DEF DeleteUpstream, TypeOK
  <1>2. /\ next \in RequestType /\ next.at = "deleted" /\ next.who = req[r].who
        /\ next.page = req[r].page /\ next.handle = d
    BY <1>1 DEF RequestType
  <1>3. /\ req'[r] = next /\ \A s \in Request : s # r => req'[s] = req[s]
        /\ req' \in [Request -> RequestType]
    BY <1>2, MoveFacts DEF DeleteUpstream
  <1>4. /\ UNCHANGED <<records, closed, closer, queued, ahead, sends, logged, gone>>
        /\ live' \in SUBSET Page
        /\ restores' \in [Handle -> Page \cup {None}]
        /\ owner' \in [Handle -> Principal \cup {None}]
        /\ restores'[d] = req[r].page /\ owner'[d] = req[r].who
        /\ \A h \in Handle : h # d => restores'[h] = restores[h] /\ owner'[h] = owner[h]
    BY <1>1 DEF DeleteUpstream, store, lock, TypeOK
  <1>5. TypeOK'
    <2>1. \A s \in Request :
            /\ s \in queued <=> req'[s].at \in {"put", "consume"}
            /\ req'[s].at # "idle" => req'[s].who \in Principal
            /\ req'[s].at \notin {"idle", "resolve", "delete"} => req'[s].handle \in Handle
            /\ req'[s].at \in {"deleted", "put", "recover"} => req'[s].page \in Page
      <3> HIDE DEF next, IndInv
      <3>1. TypeOK
        BY DEF IndInv
      <3>2. r \notin queued /\ req[r].page \in Page
        BY <1>1, <3>1 DEF TypeOK
      <3>3. ASSUME NEW s \in Request, s # r
            PROVE  /\ s \in queued <=> req[s].at \in {"put", "consume"}
                   /\ req[s].at # "idle" => req[s].who \in Principal
                   /\ req[s].at \notin {"idle", "resolve", "delete"} => req[s].handle \in Handle
                   /\ req[s].at \in {"deleted", "put", "recover"} => req[s].page \in Page
        BY <3>1 DEF TypeOK
      <3> QED
        BY <1>1, <1>2, <1>3, <3>2, <3>3
    <2> HIDE DEF next
    <2> QED
      BY <1>3, <1>4, <2>1 DEF TypeOK
  <1>6. /\ \A s \in Request : ~Carries(s, d)
        /\ records[d] = None /\ sends[d] = 0
    BY <1>1 DEF TokenInv
  <1>7. /\ Carries(r, d)'
        /\ \A h \in Handle : ~Carries(r, h)
        /\ \A h \in Handle : h # d => ~Carries(r, h)'
        /\ \A s \in Request, h \in Handle : s # r => (Carries(s, h)' <=> Carries(s, h))
    BY <1>1, <1>2, <1>3 DEF Carries
  <1>8. owner'[d] # None /\ \A h \in Handle : owner[h] # None => owner'[h] = owner[h]
    BY <1>1, <1>4, NameAssumption
  <1>9. TokenInv'
    BY <1>4, <1>6, <1>7, <1>8 DEF TokenInv, SentOnce
  <1>10. OwnerInv'
    <2>1. ASSUME NEW s \in Request, NEW h \in Handle, Carries(s, h)'
          PROVE  (/\ req[s].who = owner[h]
                  /\ restores[h] # None => req[s].page = restores[h])'
      <3>1. CASE s = r
        BY <1>2, <1>3, <1>4, <1>7, <2>1, <3>1
      <3>2. CASE s # r
        BY <1>3, <1>4, <1>6, <1>7, <2>1, <3>2 DEF OwnerInv
      <3> QED
        BY <3>1, <3>2
    <2>2. \A h \in Handle : (records[h] # None =>
            /\ records[h].owner = owner[h]
            /\ restores[h] # None => records[h].page = restores[h])'
      BY <1>4, <1>6 DEF OwnerInv
    <2>3. ASSUME NEW h \in Handle, h # d, restores'[h] # None
          PROVE  \/ h \in gone'
                 \/ (records[h] # None)'
                 \/ \E s \in Request : Carries(s, h)'
      BY <1>4, <1>7, <2>3 DEF OwnerInv, Recoverable, Carries
    <2> QED
      BY <1>7, <2>1, <2>2, <2>3 DEF OwnerInv, Recoverable, Carries
  <1>11. CloseInv'
    BY <1>1, <1>2, <1>3, <1>4 DEF CloseInv, ClosedEmpty
  <1> QED
    BY <1>5, <1>9, <1>10, <1>11

\* A request that has a token gives it up: the deletion is gone.
LEMMA GiveUpStep ==
  ASSUME IndInv, NEW r \in Request, Goto(r, Idle),
         UNCHANGED <<live, restores, records, closed, closer, owner, sends, logged>>,
         gone \subseteq gone', gone' \in SUBSET Handle,
         \A h \in Handle : Carries(r, h) => h \in gone',
         \/ r \notin queued /\ UNCHANGED <<queued, ahead>>
         \/ r \in queued /\ LeaveLock(r)
  PROVE  IndInv'
  <1> USE DEF IndInv
  <1>1. /\ req'[r] = Idle /\ \A s \in Request : s # r => req'[s] = req[s]
        /\ req' \in [Request -> RequestType]
    BY IdleIsRequest, MoveFacts
  <1>2. /\ queued' \in SUBSET Task /\ ahead' \in [Task -> SUBSET queued']
        /\ queued' = queued \ {r}
        /\ \A t \in Task : t # r => ahead'[t] = ahead[t] \ {r}
        /\ r \in Task /\ Closer # r /\ Closer \in Task
    BY LeaveFacts, NameAssumption DEF TypeOK, Task
  <1>3. TypeOK'
    BY <1>1, <1>2, IdleIsRequest DEF TypeOK
  <1>4. \A h \in Handle : ~Carries(r, h)'
    BY <1>1, IdleIsRequest DEF Carries
  <1>5. \A s \in Request, h \in Handle : s # r => (Carries(s, h)' <=> Carries(s, h))
    BY <1>1 DEF Carries
  <1>6. TokenInv'
    BY <1>4, <1>5 DEF TokenInv, SentOnce
  <1>7. OwnerInv'
    <2>1. \A s \in Request, h \in Handle : Carries(s, h)' =>
            (/\ req[s].who = owner[h]
             /\ restores[h] # None => req[s].page = restores[h])'
      BY <1>1, <1>4, <1>5 DEF OwnerInv
    <2>2. ASSUME NEW h \in Handle, restores'[h] # None
          PROVE  \/ h \in gone'
                 \/ (records[h] # None)'
                 \/ \E s \in Request : Carries(s, h)'
      BY <1>5, <2>2 DEF OwnerInv, Recoverable, Carries
    <2> QED
      BY <2>1, <2>2 DEF OwnerInv, Recoverable, Carries
  <1>8. CloseInv'
    BY <1>1, <1>2, IdleIsRequest DEF CloseInv, ClosedEmpty
  <1> QED
    BY <1>3, <1>6, <1>7, <1>8

LEMMA FailStep ==
  ASSUME IndInv, NEW r \in Request, Fail(r)
  PROVE  IndInv'
  <1>1. req[r].at \in {"resolve", "delete", "deleted", "recover", "recovered"}
        /\ Goto(r, Idle) /\ r \notin queued
        /\ UNCHANGED <<live, restores, records, closed, closer, queued, ahead,
                       owner, sends, logged>>
    BY DEF Fail, IndInv, TypeOK, yandex, store, lock
  <1>2. gone \subseteq gone' /\ gone' \in SUBSET Handle
    BY DEF Fail, IndInv, TypeOK
  <1>3. \A h \in Handle : Carries(r, h) => h \in gone'
    BY DEF Fail, Carries
  <1> QED
    BY <1>1, <1>2, <1>3, GiveUpStep

LEMMA CancelStep ==
  ASSUME IndInv, NEW r \in Request, Cancel(r)
  PROVE  IndInv'
  <1>1. req[r].at \in {"put", "consume"} /\ Goto(r, Idle) /\ r \in queued
        /\ LeaveLock(r)
        /\ UNCHANGED <<live, restores, records, closed, closer, owner, sends, logged>>
    BY DEF Cancel, IndInv, TypeOK, yandex, store
  <1>2. gone \subseteq gone' /\ gone' \in SUBSET Handle
    BY DEF Cancel, IndInv, TypeOK
  <1>3. \A h \in Handle : Carries(r, h) => h \in gone'
    BY DEF Cancel, Carries
  <1> QED
    BY <1>1, <1>2, <1>3, GiveUpStep

LEMMA AskPutStep ==
  ASSUME IndInv, NEW r \in Request, AskPut(r)
  PROVE  IndInv'
  <1> USE DEF IndInv
  <1>1. /\ req[r].at = "deleted" /\ r \notin queued
        /\ req[r].handle \in Handle /\ req[r].who \in Principal /\ req[r].page \in Page
        /\ req[r] \in RequestType
        /\ UNCHANGED <<live, restores, records, closed, closer, owner, sends, logged>>
    BY DEF AskPut, TypeOK, yandex, store
  <1>2. CASE ~Open /\ Goto(r, Idle) /\ gone' = gone \cup {req[r].handle}
               /\ UNCHANGED lock
    <2>1. gone \subseteq gone' /\ gone' \in SUBSET Handle
      BY <1>1, <1>2 DEF TypeOK
    <2>2. \A h \in Handle : Carries(r, h) => h \in gone'
      BY <1>2 DEF Carries
    <2> QED
      BY <1>1, <1>2, <2>1, <2>2, GiveUpStep DEF lock
  <1>3. CASE /\ Open /\ Join(r) /\ UNCHANGED gone
             /\ Goto(r, [req[r] EXCEPT !.at = "put", !.waited = queued # {}])
    <2> DEFINE next == [req[r] EXCEPT !.at = "put", !.waited = queued # {}]
    <2>1. /\ next \in RequestType /\ next.at = "put" /\ next.who = req[r].who
          /\ next.page = req[r].page /\ next.handle = req[r].handle
      BY <1>1 DEF RequestType
    <2>2. /\ req'[r] = next /\ \A s \in Request : s # r => req'[s] = req[s]
          /\ req' \in [Request -> RequestType]
      BY <1>3, <2>1, MoveFacts
    <2>3. /\ queued' \in SUBSET Task /\ ahead' \in [Task -> SUBSET queued']
          /\ queued' = queued \cup {r} /\ Closer # r
      BY <1>1, <1>3, JoinFacts, NameAssumption DEF Task
    <2>4. TypeOK'
      BY <1>1, <1>3, <2>1, <2>2, <2>3 DEF TypeOK
    <2>5. \A s \in Request, h \in Handle :
            /\ Carries(s, h)' <=> Carries(s, h)
            /\ req'[s].who = req[s].who /\ req'[s].page = req[s].page
      BY <1>1, <2>1, <2>2 DEF Carries
    <2>6. TokenInv'
      BY <1>1, <2>5 DEF TokenInv, SentOnce
    <2>7. OwnerInv'
      <3>1. \A s \in Request, h \in Handle : Carries(s, h)' =>
              (/\ req[s].who = owner[h]
               /\ restores[h] # None => req[s].page = restores[h])'
        BY <1>1, <2>5 DEF OwnerInv
      <3>2. ASSUME NEW h \in Handle, restores'[h] # None
            PROVE  \/ h \in gone'
                   \/ (records[h] # None)'
                   \/ \E s \in Request : Carries(s, h)'
        BY <1>1, <1>3, <2>5, <3>2 DEF OwnerInv, Recoverable, Carries
      <3> QED
        BY <1>1, <3>1, <3>2 DEF OwnerInv, Recoverable, Carries
    <2>8. CloseInv'
      BY <1>1, <1>3, <2>1, <2>2 DEF CloseInv, ClosedEmpty, Open
    <2> QED
      BY <2>4, <2>6, <2>7, <2>8
  <1> QED
    BY <1>2, <1>3 DEF AskPut

LEMMA PutStep ==
  ASSUME IndInv, NEW r \in Request, Put(r)
  PROVE  IndInv'
  <1> DEFINE d == req[r].handle
             new == [owner |-> req[r].who, page |-> req[r].page, aged |-> FALSE]
  <1> USE DEF IndInv
  <1>1. /\ req[r].at = "put" /\ r \in queued /\ ahead[r] = {}
        /\ d \in Handle /\ new \in Record /\ new # None
        /\ Carries(r, d) /\ Goto(r, Idle) /\ LeaveLock(r)
        /\ UNCHANGED <<live, restores, closed, closer, owner, sends, gone>>
        /\ logged' = logged \cup {d}
    <2>1. req[r].who \in Principal /\ req[r].page \in Page /\ d \in Handle
      BY DEF Put, TypeOK
    <2>2. new \in Record
      BY <2>1 DEF Record
    <2>3. records[d] = None /\ Stored(r)[d] = new
      BY <2>1 DEF TokenInv, Carries, Put, Stored, TypeOK
    <2>4. new.owner # None /\ new.owner \in Principal
      BY <2>1, NameAssumption
    <2> QED
      BY <2>1, <2>2, <2>4, NameAssumption DEF Put, Holds, Carries, yandex
  <1>2. /\ records' \in [Handle -> Record \cup {None}]
        /\ records'[d] = new
        /\ \A h \in Handle : h # d => records'[h] = records[h]
    BY <1>1 DEF Put, Stored, TypeOK
  <1>3. /\ req'[r] = Idle /\ \A s \in Request : s # r => req'[s] = req[s]
        /\ req' \in [Request -> RequestType]
    BY <1>1, IdleIsRequest, MoveFacts
  <1>4. /\ queued' \in SUBSET Task /\ ahead' \in [Task -> SUBSET queued']
        /\ queued' = queued \ {r}
        /\ \A t \in Task : t # r => ahead'[t] = ahead[t] \ {r}
        /\ r \in Task /\ Closer # r /\ Closer \in Task
    BY <1>1, LeaveFacts, NameAssumption DEF TypeOK, Task
  <1>5. TypeOK'
    BY <1>1, <1>2, <1>3, <1>4, IdleIsRequest DEF TypeOK
  <1>6. /\ \A h \in Handle : ~Carries(r, h)'
        /\ \A s \in Request, h \in Handle : s # r => (Carries(s, h)' <=> Carries(s, h))
        /\ \A h \in Handle : h # d => ~Carries(r, h)
        /\ \A s \in Request : s # r => ~Carries(s, d)
        /\ sends[d] = 0 /\ owner[d] # None /\ req[r].who = owner[d]
        /\ restores[d] # None => req[r].page = restores[d]
    BY <1>1, <1>3, IdleIsRequest DEF Carries, TokenInv, OwnerInv
  <1>7. TokenInv'
    BY <1>1, <1>2, <1>6 DEF TokenInv, SentOnce
  <1>8. OwnerInv'
    <2>1. \A s \in Request, h \in Handle : Carries(s, h)' =>
            (/\ req[s].who = owner[h]
             /\ restores[h] # None => req[s].page = restores[h])'
      BY <1>1, <1>3, <1>6 DEF OwnerInv
    <2>2. \A h \in Handle : (records[h] # None =>
            /\ records[h].owner = owner[h]
            /\ restores[h] # None => records[h].page = restores[h])'
      BY <1>1, <1>2, <1>6 DEF OwnerInv
    <2>3. ASSUME NEW h \in Handle, restores'[h] # None
          PROVE  \/ h \in gone'
                 \/ (records[h] # None)'
                 \/ \E s \in Request : Carries(s, h)'
      BY <1>1, <1>2, <1>6, <2>3 DEF OwnerInv, Recoverable, Carries
    <2> QED
      BY <2>1, <2>2, <2>3 DEF OwnerInv, Recoverable, Carries
  <1>9. CloseInv'
    BY <1>1, <1>3, <1>4, IdleIsRequest DEF CloseInv, ClosedEmpty
  <1> QED
    BY <1>5, <1>7, <1>8, <1>9

LEMMA StartRecoverStep ==
  ASSUME IndInv, NEW r \in Request, NEW u \in Principal, NEW d \in Handle,
         StartRecover(r, u, d)
  PROVE  IndInv'
  <1> DEFINE next == [at |-> "consume", who |-> u, page |-> None, handle |-> d,
                      waited |-> queued # {}]
  <1> USE DEF IndInv
  <1>1. /\ req[r].at = "idle" /\ r \notin queued /\ Join(r) /\ Goto(r, next)
        /\ next \in RequestType
        /\ UNCHANGED <<live, restores, records, closed, closer, owner, sends,
                       logged, gone>>
    BY DEF StartRecover, Idle, RequestType, TypeOK, yandex, store, history
  <1>2. /\ req'[r] = next /\ \A s \in Request : s # r => req'[s] = req[s]
        /\ req' \in [Request -> RequestType]
    BY <1>1, MoveFacts
  <1>3. /\ queued' \in SUBSET Task /\ ahead' \in [Task -> SUBSET queued']
        /\ queued' = queued \cup {r} /\ Closer # r /\ Closer \in Task
        /\ ahead'[Closer] = ahead[Closer]
    BY <1>1, JoinFacts, NameAssumption DEF Task
  <1>4. TypeOK'
    BY <1>1, <1>2, <1>3 DEF TypeOK
  <1>5. \A s \in Request, h \in Handle :
          (Carries(s, h)' <=> Carries(s, h)) /\ (Carries(s, h) => s # r)
    BY <1>1, <1>2 DEF Carries
  <1>6. TokenInv'
    BY <1>1, <1>5 DEF TokenInv, SentOnce
  <1>7. OwnerInv'
    BY <1>1, <1>2, <1>5 DEF OwnerInv, Recoverable, Carries
  <1>8. CloseInv'
    BY <1>1, <1>2, <1>3 DEF CloseInv, ClosedEmpty
  <1> QED
    BY <1>4, <1>6, <1>7, <1>8

LEMMA ConsumeStep ==
  ASSUME IndInv, NEW r \in Request, Consume(r)
  PROVE  IndInv'
  <1> DEFINE d == req[r].handle
             record == records[d]
             next == [req[r] EXCEPT !.at = "recover", !.page = record.page]
  <1> USE DEF IndInv
  <1>1. /\ req[r].at = "consume" /\ r \in queued /\ LeaveLock(r)
        /\ d \in Handle /\ req[r].who \in Principal
        /\ req[r] \in RequestType /\ record \in Record \cup {None}
        /\ UNCHANGED <<live, restores, closed, closer, owner, sends, logged>>
    BY DEF Consume, TypeOK, yandex
  <1>2. /\ queued' \in SUBSET Task /\ ahead' \in [Task -> SUBSET queued']
        /\ queued' = queued \ {r}
        /\ \A t \in Task : t # r => ahead'[t] = ahead[t] \ {r}
        /\ r \in Task /\ Closer # r /\ Closer \in Task
    BY <1>1, LeaveFacts, NameAssumption DEF TypeOK, Task
  <1>3. \A h \in Handle : ~Carries(r, h)
    BY <1>1 DEF Carries
  <1>4. CASE /\ Goto(r, Idle) /\ UNCHANGED <<records, gone>>
    BY <1>1, <1>3, <1>4, GiveUpStep DEF TypeOK
  <1>5. CASE /\ record # None /\ record.aged /\ Goto(r, Idle)
             /\ records' = [records EXCEPT ![d] = None]
             /\ gone' = gone \cup {d}
    <2>1. /\ req'[r] = Idle /\ \A s \in Request : s # r => req'[s] = req[s]
          /\ req' \in [Request -> RequestType]
      BY <1>5, IdleIsRequest, MoveFacts
    <2>2. TypeOK'
      BY <1>1, <1>2, <1>5, <2>1, IdleIsRequest DEF TypeOK
    <2>3. \A h \in Handle : /\ records'[h] = IF h = d THEN None ELSE records[h]
                            /\ h \in gone' <=> h \in gone \/ h = d
      BY <1>5 DEF TypeOK
    <2>4. \A s \in Request, h \in Handle :
            (Carries(s, h)' <=> Carries(s, h)) /\ (Carries(s, h) => s # r)
      BY <1>3, <2>1, IdleIsRequest DEF Carries
    <2>5. TokenInv'
      BY <1>1, <2>3, <2>4 DEF TokenInv, SentOnce
    <2>6. OwnerInv'
      BY <1>1, <2>1, <2>3, <2>4 DEF OwnerInv, Recoverable, Carries
    <2>7. CloseInv'
      BY <1>1, <1>2, <2>1, <2>3, IdleIsRequest DEF CloseInv, ClosedEmpty
    <2> QED
      BY <2>2, <2>5, <2>6, <2>7
  <1>6. CASE /\ record # None /\ record.owner = req[r].who /\ Goto(r, next)
             /\ records' = [records EXCEPT ![d] = None]
             /\ UNCHANGED gone
    <2>1. /\ next \in RequestType /\ next.at = "recover" /\ next.who = req[r].who
          /\ next.page = record.page /\ next.handle = d /\ record.page \in Page
      BY <1>1, <1>6 DEF RequestType, Record
    <2>2. /\ req'[r] = next /\ \A s \in Request : s # r => req'[s] = req[s]
          /\ req' \in [Request -> RequestType]
      BY <1>6, <2>1, MoveFacts
    <2>3. TypeOK'
      <3> HIDE DEF next
      <3>1. \A s \in Request :
              /\ s \in queued' <=> req'[s].at \in {"put", "consume"}
              /\ req'[s].at # "idle" => req'[s].who \in Principal
              /\ req'[s].at \notin {"idle", "resolve", "delete"} => req'[s].handle \in Handle
              /\ req'[s].at \in {"deleted", "put", "recover"} => req'[s].page \in Page
        BY <1>1, <1>2, <2>1, <2>2 DEF TypeOK
      <3>2. records' \in [Handle -> Record \cup {None}] /\ (Closer \in queued' <=> closer = "waiting")
        BY <1>1, <1>2, <1>6 DEF TypeOK
      <3> QED
        BY <1>1, <1>2, <1>6, <2>2, <3>1, <3>2 DEF TypeOK
    <2>4. \A h \in Handle : records'[h] = IF h = d THEN None ELSE records[h]
      BY <1>6 DEF TypeOK
    <2>5. /\ \A s \in Request, h \in Handle : s # r => (Carries(s, h)' <=> Carries(s, h))
          /\ Carries(r, d)' /\ \A h \in Handle : h # d => ~Carries(r, h)'
      BY <2>1, <2>2 DEF Carries
    <2>6. /\ \A s \in Request : ~Carries(s, d)
          /\ sends[d] = 0 /\ owner[d] # None /\ record.owner = owner[d]
          /\ restores[d] # None => record.page = restores[d]
      BY <1>1, <1>6 DEF TokenInv, OwnerInv
    <2>7. TokenInv'
      BY <1>1, <2>4, <2>5, <2>6 DEF TokenInv, SentOnce
    <2>8. OwnerInv'
      <3>1. ASSUME NEW s \in Request, NEW h \in Handle, Carries(s, h)'
            PROVE  (/\ req[s].who = owner[h]
                    /\ restores[h] # None => req[s].page = restores[h])'
        <4>1. CASE s = r
          BY <1>1, <1>6, <2>1, <2>2, <2>5, <2>6, <3>1, <4>1
        <4>2. CASE s # r
          BY <1>1, <2>2, <2>5, <3>1, <4>2 DEF OwnerInv
        <4> QED
          BY <4>1, <4>2
      <3>2. ASSUME NEW h \in Handle, restores'[h] # None
            PROVE  \/ h \in gone'
                   \/ (records[h] # None)'
                   \/ \E s \in Request : Carries(s, h)'
        <4>1. CASE h = d
          <5>1. Carries(r, h)'
            BY <2>1, <2>2, <4>1 DEF Carries
          <5> QED
            BY <5>1
        <4>2. CASE h # d
          <5>1. \/ h \in gone \/ records[h] # None
                \/ \E s \in Request : Carries(s, h)
            BY <1>1, <3>2 DEF OwnerInv, Recoverable, Carries
          <5>2. CASE h \in gone \/ records[h] # None
            BY <1>6, <2>4, <4>2, <5>2
          <5>3. CASE \E s \in Request : Carries(s, h)
            <6>1. PICK s \in Request : Carries(s, h)
              BY <5>3
            <6>2. s # r /\ Carries(s, h)'
              BY <1>3, <2>5, <6>1
            <6> QED
              BY <6>2
          <5> QED
            BY <5>1, <5>2, <5>3
        <4> QED
          BY <4>1, <4>2
      <3> QED
        BY <1>1, <2>4, <3>1, <3>2 DEF OwnerInv, Recoverable, Carries
    <2>9. CloseInv'
      BY <1>1, <1>2, <2>1, <2>2, <2>4 DEF CloseInv, ClosedEmpty
    <2> QED
      BY <2>3, <2>7, <2>8, <2>9
  <1>7. CASE /\ record # None /\ ~record.aged /\ record.owner # req[r].who
             /\ Goto(r, Idle) /\ UNCHANGED gone
             /\ records' = [records EXCEPT ![d] = record]
    <2>1. UNCHANGED records
      BY <1>7 DEF TypeOK
    <2> QED
      BY <1>1, <1>3, <1>7, <2>1, GiveUpStep DEF TypeOK
  <1> QED
    BY <1>4, <1>5, <1>6, <1>7 DEF Consume, Kept, OwnerMatches

LEMMA RecoverUpstreamStep ==
  ASSUME IndInv, NEW r \in Request, RecoverUpstream(r)
  PROVE  IndInv'
  <1> DEFINE d == req[r].handle
             next == [req[r] EXCEPT !.at = "recovered"]
  <1> USE DEF IndInv
  <1>1. /\ req[r].at = "recover" /\ r \notin queued /\ d \in Handle
        /\ req[r].who \in Principal /\ Carries(r, d)
        /\ UNCHANGED <<records, closed, closer, queued, ahead, owner, logged>>
        /\ sends' = [sends EXCEPT ![d] = sends[d] + 1]
    BY DEF RecoverUpstream, TypeOK, Carries, store, lock
  <1>2. /\ sends[d] = 0 /\ records[d] = None /\ owner[d] # None
        /\ \A s \in Request : s # r => ~Carries(s, d)
        /\ \A h \in Handle : h # d => ~Carries(r, h)
    BY <1>1 DEF TokenInv, Carries
  <1>3. /\ sends' \in [Handle -> Nat] /\ sends'[d] = 1
        /\ \A h \in Handle : h # d => sends'[h] = sends[h]
    BY <1>1, <1>2 DEF TypeOK
  <1>4. \E after \in RequestType :
          /\ Goto(r, after) /\ after.at \in {"recovered", "idle"}
          /\ after.at = "recovered" => after.who \in Principal /\ after.handle = d
    BY Fields, <1>1, IdleIsRequest DEF RecoverUpstream, Move
  <1>5. PICK after \in RequestType :
          /\ Goto(r, after) /\ after.at \in {"recovered", "idle"}
          /\ after.at = "recovered" => after.who \in Principal /\ after.handle = d
    BY <1>4
  <1>6. /\ live' \in SUBSET Page
        /\ restores' \in [Handle -> Page \cup {None}]
        /\ gone' \in SUBSET Handle /\ gone \subseteq gone'
        /\ restores'[d] = None \/ d \in gone'
        /\ \A h \in Handle : h # d => restores'[h] = restores[h]
        /\ restores'[d] \in {None, restores[d]}
    BY <1>1 DEF RecoverUpstream, TypeOK, yandex
  <1>7. /\ req'[r] = after /\ \A s \in Request : s # r => req'[s] = req[s]
        /\ req' \in [Request -> RequestType]
    BY <1>5, MoveFacts
  <1>8. TypeOK'
    BY <1>1, <1>3, <1>5, <1>6, <1>7 DEF TypeOK
  <1>9. /\ \A h \in Handle : ~Carries(r, h)'
        /\ \A s \in Request, h \in Handle : s # r => (Carries(s, h)' <=> Carries(s, h))
    BY <1>5, <1>7 DEF Carries
  <1>10. TokenInv'
    <2>1. \A s \in Request, h \in Handle : Carries(s, h)' => h # d
      BY <1>2, <1>9
    <2>2. SentOnce'
      BY <1>3 DEF TokenInv, SentOnce
    <2>3. \A h \in Handle : (owner[h] = None => restores[h] = None /\ sends[h] = 0)'
      BY <1>1, <1>2, <1>3, <1>6 DEF TokenInv
    <2> QED
      BY <1>1, <1>2, <1>3, <1>9, <2>1, <2>2, <2>3 DEF TokenInv
  <1>11. OwnerInv'
    <2>1. \A s \in Request, h \in Handle : Carries(s, h)' =>
            (/\ req[s].who = owner[h]
             /\ restores[h] # None => req[s].page = restores[h])'
      BY <1>1, <1>2, <1>6, <1>7, <1>9 DEF OwnerInv
    <2>2. \A h \in Handle : (records[h] # None =>
            /\ records[h].owner = owner[h]
            /\ restores[h] # None => records[h].page = restores[h])'
      BY <1>1, <1>2, <1>6 DEF OwnerInv
    <2>3. ASSUME NEW h \in Handle, restores'[h] # None
          PROVE  \/ h \in gone'
                 \/ (records[h] # None)'
                 \/ \E s \in Request : Carries(s, h)'
      <3>1. CASE h = d
        BY <1>6, <2>3, <3>1
      <3>2. CASE h # d
        <4>1. \/ h \in gone \/ records[h] # None
              \/ \E s \in Request : Carries(s, h)
          BY <1>6, <2>3, <3>2 DEF OwnerInv, Recoverable, Carries
        <4> QED
          BY <1>1, <1>2, <1>6, <1>9, <3>2, <4>1
      <3> QED
        BY <3>1, <3>2
    <2> QED
      BY <2>1, <2>2, <2>3 DEF OwnerInv, Recoverable, Carries
  <1>12. CloseInv'
    BY <1>1, <1>5, <1>7 DEF CloseInv, ClosedEmpty
  <1> QED
    BY <1>8, <1>10, <1>11, <1>12

LEMMA AgeStep ==
  ASSUME IndInv, NEW d \in Handle, Age(d)
  PROVE  IndInv'
  <1> USE DEF IndInv
  <1>1. /\ records[d] \in Record /\ records[d] # None
        /\ UNCHANGED <<live, restores, closed, closer, queued, ahead, req, owner,
                       sends, logged, gone>>
    BY DEF Age, TypeOK, yandex, lock, history
  <1>2. /\ [records[d] EXCEPT !.aged = TRUE] \in Record
        /\ records'[d] = [records[d] EXCEPT !.aged = TRUE]
        /\ \A h \in Handle : h # d => records'[h] = records[h]
        /\ records' \in [Handle -> Record \cup {None}]
    BY <1>1 DEF Age, Record, TypeOK
  <1>3. /\ records'[d].owner = records[d].owner /\ records'[d].page = records[d].page
        /\ records'[d] # None
    BY <1>1, <1>2, NameAssumption DEF Record
  <1>4. TypeOK'
    BY <1>1, <1>2 DEF TypeOK
  <1>5. TokenInv'
    BY <1>1, <1>2, <1>3 DEF TokenInv, SentOnce, Carries
  <1>6. OwnerInv'
    <2>1. \A h \in Handle : /\ records'[h] # None <=> records[h] # None
                            /\ records'[h] # None =>
                                 /\ records'[h].owner = records[h].owner
                                 /\ records'[h].page = records[h].page
      BY <1>1, <1>2, <1>3
    <2>2. \A s \in Request, h \in Handle : Carries(s, h)' <=> Carries(s, h)
      BY <1>1 DEF Carries
    <2>3. Recoverable'
      BY <1>1, <2>1 DEF OwnerInv, Recoverable
    <2> QED
      BY <1>1, <2>1, <2>2, <2>3 DEF OwnerInv
  <1>7. CloseInv'
    BY <1>1, <1>2, <1>3 DEF CloseInv, ClosedEmpty
  <1> QED
    BY <1>4, <1>5, <1>6, <1>7

LEMMA CloseBeginStep ==
  ASSUME IndInv, CloseBegin
  PROVE  IndInv'
  <1> USE DEF IndInv
  <1>1. /\ ~closed /\ closed' /\ closer' = "waiting" /\ closer = "no"
        /\ Closer \in Task /\ Closer \notin queued /\ Closer \notin Request
        /\ Join(Closer)
        /\ UNCHANGED <<live, restores, records, req, owner, sends, logged, gone>>
    BY NameAssumption DEF CloseBegin, TypeOK, CloseInv, Task, yandex, history
  <1>2. /\ queued' = queued \cup {Closer} /\ queued' \in SUBSET Task
        /\ ahead' \in [Task -> SUBSET queued'] /\ ahead'[Closer] = queued
    BY <1>1, JoinFacts
  <1>3. TypeOK'
    BY <1>1, <1>2 DEF TypeOK, CloseBegin
  <1>4. TokenInv' /\ OwnerInv'
    BY <1>1 DEF TokenInv, SentOnce, OwnerInv, Recoverable, Carries
  <1>5. CloseInv'
    BY <1>1, <1>2 DEF CloseInv, ClosedEmpty, TypeOK
  <1> QED
    BY <1>3, <1>4, <1>5

LEMMA CloseFinishStep ==
  ASSUME IndInv, CloseFinish
  PROVE  IndInv'
  <1> USE DEF IndInv
  <1>1. /\ Closer \in queued /\ ahead[Closer] = {} /\ LeaveLock(Closer)
        /\ closer = "waiting" /\ closer' = "done" /\ closed
        /\ Closer \in Task /\ Closer \notin Request
        /\ records' = [h \in Handle |-> None]
        /\ gone' = gone \cup {h \in Handle : records[h] # None}
        /\ UNCHANGED <<live, restores, closed, req, owner, sends, logged>>
    BY NameAssumption DEF CloseFinish, Holds, TypeOK, Task, yandex
  <1>2. /\ queued' = queued \ {Closer} /\ queued' \in SUBSET Task
        /\ ahead' \in [Task -> SUBSET queued']
    BY <1>1, LeaveFacts
  <1>3. TypeOK'
    BY <1>1, <1>2 DEF TypeOK
  <1>4. TokenInv' /\ OwnerInv'
    BY <1>1 DEF TokenInv, SentOnce, OwnerInv, Recoverable, Carries
  <1>5. CloseInv'
    BY <1>1 DEF CloseInv, ClosedEmpty
  <1> QED
    BY <1>3, <1>4, <1>5

LEMMA NextIndInv == IndInv /\ [Next]_vars => IndInv'
  <1> SUFFICES ASSUME IndInv, [Next]_vars PROVE IndInv'
    OBVIOUS
  <1>1. ASSUME NEW r \in Request, NEW u \in Principal,
               \/ \E p \in Page : StartDelete(r, u, p)
               \/ \E h \in Handle : StartRecover(r, u, h)
        PROVE  IndInv'
    BY <1>1, StartDeleteStep, StartRecoverStep
  <1>2. ASSUME NEW r \in Request, Delete(r) PROVE IndInv'
    BY <1>2, ResolveStep, DeleteUpstreamStep, AskPutStep, PutStep DEF Delete
  <1>3. ASSUME NEW r \in Request, Recover(r) PROVE IndInv'
    BY <1>3, ConsumeStep, RecoverUpstreamStep, RecoverAnsweredStep DEF Recover
  <1>4. ASSUME NEW r \in Request, Fail(r) \/ Cancel(r) PROVE IndInv'
    BY <1>4, FailStep, CancelStep
  <1>5. ASSUME UNCHANGED vars PROVE IndInv'
    BY <1>5 DEF vars, yandex, store, lock, history, IndInv, TypeOK, TokenInv, SentOnce,
                OwnerInv, Recoverable, CloseInv, ClosedEmpty, Carries
  <1> QED
    BY <1>1, <1>2, <1>3, <1>4, <1>5, AgeStep, CloseBeginStep, CloseFinishStep DEF Next

LEMMA IndInvHolds == Spec => []IndInv
  <1>1. Init => IndInv
    BY InitIndInv
  <1> QED
    BY <1>1, NextIndInv, PTL DEF Spec

\* Every state of the requests, the lock and the store has its type.
THEOREM TypeCorrect == Spec => []TypeOK
  <1>1. IndInv => TypeOK
    BY DEF IndInv
  <1> QED
    BY <1>1, IndInvHolds, PTL

\* The token of a deletion is sent to Yandex at most once.
THEOREM TokensSentOnce == Spec => []SentOnce
  <1>1. IndInv => SentOnce
    BY DEF IndInv, TokenInv
  <1> QED
    BY <1>1, IndInvHolds, PTL

\* A deletion stays recoverable by its owner until a call fails, the handle is
\* too old, or the store is closed.
THEOREM DeletionsRecoverable == Spec => []Recoverable
  <1>1. IndInv => Recoverable
    BY DEF IndInv, OwnerInv
  <1> QED
    BY <1>1, IndInvHolds, PTL

\* A closed store holds no token.
THEOREM ClosedStoreEmpty == Spec => []ClosedEmpty
  <1>1. IndInv => ClosedEmpty
    BY DEF IndInv, CloseInv
  <1> QED
    BY <1>1, IndInvHolds, PTL

\* Only its owner's recovery, age or the close of the store removes a record.
THEOREM RecordsUnharmed == Spec => OtherUnharmed
  <1> DEFINE Harmless(h) ==
        records[h] # None /\ records'[h] = None =>
          \/ records[h].aged
          \/ closer' = "done"
          \/ \E r \in Request :
               /\ req[r].at = "consume"
               /\ req[r].handle = h
               /\ req[r].who = records[h].owner
               /\ req'[r].at = "recover"
  <1>1. ASSUME IndInv, [Next]_vars, NEW h \in Handle,
               records[h] # None, records'[h] = None
        PROVE  Harmless(h)
    <2>1. CASE UNCHANGED records
      BY <1>1, <2>1
    <2>2. ASSUME NEW r \in Request, Put(r) PROVE Harmless(h)
      <3>1. req[r].handle \in Handle /\ Carries(r, req[r].handle)
              /\ records[req[r].handle] = None
        BY <1>1, <2>2 DEF Put, Carries, IndInv, TypeOK, TokenInv
      <3>2. h # req[r].handle
        BY <1>1, <3>1
      <3> QED
        BY <1>1, <2>2, <3>2 DEF Put, Stored, IndInv, TypeOK
    <2>3. ASSUME NEW r \in Request, Consume(r), ~UNCHANGED records PROVE Harmless(h)
      <3> DEFINE d == req[r].handle
      <3>1. /\ req[r].at = "consume" /\ records[d] # None
            /\ records' = [records EXCEPT ![d] = Kept(records[d], req[r].who)]
        BY <2>3 DEF Consume
      <3>2. h = d
        BY <1>1, <3>1 DEF IndInv, TypeOK
      <3>3. CASE records[d].aged
        BY <3>2, <3>3
      <3>4. CASE ~records[d].aged /\ ~OwnerMatches(records[d], req[r].who)
        BY <1>1, <3>1, <3>2, <3>4 DEF Kept, IndInv, TypeOK
      <3>5. CASE ~records[d].aged /\ OwnerMatches(records[d], req[r].who)
        <4> DEFINE next == [req[r] EXCEPT !.at = "recover", !.page = records[d].page]
        <4>1. Goto(r, next)
          BY <2>3, <3>1, <3>5 DEF Consume
        <4>2. req'[r] = next
          BY <1>1, <4>1, MoveFacts DEF IndInv
        <4>3. req[r] \in RequestType
          BY <1>1 DEF IndInv, TypeOK
        <4>4. next.at = "recover"
          BY <4>3 DEF RequestType
        <4> QED
          BY <3>1, <3>2, <3>5, <4>2, <4>4 DEF OwnerMatches
      <3> QED
        BY <3>3, <3>4, <3>5
    <2>4. ASSUME NEW d \in Handle, Age(d) PROVE Harmless(h)
      <3>1. records[d] \in Record /\ records'[d] # None
        <4>1. records[d] \in Record
          BY <1>1, <2>4 DEF Age, IndInv, TypeOK
        <4>2. records'[d] = [records[d] EXCEPT !.aged = TRUE]
          BY <1>1, <2>4 DEF Age, IndInv, TypeOK
        <4>3. [records[d] EXCEPT !.aged = TRUE] \in Record
          BY <4>1 DEF Record
        <4> QED
          BY <4>1, <4>2, <4>3, NameAssumption
      <3> QED
        BY <1>1, <2>4, <3>1 DEF Age, IndInv, TypeOK
    <2>5. ASSUME CloseFinish PROVE Harmless(h)
      BY <2>5 DEF CloseFinish
    <2>6. UNCHANGED records \/ (\E r \in Request : Put(r) \/ Consume(r))
            \/ (\E d \in Handle : Age(d)) \/ CloseFinish
      BY <1>1 DEF Next, vars, store, Delete, Recover, StartDelete, StartRecover,
                  Resolve, DeleteUpstream, AskPut, RecoverUpstream, RecoverAnswered,
                  Fail, Cancel, CloseBegin
    <2> QED
      BY <2>1, <2>2, <2>3, <2>4, <2>5, <2>6
  <1>2. IndInv /\ [Next]_vars => [\A h \in Handle : Harmless(h)]_vars
    BY <1>1
  <1> QED
    BY <1>2, IndInvHolds, PTL DEF Spec, OtherUnharmed

=============================================================================
