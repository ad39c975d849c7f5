---------------------------- MODULE WikiRecovery ----------------------------
(***************************************************************************)
(* Deleting and recovering Wiki pages: WikiService.delete_page and         *)
(* recover_page (services/wiki.py), the two client calls                   *)
(* (clients/wiki.py) and InMemoryRecoveryTokenStore (auth/recovery.py).    *)
(*                                                                         *)
(* Yandex answers a deletion with a token; the store keeps it and the user *)
(* gets a random handle for it.  A deletion makes at most one token and    *)
(* one handle, so one name stands for both.                                *)
(*                                                                         *)
(* The store's anyio.Lock admits tasks in the order they asked, and a task *)
(* that gets it at once still suspends, so a lock is asked for in one step *)
(* and used in another.  Principals, pages and allowed roots are given;    *)
(* a page outside the roots is one whose lookup fails.                     *)
(***************************************************************************)
EXTENDS Naturals

CONSTANTS
  Request,    \* tool calls that may run at the same time
  Closer,     \* the task that closes the store
  Principal, Page,
  Handle,     \* names for the tokens of deletions and their handles
  None

Task == Request \cup {Closer}

Record == [owner : Principal, page : Page, aged : BOOLEAN]

ASSUME NameAssumption ==
  /\ Closer \notin Request
  /\ None \notin Principal \cup Page \cup Handle \cup Record

VARIABLES
  live,      \* the pages Yandex serves
  restores,  \* the page the token of a deletion restores, while it does
  records,   \* the records of the store
  closed,    \* its flag
  closer,    \* where close() is
  queued,    \* the tasks that asked for the lock and have not left it
  ahead,     \* those of them that asked before
  req,       \* the requests
  \* history of what happened, read by the properties only
  owner,     \* who made the deletion
  sends,     \* how often its token was sent to Yandex
  logged,    \* the deletions that were logged and their handles returned
  gone       \* the deletions that were failed, refused, or too old to undo

store == <<records, closed, closer>>
lock == <<queued, ahead>>
yandex == <<live, restores>>
history == <<owner, sends, logged, gone>>
vars == <<yandex, store, lock, req, history>>

Idle == [at |-> "idle", who |-> None, page |-> None, handle |-> None,
         waited |-> FALSE]

RequestType ==
  [at : {"idle", "resolve", "delete", "deleted", "put",
         "consume", "recover", "recovered"},
   who : Principal \cup {None}, page : Page \cup {None},
   handle : Handle \cup {None}, waited : BOOLEAN]

TypeOK ==
  /\ live \in SUBSET Page
  /\ restores \in [Handle -> Page \cup {None}]
  /\ records \in [Handle -> Record \cup {None}]
  /\ closed \in BOOLEAN
  /\ closer \in {"no", "waiting", "done"}
  /\ queued \in SUBSET Task
  /\ ahead \in [Task -> SUBSET queued]
  /\ req \in [Request -> RequestType]
  /\ \A r \in Request :
       /\ r \in queued <=> req[r].at \in {"put", "consume"}
       /\ req[r].at # "idle" => req[r].who \in Principal
       /\ req[r].at \notin {"idle", "resolve", "delete"} => req[r].handle \in Handle
       /\ req[r].at \in {"deleted", "put", "recover"} => req[r].page \in Page
  /\ Closer \in queued <=> closer = "waiting"
  /\ closer # "no" => closed
  /\ owner \in [Handle -> Principal \cup {None}]
  /\ sends \in [Handle -> Nat]
  /\ logged \in SUBSET Handle
  /\ gone \in SUBSET Handle

Init ==
  /\ live = Page
  /\ restores = [h \in Handle |-> None]
  /\ records = [h \in Handle |-> None]
  /\ closed = FALSE
  /\ closer = "no"
  /\ queued = {}
  /\ ahead = [t \in Task |-> {}]
  /\ req = [r \in Request |-> Idle]
  /\ owner = [h \in Handle |-> None]
  /\ sends = [h \in Handle |-> 0]
  /\ logged = {}
  /\ gone = {}

Goto(r, next) == req' = [req EXCEPT ![r] = next]
Move(r, place) == Goto(r, [req[r] EXCEPT !.at = place])

-----------------------------------------------------------------------------
(* The lock                                                                *)

AheadOfNone == {}

AheadOf == queued

\* The task t asks for the lock.
Join(t) ==
  /\ queued' = queued \cup {t}
  /\ ahead' = [ahead EXCEPT ![t] = AheadOf]

Holds(t) == t \in queued /\ ahead[t] = {}

OthersStuck(t) == [ahead EXCEPT ![t] = {}]

OthersAfter(t) ==
  [u \in Task |-> IF u = t THEN {} ELSE ahead[u] \ {t}]

\* The task t releases the lock, or stops waiting for it.
LeaveLock(t) ==
  /\ queued' = queued \ {t}
  /\ ahead' = OthersAfter(t)

-----------------------------------------------------------------------------
(* delete_page()                                                           *)

StartDelete(r, u, p) ==
  /\ req[r] = Idle
  /\ Goto(r, [at |-> "resolve", who |-> u, page |-> p, handle |-> None,
              waited |-> FALSE])
  /\ UNCHANGED <<yandex, store, lock, history>>

\* resolve_page(): the page was read and is allowed
Resolve(r) ==
  /\ req[r].at = "resolve"
  /\ req[r].page \in live
  /\ Move(r, "delete")
  /\ UNCHANGED <<yandex, store, lock, history>>

\* Yandex deletes the page; its answer is on the way.
DeleteUpstream(r, h) ==
  /\ req[r].at = "delete"
  /\ req[r].page \in live
  /\ owner[h] = None
  /\ live' = live \ {req[r].page}
  /\ restores' = [restores EXCEPT ![h] = req[r].page]
  /\ owner' = [owner EXCEPT ![h] = req[r].who]
  /\ Goto(r, [req[r] EXCEPT !.at = "deleted", !.handle = h])
  /\ UNCHANGED <<store, lock, sends, logged, gone>>

Open == ~closed

\* put() up to its lock
AskPut(r) ==
  /\ req[r].at = "deleted"
  /\ \/ /\ Open
        /\ Join(r)
        /\ Goto(r, [req[r] EXCEPT !.at = "put", !.waited = queued # {}])
        /\ UNCHANGED gone
     \/ /\ ~Open
        /\ Goto(r, Idle)
        /\ gone' = gone \cup {req[r].handle}
        /\ UNCHANGED lock
  /\ UNCHANGED <<yandex, store, owner, sends, logged>>

Stored(r) ==
  [records EXCEPT ![req[r].handle] =
     [owner |-> req[r].who, page |-> req[r].page, aged |-> FALSE]]

\* put() under its lock, the audit entry and the answer
Put(r) ==
  /\ req[r].at = "put"
  /\ Holds(r)
  /\ records' = Stored(r)
  /\ LeaveLock(r)
  /\ logged' = logged \cup {req[r].handle}
  /\ Goto(r, Idle)
  /\ UNCHANGED <<yandex, closed, closer, owner, sends, gone>>

-----------------------------------------------------------------------------
(* recover_page()                                                          *)

\* Anybody may have learnt a handle that was returned.
StartRecover(r, u, h) ==
  /\ req[r] = Idle
  /\ h \in logged
  /\ Open
  /\ Join(r)
  /\ Goto(r, [at |-> "consume", who |-> u, page |-> None, handle |-> h,
              waited |-> queued # {}])
  /\ UNCHANGED <<yandex, store, history>>

OwnerUnchecked(record, u) == TRUE

OwnerMatches(record, u) == record.owner = u

KeptForOwner(record, u) == IF record.aged THEN None ELSE record

PoppedFirst(record, u) == None

Kept(record, u) == IF record.aged \/ OwnerMatches(record, u) THEN None ELSE record

\* consume() under its lock
Consume(r) ==
  /\ req[r].at = "consume"
  /\ Holds(r)
  /\ LeaveLock(r)
  /\ LET h == req[r].handle
         record == records[h]
     IN \/ /\ record = None
           /\ Goto(r, Idle)
           /\ UNCHANGED <<records, gone>>
        \/ /\ record # None
           /\ records' = [records EXCEPT ![h] = Kept(record, req[r].who)]
           /\ \/ /\ record.aged
                 /\ Goto(r, Idle)
                 /\ gone' = gone \cup {h}
              \/ /\ ~record.aged
                 /\ ~OwnerMatches(record, req[r].who)
                 /\ Goto(r, Idle)
                 /\ UNCHANGED gone
              \/ /\ ~record.aged
                 /\ OwnerMatches(record, req[r].who)
                 /\ Goto(r, [req[r] EXCEPT !.at = "recover", !.page = record.page])
                 /\ UNCHANGED gone
  /\ UNCHANGED <<yandex, closed, closer, owner, sends, logged>>

\* Yandex gets the token and restores the page, or refuses.
RecoverUpstream(r) ==
  /\ req[r].at = "recover"
  /\ LET h == req[r].handle IN
       /\ sends' = [sends EXCEPT ![h] = @ + 1]
       /\ \/ /\ restores[h] # None
             /\ live' = live \cup {restores[h]}
             /\ restores' = [restores EXCEPT ![h] = None]
             /\ Move(r, "recovered")
             /\ UNCHANGED gone
          \/ /\ Goto(r, Idle)
             /\ gone' = gone \cup {h}
             /\ UNCHANGED yandex
  /\ UNCHANGED <<store, lock, owner, logged>>

RecoverAnswered(r) ==
  /\ req[r].at = "recovered"
  /\ Goto(r, Idle)
  /\ UNCHANGED <<yandex, store, lock, history>>

-----------------------------------------------------------------------------
(* Failures                                                                *)

\* A call of Yandex fails, times out, or its answer is lost or malformed; or
\* the request is cancelled while it waits for one.
Fail(r) ==
  /\ req[r].at \in {"resolve", "delete", "deleted", "recover", "recovered"}
  /\ Goto(r, Idle)
  /\ gone' = IF req[r].at \in {"deleted", "recover"}
               THEN gone \cup {req[r].handle} ELSE gone
  /\ UNCHANGED <<yandex, store, lock, owner, sends, logged>>

\* A request is cancelled while it waits for the lock.  The pause after a lock
\* that was free is shielded from cancellation.
Cancel(r) ==
  /\ req[r].at \in {"put", "consume"}
  /\ req[r].waited
  /\ LeaveLock(r)
  /\ Goto(r, Idle)
  /\ gone' = IF req[r].at = "put" THEN gone \cup {req[r].handle} ELSE gone
  /\ UNCHANGED <<yandex, store, owner, sends, logged>>

\* 15 minutes pass.
Age(h) ==
  /\ records[h] # None
  /\ ~records[h].aged
  /\ records' = [records EXCEPT ![h].aged = TRUE]
  /\ UNCHANGED <<yandex, closed, closer, lock, req, history>>

-----------------------------------------------------------------------------
(* close()                                                                 *)

CloseBegin ==
  /\ ~closed
  /\ closed' = TRUE
  /\ closer' = "waiting"
  /\ Join(Closer)
  /\ UNCHANGED <<yandex, records, req, history>>

CloseFinish ==
  /\ Holds(Closer)
  /\ closer' = "done"
  /\ records' = [h \in Handle |-> None]
  /\ LeaveLock(Closer)
  /\ gone' = gone \cup {h \in Handle : records[h] # None}
  /\ UNCHANGED <<yandex, closed, req, owner, sends, logged>>

-----------------------------------------------------------------------------
Delete(r) ==
  \/ Resolve(r) \/ AskPut(r) \/ Put(r)
  \/ \E h \in Handle : DeleteUpstream(r, h)

Recover(r) == Consume(r) \/ RecoverUpstream(r) \/ RecoverAnswered(r)

Next ==
  \/ \E r \in Request :
       \/ \E u \in Principal :
            \/ \E p \in Page : StartDelete(r, u, p)
            \/ \E h \in Handle : StartRecover(r, u, h)
       \/ Delete(r) \/ Recover(r) \/ Fail(r) \/ Cancel(r)
  \/ \E h \in Handle : Age(h)
  \/ CloseBegin \/ CloseFinish

Spec == Init /\ [][Next]_vars

\* Every call of Yandex has a deadline, and a task that has the lock is run.
Fairness ==
  /\ \A r \in Request : WF_vars(Delete(r) \/ Recover(r) \/ Fail(r))
  /\ WF_vars(CloseFinish)

LiveSpec == Spec /\ Fairness

-----------------------------------------------------------------------------
(* Properties                                                              *)

\* The token of a deletion is sent to Yandex at most once, however many calls
\* present its handle: "consumed atomically once" (docs/security.md:30).
SentOnce == \A h \in Handle : sends[h] <= 1

\* What a deletion removed stays recoverable by the principal that made it:
\* its token is on its way to the store, or in it under its owner, or on its
\* way back to Yandex for its owner, unless a call failed, the handle is too
\* old or the store was closed.
Recoverable ==
  \A h \in Handle : restores[h] # None =>
    \/ h \in gone
    \/ /\ records[h] # None
       /\ records[h].owner = owner[h]
       /\ records[h].page = restores[h]
    \/ \E r \in Request :
         /\ req[r].handle = h
         /\ req[r].at \in {"deleted", "put", "recover"}
         /\ req[r].who = owner[h]
         /\ req[r].page = restores[h]

\* Nobody but its owner makes a fresh record disappear: a call of another
\* principal, or one that is cancelled, leaves it where it is.
OtherUnharmed ==
  [][\A h \in Handle :
       records[h] # None /\ records'[h] = None =>
         \/ records[h].aged
         \/ closer' = "done"
         \/ \E r \in Request :
              /\ req[r].at = "consume"
              /\ req[r].handle = h
              /\ req[r].who = records[h].owner
              /\ req'[r].at = "recover"]_vars

\* A store that was closed holds no token, also when requests were waiting for
\* its lock while it was being closed.
ClosedEmpty ==
  closer = "done" => \A h \in Handle : records[h] = None

\* Every call ends and close() returns, however many wait for the lock.
TasksEnd ==
  /\ \A r \in Request : req[r] # Idle ~> req[r] = Idle
  /\ closed ~> closer = "done"

=============================================================================
