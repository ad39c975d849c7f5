---------------------------- MODULE ServiceWrites ----------------------------
(***************************************************************************)
(* The modifying operations of WikiService and DiskService (services/      *)
(* wiki.py, services/disk.py): what a request does before and after the    *)
(* call that modifies, the lock of a grid, the descriptor of an upload and *)
(* the audit log.  wiki_delete_page and recover_page are in WikiRecovery.  *)
(***************************************************************************)
EXTENDS Naturals, Sequences, FiniteSets

CONSTANTS
  Request,
  Item,       \* Wiki pages and Trash entries, which may move
  Operation,  \* the operations of this instance
  Grid,
  Owner,      \* the page a grid is on
  MaxMoves,   \* bound on the moves
  None

(* What each operation does, step by step.                                 *)

\* create_page(); update_page(), append_page(), add_comment() and create_grid();
\* clone_page().
PagePlan == [
  create |-> <<"authorize", "modify", "audit">>,
  page   |-> <<"resolve", "modify", "audit">>,
  clone  |-> <<"resolve", "authorize", "modify", "audit">>]

\* The eleven operations that change a grid; copy_grid() goes elsewhere.
GridPlan == [
  grid |-> <<"lock", "owner", "resolve", "modify", "unlock", "audit">>,
  copy |-> <<"lock", "owner", "resolve", "destination", "modify", "unlock", "audit">>]

\* An upload session, the attachment, and perhaps a line of markup.
AttachmentPlan == [
  attach |-> <<"resolve", "open", "send", "modify", "append", "close", "audit">>]

\* create_folder(), copy(), move(), delete(), upload().
LoggedDiskPlan == [disk |-> <<"authorize", "modify", "audit">>]

\* upload_local_file().
LocalFilePlan == [local |-> <<"authorize", "open", "send", "close">>]

\* rename(), upload_from_url(), unpublish(); publish().
PublishPlan == [
  rename  |-> <<"authorize", "modify">>,
  publish |-> <<"authorize", "modify", "read">>]

RestoreUnchecked == [restore |-> <<"resolve", "modify">>, empty |-> <<"authorize", "modify">>]

\* restore_from_trash(), which checks the origin and then the destination;
\* empty_trash(), which asks for confirmation and for the root "/".
TrashPlan == [
  restore |-> <<"resolve", "authorize", "modify">>,
  empty   |-> <<"authorize", "modify">>]

Plan ==
  [op \in UNION {DOMAIN PagePlan, DOMAIN GridPlan, DOMAIN AttachmentPlan, DOMAIN LoggedDiskPlan,
                 DOMAIN LocalFilePlan, DOMAIN PublishPlan, DOMAIN TrashPlan} |->
     CASE op \in DOMAIN PagePlan -> PagePlan[op]
       [] op \in DOMAIN GridPlan -> GridPlan[op]
       [] op \in DOMAIN AttachmentPlan -> AttachmentPlan[op]
       [] op \in DOMAIN LoggedDiskPlan -> LoggedDiskPlan[op]
       [] op \in DOMAIN LocalFilePlan -> LocalFilePlan[op]
       [] op \in DOMAIN PublishPlan -> PublishPlan[op]
       [] op \in DOMAIN TrashPlan -> TrashPlan[op]]

ASSUME WritesAssumption ==
  /\ Operation \subseteq DOMAIN Plan
  /\ None \notin Operation \cup Item \cup Grid
  /\ Owner \in [Grid -> Item]
  /\ IsFiniteSet(Request)
  /\ MaxMoves \in Nat

VARIABLES
  inside,   \* the items under an allowed root now
  req,
  locks,    \* _grid_locks: the lock object of a grid
  ahead,    \* of each request: those that asked for the same lock object before it
  open,     \* requests that hold a descriptor
  \* history
  was,      \* the items inside at some moment of the request
  applied,  \* requests whose last operation Yandex carried out
  logged,   \* requests whose last operation has an audit entry
  moves

vars == <<inside, req, locks, ahead, open, was, applied, logged, moves>>

\* Lock objects are named by numbers; 0 is none.
Lock == 1..Cardinality(Request)

Idle == [op |-> None, todo |-> <<>>, named |-> TRUE, item |-> None, destination |-> None,
         grid |-> None, lock |-> 0]

StepName == {"authorize", "resolve", "destination", "lock", "owner", "unlock", "open", "send",
             "append", "close", "modify", "read", "audit"}

RequestType ==
  [op : Operation \cup {None}, todo : Seq(StepName), named : BOOLEAN, item : Item \cup {None},
   destination : Item \cup {None}, grid : Grid \cup {None}, lock : Lock \cup {0}]

TypeOK ==
  /\ inside \subseteq Item
  /\ req \in [Request -> RequestType]
  /\ locks \in [Grid -> Lock \cup {0}]
  /\ ahead \in [Request -> SUBSET Request]
  /\ {open, applied, logged} \subseteq SUBSET Request
  /\ was \in [Request -> SUBSET Item]

Init ==
  /\ inside \in SUBSET Item
  /\ req = [r \in Request |-> Idle]
  /\ locks = [g \in Grid |-> 0]
  /\ ahead = [r \in Request |-> {}]
  /\ open = {}
  /\ was = [r \in Request |-> {}]
  /\ applied = {}
  /\ logged = {}
  /\ moves = 0

At(r, step) == req[r].todo # <<>> /\ Head(req[r].todo) = step

Advance(r) == req' = [req EXCEPT ![r].todo = Tail(@)]

-----------------------------------------------------------------------------
(* The lock of a grid                                                      *)

NeverReferred(l) == FALSE

Referred(l) == \E r \in Request : req'[r].lock = l

\* The dictionary is weak: a lock object that no request refers to is gone.
WeakTable(table) == [g \in Grid |-> IF table[g] # 0 /\ Referred(table[g]) THEN table[g] ELSE 0]

\* The guard is never contended, since nothing awaits while it is held.
Enqueue(r) ==
  /\ At(r, "lock")
  /\ req[r].lock = 0
  /\ LET g == req[r].grid IN
       \E l \in Lock :
         /\ IF locks[g] # 0 THEN l = locks[g]
            ELSE \A s \in Request : req[s].lock # l
         /\ locks' = [locks EXCEPT ![g] = l]
         /\ ahead' = [ahead EXCEPT ![r] = {s \in Request : req[s].lock = l}]
         /\ req' = [req EXCEPT ![r].lock = l]
  /\ UNCHANGED <<inside, open, was, applied, logged, moves>>

\* asyncio.Lock wakes those who wait in the order they came.
Acquire(r) ==
  /\ At(r, "lock")
  /\ req[r].lock # 0
  /\ ahead[r] = {}
  /\ Advance(r)
  /\ UNCHANGED <<inside, locks, ahead, open, was, applied, logged, moves>>

LeavesWithLock(r) == UNCHANGED <<locks, ahead>>

Leaves(r) ==
  /\ ahead' = [s \in Request |-> IF s = r THEN {} ELSE ahead[s] \ {r}]
  /\ locks' = WeakTable(locks)

Unlock(r) ==
  /\ At(r, "unlock")
  /\ req' = [req EXCEPT ![r].todo = Tail(@), ![r].lock = 0]
  /\ Leaves(r)
  /\ UNCHANGED <<inside, open, was, applied, logged, moves>>

-----------------------------------------------------------------------------
(* The steps of a request                                                  *)

\* A tool call without the scope, or with the operation disabled, does nothing.
Begin(r, request) ==
  /\ req[r] = Idle
  /\ req' = [req EXCEPT ![r] = request]
  /\ was' = [was EXCEPT ![r] = inside]
  /\ applied' = applied \ {r}
  /\ logged' = logged \ {r}
  /\ UNCHANGED <<inside, locks, ahead, open, moves>>

\* Whether all paths and slugs that a request names are under an allowed root.
Names(op) ==
  IF op \in {"create", "clone", "disk", "local", "rename", "publish", "restore", "empty"}
    THEN BOOLEAN
    ELSE {TRUE}

WikiTool(r) ==
  \E op \in Operation \cap {"create", "page", "clone", "grid", "copy", "attach"},
     i \in Item, d \in Item, g \in Grid : \E named \in Names(op) :
    Begin(r, [Idle EXCEPT !.op = op, !.todo = Plan[op], !.named = named,
                          !.item = IF op \in {"page", "clone", "attach"} THEN i ELSE None,
                          !.destination = IF op = "copy" THEN d ELSE None,
                          !.grid = IF op \in {"grid", "copy"} THEN g ELSE None])

DiskTool(r) ==
  \E op \in Operation \cap {"disk", "local", "rename", "publish", "restore", "empty"},
     i \in Item : \E named \in Names(op) :
    Begin(r, [Idle EXCEPT !.op = op, !.todo = Plan[op], !.named = named,
                          !.item = IF op = "restore" THEN i ELSE None])

\* resolve_grid_owner(): the page the grid is on.
ReadOwner(r) ==
  /\ At(r, "owner")
  /\ req' = [req EXCEPT ![r].todo = Tail(@), ![r].item = Owner[req[r].grid]]
  /\ UNCHANGED <<inside, locks, ahead, open, was, applied, logged, moves>>

Allowed(item) == item \in inside

\* resolve_page(), or the Trash entry: where the item is now.
Resolve(r) ==
  /\ \/ At(r, "resolve") /\ Allowed(req[r].item)
     \/ At(r, "destination") /\ Allowed(req[r].destination)
  /\ Advance(r)
  /\ UNCHANGED <<inside, locks, ahead, open, was, applied, logged, moves>>

Modifies(r) == At(r, "modify") \/ (At(r, "send") /\ req[r].op = "local")

\* A path or a slug is in the request: whether it is allowed does not change.
Pass(r) ==
  /\ \/ At(r, "authorize") /\ req[r].named
     \/ At(r, "send") \/ At(r, "read") \/ At(r, "append")
  /\ Advance(r)
  /\ applied' = IF Modifies(r) THEN applied \cup {r} ELSE applied
  /\ UNCHANGED <<inside, locks, ahead, open, was, logged, moves>>

Modify(r) ==
  /\ At(r, "modify")
  /\ Advance(r)
  /\ applied' = applied \cup {r}
  /\ UNCHANGED <<inside, locks, ahead, open, was, logged, moves>>

OpenFile(r) ==
  /\ At(r, "open")
  /\ Advance(r)
  /\ open' = open \cup {r}
  /\ UNCHANGED <<inside, locks, ahead, was, applied, logged, moves>>

Close(r) ==
  /\ At(r, "close")
  /\ Advance(r)
  /\ open' = open \ {r}
  /\ UNCHANGED <<inside, locks, ahead, was, applied, logged, moves>>

Audit(r) ==
  /\ At(r, "audit")
  /\ Advance(r)
  /\ logged' = logged \cup {r}
  /\ UNCHANGED <<inside, locks, ahead, open, was, applied, moves>>

Return(r) ==
  /\ req[r] # Idle
  /\ req[r].todo = <<>>
  /\ req' = [req EXCEPT ![r] = Idle]
  /\ UNCHANGED <<inside, locks, ahead, open, was, applied, logged, moves>>

EndOpen(r) ==
  /\ req' = [req EXCEPT ![r] = Idle]
  /\ Leaves(r)
  /\ UNCHANGED open

\* Leaving the context managers on the way out.
End(r) ==
  /\ req' = [req EXCEPT ![r] = Idle]
  /\ Leaves(r)
  /\ open' = open \ {r}

Deny(r) ==
  /\ \/ At(r, "authorize") /\ ~req[r].named
     \/ At(r, "resolve") /\ ~Allowed(req[r].item)
     \/ At(r, "destination") /\ ~Allowed(req[r].destination)
  /\ End(r)
  /\ UNCHANGED <<inside, was, applied, logged, moves>>

\* A call fails, or the request is cancelled.  A call that modifies may have
\* done so.  DiskService logs failures, but not its cancellation.
Abort(r) ==
  /\ req[r].todo # <<>>
  /\ ~At(r, "audit") /\ ~At(r, "unlock") /\ ~At(r, "close")
  /\ End(r)
  /\ applied' \in {applied, applied \cup {r}}
  /\ applied' # applied => Modifies(r)
  /\ logged' \in {logged, logged \cup {r}}
  /\ logged' # logged => req[r].op = "disk" /\ At(r, "modify")
  /\ UNCHANGED <<inside, was, moves>>

\* Somebody moves an item into or out of the allowed roots.
Move ==
  /\ moves < MaxMoves
  /\ \E i \in Item : inside' \in {inside \cup {i}, inside \ {i}} \ {inside}
  /\ was' = [r \in Request |-> IF req[r] = Idle THEN {} ELSE was[r] \cup inside']
  /\ moves' = moves + 1
  /\ UNCHANGED <<req, locks, ahead, open, applied, logged>>

Step(r) ==
  \/ Acquire(r) \/ Unlock(r) \/ ReadOwner(r) \/ Resolve(r) \/ Pass(r) \/ Modify(r)
  \/ OpenFile(r) \/ Close(r) \/ Audit(r) \/ Return(r) \/ Enqueue(r) \/ Deny(r)

Next == Move \/ \E r \in Request : WikiTool(r) \/ DiskTool(r) \/ Step(r) \/ Abort(r)

Spec == Init /\ [][Next]_vars

\* Each call has a deadline: it is answered or fails.
LiveSpec == Spec /\ \A r \in Request : WF_vars(Step(r))

-----------------------------------------------------------------------------
(* Properties                                                              *)

\* The request holds its lock.
Holding(r) == req[r].lock # 0 /\ ~At(r, "lock")

\* "The service serializes mutations per grid within one process"
\* (docs/architecture.md:20), although lock objects come and go.
Serialised ==
  \A r, s \in Request :
    Holding(r) /\ Holding(s) /\ req[r].grid = req[s].grid => r = s

\* What is modified was under an allowed root at some moment of the request, the
\* destination of a copy included, and may have moved out since; and so are all
\* paths that the request named, where a page is cloned to or Trash restored to.
WritesInside ==
  [][\A r \in Request :
       r \in applied' \ applied =>
         /\ req[r].named
         /\ {req[r].item, req[r].destination} \ {None} \subseteq was[r]]_vars

\* A request that is over, whichever of its steps failed or was cancelled, has
\* closed its descriptor.
DescriptorsClosed == \A r \in open : req[r] # Idle

\* Every request ends, however many wait for a grid.
RequestEnds == \A r \in Request : req[r] # Idle ~> req[r] = Idle

\* "Every modifying operation (`create`, `update`, `append`, `move`, `copy`,
\* `delete`) emits a structured JSON audit log entry" (docs/security.md:43).
Audited == \A r \in applied : req[r] = Idle => r \in logged

=============================================================================
