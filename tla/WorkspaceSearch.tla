--------------------------- MODULE WorkspaceSearch ---------------------------
(***************************************************************************)
(* A client walks through search results page by page, with disk_search    *)
(* (services/disk.py) or with the canonical search, which asks Wiki and    *)
(* Disk concurrently and merges (services/workspace.py).  Files come and   *)
(* go, sources fail, and the cursor keys are rotated between two calls.    *)
(***************************************************************************)
EXTENDS DiskSearch

CONSTANTS
  WikiPage,
  MaxChanges,  \* bound on the changes of the file list
  MaxKey       \* bound on the rotations of the cursor keys

ASSUME WalkAssumption == {MaxChanges, MaxKey} \subseteq Nat

VARIABLES
  kind,      \* the tool the client uses
  at,        \* where the walk is
  cursor,    \* the client's cursor; NoCursor to begin
  wiki,      \* the Wiki half of a call
  \* history
  shown,     \* what the client was shown, and under which key
  reported,  \* some page reported a source that failed
  steady,    \* files in the list since the walk began, none before them removed
  cut,       \* files that were fetched and left out of a full page
  changes

walk == <<at, cursor, wiki, shown, reported, cut>>
vars == <<listing, key, scan, kind, walk, steady, changes>>

Ended == {"done", "failed"}

TypeOK ==
  /\ listing \in Seq(File) /\ IsInjective(listing)
  /\ key \in 0..MaxKey
  /\ scan.at \in {"idle", "scan"} \cup Ended
  /\ kind \in {"disk", "workspace"}
  /\ at \in {"begin", "call", "next", "over"}
  /\ cursor \in [offset : -1..MaxOffset, seen : Seq((0..MaxKey) \X (File \cup WikiPage))]
  /\ wiki.at \in {"idle", "asked"} \cup Ended
  /\ shown \in Seq([item : File \cup WikiPage, key : 0..MaxKey])
  /\ reported \in BOOLEAN
  /\ steady \subseteq ToSet(listing)
  /\ cut \subseteq File

NoWiki == [at |-> "idle", results |-> <<>>]

Init ==
  /\ listing \in UNION {SetToSeqs(files) : files \in {fs \in SUBSET File : IsFiniteSet(fs)}}
  /\ key = 0
  /\ scan = Idle
  /\ kind \in {"disk", "workspace"}
  /\ at = "begin"
  /\ cursor = NoCursor
  /\ wiki = NoWiki
  /\ shown = <<>>
  /\ reported = FALSE
  /\ steady = ToSet(listing)
  /\ cut = {}
  /\ changes = 0

-----------------------------------------------------------------------------
(* A call                                                                  *)

Offset == IF at = "begin" THEN 0 ELSE cursor.offset

\* The workspace keeps what was seen in its own cursor, not in Disk's.
Search ==
  /\ at \in {"begin", "next"}
  /\ at' = "call"
  /\ IF kind = "disk"
     THEN scan' = Scanning(Offset, cursor.seen) /\ UNCHANGED wiki
     ELSE scan' = Scanning(Offset, <<>>) /\ wiki' = [NoWiki EXCEPT !.at = "asked"]
  /\ UNCHANGED <<listing, key, kind, cursor, shown, reported, steady, cut, changes>>

Disk == ScanStep /\ UNCHANGED <<kind, walk, steady, changes>>

\* Wiki always answers from its first page; the same page may come twice.
WikiAnswers ==
  /\ wiki.at = "asked"
  /\ \/ wiki' = [wiki EXCEPT !.at = "failed"]
     \/ \E n \in 0..Limit : \E results \in [1..n -> WikiPage] :
          wiki' = [at |-> "done", results |-> results]
  /\ UNCHANGED <<listing, key, scan, kind, at, cursor, shown, reported, steady, cut, changes>>

Entry(item) == [item |-> item, key |-> key]

Shown(items) == shown \o [i \in DOMAIN items |-> Entry(items[i])]

\* The caller gets items, and a cursor unless it is NoCursor.
Answer(items, next) ==
  /\ at' = IF next = NoCursor THEN "over" ELSE "next"
  /\ cursor' = next
  /\ shown' = Shown(items)
  /\ scan' = Idle
  /\ wiki' = NoWiki

\* The caller gets an error and may try again with the cursor it has.
Error ==
  /\ at' = IF cursor = NoCursor THEN "begin" ELSE "next"
  /\ scan' = Idle
  /\ wiki' = NoWiki
  /\ UNCHANGED <<cursor, shown, reported, cut>>

DiskSearchReturns ==
  /\ at = "call" /\ kind = "disk"
  /\ \/ scan.at = "done" /\ Answer(scan.matched, scan.next) /\ UNCHANGED <<reported, cut>>
     \/ scan.at = "failed" /\ Error
  /\ UNCHANGED <<listing, key, kind, steady, changes>>

-----------------------------------------------------------------------------
(* Merging                                                                 *)

\* zip_longest: Wiki first, then the rest of the longer one.
RoundRobin(a, b) ==
  LET both == Smaller(Len(a), Len(b))
      rest == IF Len(a) > both THEN a ELSE b
  IN [k \in 1..(Len(a) + Len(b)) |->
        IF k > 2 * both THEN rest[k - both]
        ELSE IF k % 2 = 1 THEN a[(k + 1) \div 2] ELSE b[k \div 2]]

Refs(half, items) == IF half.at = "done" THEN items ELSE <<>>

Failed == "failed" \in {scan.at, wiki.at}

WorkspaceSearchReturns ==
  /\ at = "call" /\ kind = "workspace"
  /\ scan.at \in Ended /\ wiki.at \in Ended
  /\ IF scan.at = "failed" /\ wiki.at = "failed"
     THEN Error
     ELSE LET files == Refs(scan, scan.matched)
              merged == RoundRobin(Refs(wiki, wiki.results), files)
          IN \E picks \in Picks(merged, Unseen(merged, cursor.seen), Limit) :
               LET results == Taken(merged, picks)
                   seen == cursor.seen \o Hashes(results)
               IN /\ Answer(results,
                            IF scan.at = "failed" \/ scan.next = NoCursor THEN NoCursor
                            ELSE [offset |-> scan.next.offset, seen |-> LastSeen(seen)])
                  /\ reported' = (reported \/ Failed)
                  /\ cut' = IF Len(results) < Limit THEN cut
                            ELSE cut \cup {f \in ToSet(files) : Hash(f) \notin ToSet(seen)}
  /\ UNCHANGED <<listing, key, kind, steady, changes>>

-----------------------------------------------------------------------------
(* The world                                                               *)

Upload ==
  /\ changes < MaxChanges
  /\ \E f \in File \ ToSet(listing), i \in 1..(Len(listing) + 1) :
       listing' = InsertAt(listing, i, f)
  /\ changes' = changes + 1
  /\ UNCHANGED <<key, scan, kind, walk, steady>>

Delete ==
  /\ changes < MaxChanges
  /\ \E i \in DOMAIN listing :
       /\ listing' = RemoveAt(listing, i)
       /\ steady' = steady \cap {listing[j] : j \in 1..(i - 1)}
  /\ changes' = changes + 1
  /\ UNCHANGED <<key, scan, kind, walk>>

\* A restart with a new key before the others; calls under way are lost.
Rotate ==
  /\ key < MaxKey
  /\ key' = key + 1
  /\ IF at = "call" THEN Error ELSE UNCHANGED <<scan, walk>>
  /\ UNCHANGED <<listing, kind, steady, changes>>

Next ==
  \/ Search \/ Disk \/ WikiAnswers \/ DiskSearchReturns \/ WorkspaceSearchReturns
  \/ Upload \/ Delete \/ Rotate

Spec == Init /\ [][Next]_vars

-----------------------------------------------------------------------------
(* Properties                                                              *)

\* The client is not shown an item again, although Wiki answers every call from
\* its first page and uploads shift the file list, before Window others were
\* shown.  A rotation of the keys forgets what was shown: the cursor stays
\* valid, but the items in it are hashed under the old key.
NoRepeat ==
  \A i, j \in DOMAIN shown :
    i < j /\ shown[i].item = shown[j].item =>
      j - i > Window \/ shown[i].key # shown[j].key

\* A walk that ended without a reported failure has shown every matching file
\* that was in the list all along and that no removal moved, unless the file was
\* fetched for a page that was full without it, after which the cursor is past
\* it: "reports partial failures rather than converting them to
\* empty success" (docs/architecture.md:21).
NoSkip ==
  at = "over" /\ ~reported =>
    \A f \in steady \cap Matching : f \in cut \/ \E i \in DOMAIN shown : shown[i].item = f

=============================================================================
