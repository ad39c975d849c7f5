----------------------------- MODULE DiskSearch -----------------------------
(***************************************************************************)
(* One call of DiskService.search (services/disk.py): it scans the flat    *)
(* file list of Yandex Disk, which may change between two requests, and    *)
(* ends with a cursor, without one, or with an error.                      *)
(***************************************************************************)
EXTENDS Integers, SequencesExt

CONSTANTS
  File,
  Matching,   \* the files that match the query and lie under an allowed root
  Limit,
  BatchMax,   \* 100 in the code
  MaxScans,   \* 1000
  Window,     \* 100: the items a cursor remembers
  MaxOffset   \* 10 000

ASSUME SearchAssumption ==
  /\ Matching \subseteq File
  /\ {Limit, BatchMax, MaxScans, Window} \subseteq Nat \ {0}
  /\ MaxOffset \in Nat

VARIABLES
  listing,  \* the file list at Yandex
  key,      \* the first key of the cursor key ring
  scan      \* the call

Smaller(a, b) == IF a < b THEN a ELSE b

\* CursorCodec.item_hash(): the first key only.
Hash(item) == <<key, item>>

NoneSeen(seen) == <<>>

LastSeen(seen) == SubSeq(seen, IF Len(seen) > Window THEN Len(seen) - Window + 1 ELSE 1, Len(seen))

NoCursor == [offset |-> -1, seen |-> <<>>]

Idle ==
  [at |-> "idle", offset |-> 0, seen |-> <<>>, matched |-> <<>>, scanned |-> 0,
   exhausted |-> FALSE, next |-> NoCursor]

Scanning(offset, seen) == [Idle EXCEPT !.at = "scan", !.offset = offset, !.seen = seen]

WholeBatch == BatchMax

BatchSize == Smaller(BatchMax, Limit - Len(scan.matched))

Hashes(items) == [i \in DOMAIN items |-> Hash(items[i])]

\* where a loop over items meets one that is not in seen
Unseen(items, seen) == {k \in DOMAIN items : Hash(items[k]) \notin ToSet(seen)}

\* A loop over items takes those at fresh, without repeating one, until it has
\* room of them.  The only member says where it took them.
Picks(items, fresh, room) ==
  {picks \in UNION {[1..n -> fresh] : n \in 0..room} :
     /\ \A i, j \in DOMAIN picks :
          i < j => picks[i] < picks[j] /\ items[picks[i]] # items[picks[j]]
     /\ \A k \in fresh :
          \/ \E i \in DOMAIN picks : picks[i] <= k /\ items[picks[i]] = items[k]
          \/ Len(picks) = room /\ \A i \in DOMAIN picks : picks[i] < k}

Taken(items, picks) == [i \in DOMAIN picks |-> items[picks[i]]]

Page(offset, size) ==
  IF offset >= Len(listing) THEN <<>>
  ELSE SubSeq(listing, offset + 1, Smaller(offset + size, Len(listing)))

Done == scan.exhausted \/ Len(scan.matched) >= Limit \/ scan.scanned >= MaxScans

-----------------------------------------------------------------------------
ScanPage ==
  /\ scan.at = "scan"
  /\ ~Done
  /\ LET page == Page(scan.offset, BatchSize)
         fresh == {k \in Unseen(page, scan.seen) : page[k] \in Matching}
     IN \E picks \in Picks(page, fresh, Limit - Len(scan.matched)) :
          scan' = [scan EXCEPT !.offset = @ + Len(page),
                               !.scanned = @ + Len(page),
                               !.exhausted = Len(page) < BatchSize,
                               !.matched = @ \o Taken(page, picks),
                               !.seen = @ \o Hashes(Taken(page, picks))]

NeverTooFar == FALSE

TooFar == scan.offset > MaxOffset

\* A cursor has an offset of at most MaxOffset: beyond, the call is an error.
ScanEnds ==
  /\ scan.at = "scan"
  /\ Done
  /\ scan' =
       IF scan.exhausted THEN [scan EXCEPT !.at = "done"]
       ELSE IF TooFar THEN [scan EXCEPT !.at = "failed"]
       ELSE [scan EXCEPT !.at = "done",
                         !.next = [offset |-> scan.offset, seen |-> LastSeen(scan.seen)]]

ScanFails ==
  /\ scan.at = "scan"
  /\ ~Done
  /\ scan' = [scan EXCEPT !.at = "failed"]

ScanStep == (ScanPage \/ ScanEnds \/ ScanFails) /\ UNCHANGED <<listing, key>>

=============================================================================
