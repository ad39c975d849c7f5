---------------------------- MODULE UploadListing ----------------------------
(***************************************************************************)
(* A client that walks the upload jobs page by page (UploadJobStore.list   *)
(* with the cursor of the page before) while the store of UploadJobs goes  *)
(* on changing under it.  The cursor is a plain offset into the filtered   *)
(* list as it is at the moment of each call.                               *)
(***************************************************************************)
EXTENDS UploadJobs

CONSTANT Limit  \* the page size

ASSUME LimitAssumption == Limit \in Nat \ {0}

VARIABLES
  filter,  \* the status argument, "all" for None
  offset,  \* the offset in the cursor the client holds
  walk,    \* "idle", "more" (a cursor is held), "end" (no next_cursor)
  listed,  \* how often each job was on a page
  base     \* the jobs in the store when the first page was taken

walkVars == <<filter, offset, walk, listed, base>>
listingVars == <<vars, walkVars>>

Filters == {"all"} \cup Active \cup Terminal

ListInit ==
  /\ Init
  /\ filter = "all"
  /\ offset = 0
  /\ walk = "idle"
  /\ listed = [j \in Job |-> 0]
  /\ base = {}

Selected(f, S) == {j \in S : f = "all" \/ status[j] = f}

PageNewestFirst(S, from) ==
  {j \in S : Cardinality(Younger(j, S)) \in from..(from + Limit - 1)}

\* jobs[offset : offset + limit] of the selected jobs in insertion order
Page(S, from) ==
  {j \in S : Cardinality(Older(j, S)) \in from..(from + Limit - 1)}

MoreAfterOffByOne(next, S) == next + 1 < Cardinality(S)

MoreAfter(next, S) == next < Cardinality(S)

ListPage(f, from) ==
  LET selected == Selected(f, Pruned(jobs))
      page == Page(selected, from)
      next == from + Cardinality(page)
  IN /\ jobs' = Pruned(jobs)
     /\ offset' = next
     /\ walk' = IF MoreAfter(next, selected) THEN "more" ELSE "end"
     /\ listed' = [j \in Job |-> listed[j] + IF j \in page THEN 1 ELSE 0]
     /\ UNCHANGED <<now, born, submitted, status, expires, handle, task,
                    registered, cancelling, closed, closer>>

ListFirst(f) ==
  /\ walk = "idle"
  /\ filter' = f
  /\ base' = Pruned(jobs)
  /\ ListPage(f, 0)

\* The cursor carries the hash of the filter, so the filter cannot change.
ListNext ==
  /\ walk = "more"
  /\ UNCHANGED <<filter, base>>
  /\ ListPage(filter, offset)

ListingNext ==
  \/ Next /\ UNCHANGED walkVars
  \/ \E f \in Filters : ListFirst(f)
  \/ ListNext

ListingSpec == ListInit /\ [][ListingNext]_listingVars

-----------------------------------------------------------------------------

\* Walking all jobs, or the queued ones, never shows a job twice, whatever is
\* submitted, ends, expires or is evicted between two pages: a job never moves
\* towards the end of these lists.  (For the other filters it can.)
NoRepeat == filter \in {"all", "queued"} => \A j \in Job : listed[j] <= 1

\* A walk over all jobs shows every job that was there at its start, provided
\* none of those was forgotten on the way.
NoSkip ==
  (filter = "all" /\ walk = "end" /\ base \subseteq jobs) =>
    \A j \in base : listed[j] = 1

=============================================================================
