------------------------------- MODULE Paging -------------------------------
(***************************************************************************)
(* Client.ListRepositoryRuns and Client.ListRunJobs                        *)
(* (internal/githubapi/client.go): pages of a list, newest first, that the *)
(* provider goes on changing between two requests.  The code asks for      *)
(* pages by number, so what has been inserted moves elements to a later    *)
(* page, and what has left the list moves them to an earlier one.          *)
(***************************************************************************)
EXTENDS Integers, SequencesExt

CONSTANTS
  Limits,        \* the values of maxRuns that callers pass, 0 or less for the default
  PageSizes,     \* the values of opts.PerPage, 0 or less for the default
  DefaultSize,   \* defaultPerPage, 100 in the code
  MaxPages,      \* 10 in the code
  Lengths,       \* how many elements the list may have to begin with
  MaxArrivals,   \* bound: elements inserted while the list is read
  MaxDepartures  \* bound: elements that leave it

ASSUME PagingAssumption ==
  /\ Limits \subseteq Int
  /\ PageSizes \subseteq Int
  /\ DefaultSize \in Nat \ {0}
  /\ MaxPages \in Nat \ {0}
  /\ Lengths \subseteq Nat
  /\ MaxArrivals \in Nat
  /\ MaxDepartures \in Nat

VARIABLES
  pc,          \* "idle", "loop", "done", "failed"
  limit,       \* maxRuns
  perPage,     \* opts.PerPage
  page,        \* the loop variable
  runs,        \* the runs gathered, and returned once done
  list,        \* the provider's list, its elements numbered
  first,       \* history: the list when the call began
  arrivals,    \* history: the elements inserted since
  departures   \* history: the elements that left since

vars    == <<pc, limit, perPage, page, runs, list, first, arrivals, departures>>
envVars == <<list, first, arrivals, departures>>

\* n, n - 1, ..., 1
CountDown(n) == [i \in 1 .. n |-> n + 1 - i]

Init ==
  /\ pc      = "idle"
  /\ limit   = 0
  /\ perPage = 0
  /\ page    = 1
  /\ runs    = <<>>
  /\ \E n \in Lengths : list = CountDown(n)
  /\ first   = list
  /\ arrivals   = {}
  /\ departures = {}

-----------------------------------------------------------------------------
(* The client.                                                              *)

Lesser(a, b) == IF a < b THEN a ELSE b

OrDefault(n) == IF n <= 0 THEN DefaultSize ELSE n

\* Mutant: a page size above the provider's greatest is passed on.
ListRepositoryRunsUncapped(maxRuns, size) ==
  /\ pc = "idle"
  /\ pc' = "loop"
  /\ limit' = OrDefault(maxRuns)
  /\ perPage' = OrDefault(size)
  /\ UNCHANGED <<page, runs, envVars>>

\* ListRepositoryRuns normalises what it is given.
ListRepositoryRuns(maxRuns, size) ==
  /\ pc = "idle"
  /\ pc' = "loop"
  /\ limit' = OrDefault(maxRuns)
  /\ perPage' = IF size <= 0 \/ size > DefaultSize THEN DefaultSize ELSE size
  /\ UNCHANGED <<page, runs, envVars>>

\* ListRunJobs reads whole pages and has no limit but that of the pages.
ListRunJobs ==
  /\ pc = "idle"
  /\ pc' = "loop"
  /\ limit' = DefaultSize * MaxPages
  /\ perPage' = DefaultSize
  /\ UNCHANGED <<page, runs, envVars>>

\* Mutant: pages are numbered from 0.
PageOfFromZero(n) == SubSeq(list, n * perPage + 1, Lesser((n + 1) * perPage, Len(list)))

\* Mutant: the end of a page is off by one.
PageOfShort(n) == SubSeq(list, (n - 1) * perPage + 1, Lesser(n * perPage - 1, Len(list)))

\* The provider's answer to the request for a page.
PageOf(n) == SubSeq(list, (n - 1) * perPage + 1, Lesser(n * perPage, Len(list)))

Truncated(s) == SubSeq(s, 1, Lesser(Len(s), limit))

\* One turn of the loop: an empty page or a short one is the last, and so is
\* the one that reaches the limit or the last page allowed.
FetchPage ==
  /\ pc = "loop"
  /\ LET got  == runs \o PageOf(page)
         last == \/ Len(PageOf(page)) < perPage
                 \/ Len(got) >= limit
                 \/ page = MaxPages
     IN  /\ runs' = IF last THEN Truncated(got) ELSE got
         /\ pc' = IF last THEN "done" ELSE "loop"
  /\ page' = page + 1
  /\ UNCHANGED <<limit, perPage, envVars>>

\* A request fails: the pages gathered are dropped.
FetchFails ==
  /\ pc = "loop"
  /\ pc' = "failed"
  /\ runs' = <<>>
  /\ UNCHANGED <<limit, perPage, page, envVars>>

-----------------------------------------------------------------------------
(* The provider.                                                            *)

\* A new run starts, or an old one begins to match the filter of the request
\* and appears at its place.
Arrive ==
  /\ pc = "loop"
  /\ Cardinality(arrivals) < MaxArrivals
  /\ LET new == Len(first) + Cardinality(arrivals) + 1
     IN  /\ \E i \in 1 .. Len(list) + 1 : list' = InsertAt(list, i, new)
         /\ arrivals' = arrivals \cup {new}
  /\ UNCHANGED <<pc, limit, perPage, page, runs, first, departures>>

\* A run is deleted, or stops to match the filter: a failed run is run again.
Depart ==
  /\ pc = "loop"
  /\ Cardinality(departures) < MaxDepartures
  /\ \E i \in 1 .. Len(list) :
       /\ list' = RemoveAt(list, i)
       /\ departures' = departures \cup {list[i]}
  /\ UNCHANGED <<pc, limit, perPage, page, runs, first, arrivals>>

-----------------------------------------------------------------------------

Next ==
  \/ \E maxRuns \in Limits, size \in PageSizes : ListRepositoryRuns(maxRuns, size)
  \/ ListRunJobs
  \/ FetchPage
  \/ FetchFails
  \/ Arrive
  \/ Depart

Spec == Init /\ [][Next]_vars

-----------------------------------------------------------------------------
(* Properties.                                                              *)

\* The variables keep to their types.
TypeOK ==
  /\ pc \in {"idle", "loop", "done", "failed"}
  /\ limit \in Nat
  /\ perPage \in 0 .. DefaultSize
  /\ page \in Nat \ {0}
  /\ runs \in Seq(Nat)
  /\ list \in Seq(Nat)
  /\ first \in Seq(Nat)
  /\ arrivals \subseteq Nat
  /\ departures \subseteq Nat

Returned == ToSet(runs)

Repeats == Len(runs) - Cardinality(Returned)

\* The elements that were there all the time and were not returned.
Missed == ToSet(first) \ (Returned \cup departures)

\* Those of them that come before an element that was returned.
Skipped ==
  {first[i] : i \in {k \in DOMAIN first :
     first[k] \in Missed /\ \E j \in k + 1 .. Len(first) : first[j] \in Returned}}

\* An element that leaves the list makes the client skip one other at most, and
\* an insertion makes it return one twice at most, however many pages follow.
DriftIsBounded ==
  /\ Cardinality(Skipped) <= Cardinality(departures)
  /\ Repeats <= Cardinality(arrivals)

\* A list whose end was seen (the last page was short) lacks no more elements
\* than left it: neither the limit nor the number of pages cut it.
EndSeenIsComplete ==
  pc = "done" /\ Len(runs) < limit /\ Len(runs) < perPage * (page - 1) =>
    Cardinality(Missed) <= Cardinality(departures)
=============================================================================
