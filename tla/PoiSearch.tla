----------------------------- MODULE PoiSearch -----------------------------
(***************************************************************************)
(* The search box for places: apps/web/src/hooks/usePoiSearch.ts and       *)
(* app/main/components/PoiSearchInput.tsx.  A search waits for the typing  *)
(* to pause, and its call is aborted when the next one begins.  What a     *)
(* call finds is represented by the keyword it looked for.                 *)
(***************************************************************************)
EXTENDS Naturals

CONSTANTS
  Keyword,
  MaxAborted,  \* bound on the aborted calls whose rejection is still to come
  None         \* nothing; also the blank text and the empty list of results

VARIABLES
  inputValue,
  isOpen,
  value,    \* the place the form holds
  timer,    \* the keyword that waits for the timer
  live,     \* keywords of the calls that were not aborted
  aborted,  \* how many aborted calls have not reached their finally
  results,
  loading,
  latest    \* history: the keyword of the last search, None after clear

vars == <<inputValue, isOpen, value, timer, live, aborted, results, loading, latest>>

Init ==
  /\ inputValue = None /\ isOpen = FALSE /\ value = None
  /\ timer = None /\ live = {} /\ aborted = 0
  /\ results = None /\ loading = FALSE
  /\ latest = None

\* abortRef.current?.abort()
Abort ==
  /\ live' = {}
  /\ aborted' = IF live = {} THEN aborted ELSE aborted + 1
  /\ aborted' <= MaxAborted

\* search(k)
\* Mutant: the call of the search before goes on.
SearchNoAbort(k) ==
  /\ timer' = k
  /\ loading' = TRUE
  /\ latest' = k
  /\ UNCHANGED <<results, live, aborted>>
Search(k) ==
  /\ Abort
  /\ timer' = k
  /\ loading' = TRUE
  /\ latest' = k
  /\ UNCHANGED results

\* clear()
\* Mutant: the spinner is left to the call.
ClearLoading ==
  /\ Abort
  /\ timer' = None
  /\ results' = None
  /\ latest' = None
  /\ UNCHANGED loading
Clear ==
  /\ Abort
  /\ timer' = None
  /\ results' = None
  /\ loading' = FALSE
  /\ latest' = None

\* handleInputChange; a blank text clears the form's place as well (onClear).
Type(k) ==
  /\ inputValue' = k
  /\ Search(k)
  /\ isOpen' = TRUE
  /\ UNCHANGED value

Erase ==
  /\ inputValue # None
  /\ inputValue' = None
  /\ Clear
  /\ value' = None
  /\ isOpen' = FALSE

\* The dropdown lists the places that were found, also while it shows the spinner.
Offered == isOpen /\ results # None

\* handleSelect, of a place in the dropdown
Select ==
  /\ Offered
  /\ inputValue' = results /\ value' = results
  /\ isOpen' = FALSE
  /\ Clear

ClickOutside ==
  /\ isOpen
  /\ isOpen' = FALSE
  /\ UNCHANGED <<inputValue, value, timer, live, aborted, results, loading, latest>>

TimerFires ==
  /\ timer # None
  /\ live' = live \cup {timer}
  /\ timer' = None
  /\ UNCHANGED <<inputValue, isOpen, value, aborted, results, loading, latest>>

\* searchPoi of the API: the places Tmap has for the keyword, none when there is
\* no list of them in its answer, or an error when it does not answer well.
SearchPoi(k) == {k, None, "failed"}

\* The call for k ends; an error empties the list as well.
Answer(k) ==
  /\ k \in live
  /\ live' = live \ {k}
  /\ \E found \in SearchPoi(k) : results' = IF found = "failed" THEN None ELSE found
  /\ loading' = FALSE
  /\ UNCHANGED <<inputValue, isOpen, value, timer, aborted, latest>>

\* An aborted call is rejected: its finally takes the spinner of the search that
\* replaced it away.
Rejected ==
  /\ aborted > 0
  /\ aborted' = aborted - 1
  /\ loading' = FALSE
  /\ UNCHANGED <<inputValue, isOpen, value, timer, live, results, latest>>

Next ==
  \/ \E k \in Keyword : Type(k) \/ Answer(k)
  \/ Erase \/ Select \/ ClickOutside \/ TimerFires \/ Rejected

Spec == Init /\ [][Next]_vars

-----------------------------------------------------------------------------
Keywords == Keyword \cup {None}

TypeOK ==
  /\ inputValue \in Keywords /\ value \in Keywords /\ timer \in Keywords
  /\ results \in Keywords /\ latest \in Keywords
  /\ isOpen \in BOOLEAN /\ loading \in BOOLEAN
  /\ live \subseteq Keyword /\ aborted \in 0 .. MaxAborted

\* Once no search is under way, the list is that of the last keyword or empty,
\* whatever calls were still on their way when it was typed; after a selection
\* or an erased text it is empty and stays so.
FoundForLatest == timer = None /\ live = {} => results \in {None, latest}

\* The spinner turns only while something will end it.
SpinnerEnds == loading => timer # None \/ live # {} \/ aborted > 0
=============================================================================
