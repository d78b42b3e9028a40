------------------------------ MODULE MCParts ------------------------------
(* A model-checking instance of Parts. *)
EXTENDS Parts, TLC

\* Journeys with walks, transfers and rides without a list of stops in between
Ride(stops) == [mode |-> "SUBWAY", listed |-> TRUE, stops |-> stops]
Walk == [mode |-> "WALK", listed |-> FALSE, stops |-> << >>]
Transfer == [Ride(<< [base |-> "n1", at |-> 1] >>) EXCEPT !.mode = "TRANSFER"]
Unlisted == [Ride(<< >>) EXCEPT !.listed = FALSE]
Stop == {[base |-> "n1", at |-> 1], [base |-> "n1", at |-> 3], [base |-> "n2", at |-> 2]}
Journeys ==
  {<<Walk, Ride(stops), Unlisted>> : stops \in UNION {[1 .. n -> Stop] : n \in 0 .. 2}}
    \cup {<<Ride(<<s>>), Transfer, Ride(<<t, u>>), Walk>> : s, t, u \in Stop}
RoutesOfTmap == {ExtractStations(legs) : legs \in Journeys}
Places == 1 .. 3
NearPlaces == {<<a, b>> \in Places \X Places : a - b \in -1 .. 1}

\* The requests of the photo tab that are under way or left behind
PhotoRequests ==
  Cardinality({x \in {"page", "upload", "deletion", "left"} :
    CASE x = "page" -> page # None
      [] x = "upload" -> upload # None
      [] x = "deletion" -> \E d \in Deletion : deletion[d] # None
      [] x = "left" -> photosLeft # [upload |-> FALSE, ids |-> {}]})

\* After a mishap only what was under way is followed to its end, and in the
\* calendar the fetches that put the list right again.
Followed ==
  /\ part = "photos" =>
       /\ photosMishap = None
       /\ selectMode \/ activePhoto # None => PhotoRequests <= 1
  /\ part = "calendar" =>
       \/ eventsMishap = None
       \/ modalView = "closed" /\ Calendar!Pending(Calendar!Changes) = {} /\ Len(events) <= 2
  /\ part = "settings" =>
       LET open == {f \in Settings!Edited : editor[f] = "edit"}
           apart == \E card \in Settings!Card : settingsMishap[card] # None
       IN  /\ Cardinality(open) <= 1
           /\ confirm # "no" => open = {}
           /\ open # {} \/ confirm # "no" => settingsLeft = {} /\ ~apart
           /\ settingsLeft # {} => ~apart
           /\ settings["profile"][Home] = Blank
  /\ part = "invites" =>
       /\ invitesMishap = None \/ Invites!OnTheWay # {}
       /\ Cardinality(taken) <= 1
       /\ errorModal => \E r \in Request : inviteCall[r] = None

\* No two parts meet in a behaviour, so their sets share values: two pairs, each
\* of which is a set without structure in every part that has it.
Symmetry == Permutations(Person) \cup Permutations(Request)
=============================================================================
