---------------------------- MODULE RouteOverlap ----------------------------
(***************************************************************************)
(* Where do two people who travel to the same place meet?  The algorithm   *)
(* of apps/api/src/transit/route-overlap.ts, as CoupleRouteService.analyze *)
(* uses it: each of the two asks for an analysis, with the roles of the    *)
(* two routes exchanged.  A step is one iteration of a loop.               *)
(*                                                                         *)
(* Routes are sequences of stations, numbered from 1 (the code: from 0).   *)
(***************************************************************************)
EXTENDS RouteOverlapState

vars == <<stations, match, loop, index, meetup>>

Init ==
  /\ stations \in [Person -> Routes]
  /\ match = [p \in Person |-> [i \in Stops(p) |-> 0]]
  /\ loop = [p \in Person |-> "overlap"]
  /\ index = [p \in Person |-> 1]
  /\ meetup = [p \in Person |-> 0]

SameName(p, i, j) == Mine(p)[i].name = Theirs(p)[j].name
Close(p, i, j) == <<Mine(p)[i].at, Theirs(p)[j].at>> \in Near

\* The stations of the partner's route that are not in matchedB.
Free(p) == {j \in 1 .. Len(Theirs(p)) : \A i \in Stops(p) : match[p][i] # j}

Namesakes(p, i) == {j \in Free(p) : SameName(p, i, j)}
Neighbours(p, i) == {j \in Free(p) : Close(p, i, j)}

First(j, S) == j \in S /\ \A k \in S : j <= k

InLoop(p, l) == loop[p] = l /\ index[p] \in Stops(p)
Advance(p) ==
  /\ index' = [index EXCEPT ![p] = index[p] + 1]
  /\ UNCHANGED <<stations, loop>>

\* findOverlapStations: the first free station of the same name, ...
MatchByName(p) ==
  /\ InLoop(p, "overlap")
  /\ \E j \in Namesakes(p, index[p]) :
       /\ First(j, Namesakes(p, index[p]))
       /\ match' = [match EXCEPT ![p][index[p]] = j]
  /\ Advance(p)
  /\ UNCHANGED meetup

\* ... failing that, the first free one within 50 m, ...
MatchByPlace(p) ==
  /\ InLoop(p, "overlap")
  /\ Namesakes(p, index[p]) = {}
  /\ \E j \in Neighbours(p, index[p]) :
       /\ First(j, Neighbours(p, index[p]))
       /\ match' = [match EXCEPT ![p][index[p]] = j]
  /\ Advance(p)
  /\ UNCHANGED meetup

\* ... failing that, none.
\* Mutant: a station that has no namesake is passed over.
NoMatchByName(p) ==
  /\ InLoop(p, "overlap")
  /\ Namesakes(p, index[p]) = {}
  /\ Advance(p)
  /\ UNCHANGED <<match, meetup>>
NoMatch(p) ==
  /\ InLoop(p, "overlap")
  /\ Namesakes(p, index[p]) = {} /\ Neighbours(p, index[p]) = {}
  /\ Advance(p)
  /\ UNCHANGED <<match, meetup>>

\* findMeetupStation goes through the overlap.
StartReduce(p) ==
  /\ loop[p] = "overlap" /\ index[p] \notin Stops(p)
  /\ loop' = [loop EXCEPT ![p] = "meetup"]
  /\ index' = [index EXCEPT ![p] = 1]
  /\ UNCHANGED <<stations, match, meetup>>

\* The first of the stations whose orders have the smallest sum.
\* Mutant: the sum of the best one is not compared.
BetterLast(p, i) == match[p][i] # 0
Better(p, i) ==
  /\ match[p][i] # 0
  /\ meetup[p] = 0 \/ Order(p, i) < Order(p, meetup[p])

Compare(p) ==
  /\ InLoop(p, "meetup")
  /\ meetup' = [meetup EXCEPT ![p] = IF Better(p, index[p]) THEN index[p] ELSE meetup[p]]
  /\ Advance(p)
  /\ UNCHANGED match

Finish(p) ==
  /\ loop[p] = "meetup" /\ index[p] \notin Stops(p)
  /\ loop' = [loop EXCEPT ![p] = "done"]
  /\ UNCHANGED <<stations, match, index, meetup>>

Next ==
  \E p \in Person :
    \/ MatchByName(p) \/ MatchByPlace(p) \/ NoMatch(p) \/ StartReduce(p)
    \/ Compare(p) \/ Finish(p)

Spec == Init /\ [][Next]_vars

-----------------------------------------------------------------------------
TypeOK ==
  /\ stations \in [Person -> Seq(Station)]
  /\ match = [p \in Person |-> match[p]]
  /\ \A p \in Person : match[p] \in [Stops(p) -> 0 .. Len(Theirs(p))]
  /\ loop \in [Person -> {"overlap", "meetup", "done"}]
  /\ index \in [Person -> Nat] /\ meetup \in [Person -> Nat]
  /\ \A p \in Person : index[p] \in 1 .. Len(Mine(p)) + 1
  /\ \A p \in Person : meetup[p] \in 0 .. Len(Mine(p))

\* Two stations can be the same one.
Alike(p, i, j) == SameName(p, i, j) \/ Close(p, i, j)

\* No station of either route is paired twice, and pairs are alike: matchedB
\* does its work although find and indexOf look the station up twice.
OverlapIsMatching ==
  \A p \in Person : \A i \in Stops(p) : match[p][i] # 0 =>
    /\ Alike(p, i, match[p][i])
    /\ \A k \in Stops(p) : match[p][k] = match[p][i] => k = i

\* No two alike stations stay unpaired, though the greedy loop never undoes a
\* choice that takes a later station's partner.
OverlapIsMaximal ==
  \A p \in Person : loop[p] # "overlap" =>
    \A i \in Stops(p), j \in 1 .. Len(Theirs(p)) :
      Alike(p, i, j) => match[p][i] # 0 \/ \E k \in Stops(p) : match[p][k] = j

\* A station is paired with a neighbour of another name only if each namesake of
\* it was taken by an earlier station.
NamesFirst ==
  \A p \in Person : \A i \in Stops(p), j \in 1 .. Len(Theirs(p)) :
    /\ match[p][i] # 0 /\ ~SameName(p, i, match[p][i])
    /\ SameName(p, i, j)
    => \E k \in Stops(p) : k < i /\ match[p][k] = j
=============================================================================
