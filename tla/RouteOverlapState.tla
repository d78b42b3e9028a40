------------------------- MODULE RouteOverlapState -------------------------
(***************************************************************************)
(* The parameters and the state of RouteOverlap, what its routes are made  *)
(* of, and what the two analyses of a couple promise.                      *)
(***************************************************************************)
EXTENDS Integers, Sequences, SequencesExt

CONSTANTS
  Person,   \* the couple
  Name,     \* normalized station names
  Place,    \* coordinates
  Near,     \* pairs of places that are at most 50 m apart
  Routes    \* what extractStations makes of the routes Tmap may answer

Station == [name : Name, at : Place]

ASSUME OverlapAssumption ==
  /\ \A p \in Person : \E q \in Person : Person = {p, q} /\ p # q
  /\ Near \subseteq Place \X Place
  /\ \A a, b \in Place : <<a, b>> \in Near => <<b, a>> \in Near
  /\ Routes \subseteq Seq(Station)

\* extractStations: the stops of the legs that are neither walked nor transfers
\* and have a list of stops, one after the other.  normalizeStationName drops
\* the way in which a stop's name is written and keeps its base.
ExtractStations(legs) ==
  LET Rides == SelectSeq(legs, LAMBDA l : l.mode \notin {"WALK", "TRANSFER"} /\ l.listed)
      Normalize(stop) == [name |-> stop.base, at |-> stop.at]
  IN  FlattenSeq([i \in DOMAIN Rides |->
        [j \in DOMAIN Rides[i].stops |-> Normalize(Rides[i].stops[j])]])

VARIABLES
  stations,  \* stations[p]: the stations of p's route
  match,     \* match[p][i]: the station of the partner's route that p's analysis
             \* pairs with station i of p's route; 0: none (yet)
  loop,      \* loop[p]: the loop p's analysis is in
  index,     \* index[p]: the station the loop has come to
  meetup     \* meetup[p]: the best station so far; 0: none

Partner(p) == CHOOSE q \in Person : q # p

Mine(p) == stations[p]
Theirs(p) == stations[Partner(p)]
Stops(p) == 1 .. Len(Mine(p))

\* orderA + orderB
Order(p, i) == i + match[p][i]

\* The meetup is a station of the overlap with the smallest sum of the orders,
\* and of those the first on the own route; there is one unless the overlap is
\* empty.
MeetupIsSoonest ==
  \A p \in Person : loop[p] = "done" =>
    /\ meetup[p] = 0 => \A i \in Stops(p) : match[p][i] = 0
    /\ meetup[p] # 0 =>
         /\ match[p][meetup[p]] # 0
         /\ \A i \in Stops(p) : match[p][i] # 0 =>
              \/ Order(p, meetup[p]) < Order(p, i)
              \/ Order(p, meetup[p]) = Order(p, i) /\ meetup[p] <= i

\* Both partners are told "meetup", or both "individual", although each analysis
\* pairs the stations in its own order.
AgreeToMeet ==
  \A p, q \in Person :
    loop[p] = "done" /\ loop[q] = "done" => (meetup[p] = 0 <=> meetup[q] = 0)
=============================================================================
