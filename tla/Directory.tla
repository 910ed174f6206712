------------------------------- MODULE Directory -------------------------------
(***************************************************************************)
(* What the routers promise whoever looks a publisher up: every announced  *)
(* publisher is listed, once, until one of its id has closed; a lookup is  *)
(* told of a publisher that is listed, or that none is, and finds a track  *)
(* unless the publisher has closed.  No queues, no tracks.                 *)
(***************************************************************************)
CONSTANTS Routers, Publishers, Lookups, Ids, IdOf, RouterOf, Nobody

VARIABLES
  stage,    \* of each publisher: "new", "announced", "listed", "gone"
  over,     \* publishers that have closed
  stopped,  \* routers that have closed
  lookup,   \* the state of each lookup, with the publisher it was told of
  asked     \* the id each lookup waits to be told about: a set of at most one

vars == <<stage, over, stopped, lookup, asked>>

Init ==
  /\ stage = [p \in Publishers |-> "new"]
  /\ over = {} /\ stopped = {}
  /\ lookup = [q \in Lookups |-> [state |-> "idle", pub |-> Nobody]]
  /\ asked = [q \in Lookups |-> {}]

-----------------------------------------------------------------------------
(* Publishers *)

Announce(p) ==
  /\ stage[p] = "new" /\ p \notin over
  /\ stage' = [stage EXCEPT ![p] = IF RouterOf[p] \in stopped THEN "gone" ELSE "announced"]
  /\ UNCHANGED <<over, stopped, lookup, asked>>

List(p) ==
  /\ stage[p] = "announced" /\ RouterOf[p] \notin stopped
  /\ stage' = [stage EXCEPT ![p] = "listed"]
  /\ UNCHANGED <<over, stopped, lookup, asked>>

ListedAs(r, id) == {p \in Publishers : stage[p] = "listed" /\ RouterOf[p] = r /\ IdOf[p] = id}

\* Everybody listed under the id of one that has closed goes; nobody that is announced.
Remove(p) ==
  /\ p \in over
  /\ stage' = [x \in Publishers |->
                 IF x \in ListedAs(RouterOf[p], IdOf[p]) THEN "gone" ELSE stage[x]]
  /\ UNCHANGED <<over, stopped, lookup, asked>>

Close(p) ==
  /\ over' = over \cup {p}
  /\ UNCHANGED <<stage, stopped, lookup, asked>>

-----------------------------------------------------------------------------
(* Routers and lookups *)

\* Who is announced is not listed any more, who has asked is not answered.
Stop(r) ==
  /\ r \notin stopped
  /\ stopped' = stopped \cup {r}
  /\ stage' = [p \in Publishers |->
                 IF stage[p] = "announced" /\ RouterOf[p] = r THEN "gone" ELSE stage[p]]
  /\ lookup' = [q \in Lookups |->
                  IF asked[q] # {} /\ RouterOf[q] = r THEN [state |-> "panicked", pub |-> Nobody]
                  ELSE lookup[q]]
  /\ asked' = [q \in Lookups |-> IF RouterOf[q] = r THEN {} ELSE asked[q]]
  /\ UNCHANGED over

Ask(q, id) ==
  /\ lookup[q].state = "idle"
  /\ IF RouterOf[q] \in stopped
       THEN /\ lookup' = [lookup EXCEPT ![q].state = "panicked"]
            /\ UNCHANGED asked
       ELSE /\ lookup' = [lookup EXCEPT ![q].state = "asked"]
            /\ asked' = [asked EXCEPT ![q] = {id}]
  /\ UNCHANGED <<stage, over, stopped>>

Answer(q, id) ==
  /\ lookup[q].state = "asked" /\ asked[q] = {id}
  /\ asked' = [asked EXCEPT ![q] = {}]
  /\ \/ /\ ListedAs(RouterOf[q], id) = {}
        /\ lookup' = [lookup EXCEPT ![q] = [state |-> "unknown", pub |-> Nobody]]
     \/ \E p \in ListedAs(RouterOf[q], id) :
          lookup' = [lookup EXCEPT ![q] = [state |-> "found", pub |-> p]]
  /\ UNCHANGED <<stage, over, stopped>>

GetTrack(q) ==
  /\ lookup[q].state = "found"
  /\ lookup' = [lookup EXCEPT ![q].state = IF lookup[q].pub \in over THEN "noTrack" ELSE "track"]
  /\ UNCHANGED <<stage, over, stopped, asked>>

-----------------------------------------------------------------------------
Next ==
  \/ \E p \in Publishers : Announce(p) \/ List(p) \/ Remove(p) \/ Close(p)
  \/ \E r \in Routers : Stop(r)
  \/ \E q \in Lookups : GetTrack(q) \/ \E id \in Ids : Ask(q, id) \/ Answer(q, id)

Spec == Init /\ [][Next]_vars
=============================================================================
