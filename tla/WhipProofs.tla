-------------------------------- MODULE WhipProofs --------------------------------
(***************************************************************************)
(* For any number of requests and transports of a session: what an ETag    *)
(* may be taken to mean, and what a candidate that waits may count on.     *)
(***************************************************************************)
EXTENDS Whip, FiniteSetTheorems, TLAPS

States == {"new", "find", "set", "lock", "create", "local", "add", "push", "tag", "close",
           "done", "failed"}
Kinds == {None, "post", "restart", "trickle", "direct", "delete"}
ETags == [tag : Nat, for : Requests \cup {None}, on : Nat, lives : Nat, crossed : BOOLEAN]
RequestStates ==
  [state : States, kind : Kinds, tag : ETags, on : Nat, set : BOOLEAN, to : SUBSET Requests,
   crossed : BOOLEAN, met : BOOLEAN, unsure : BOOLEAN]
TransportStates ==
  [remote : Requests \cup {None}, signaling : {"stable", "offered", "closed"},
   lock : Requests \cup {None}, pending : SUBSET Requests]

\* The provider finds the transport that was opened last, or none.
Types ==
  /\ endpoint \in {"whip", "whep"} /\ opened \in 0 .. MaxTransports /\ session \in {0, opened}
  /\ counter \in Nat /\ lives \in Nat /\ given \subseteq ETags
  /\ transport \in [Transports -> TransportStates]
  /\ req \in [Requests -> RequestStates]

\* A POST or restart that is done has counted one, a DELETE that was sent has reset.
Counts ==
  /\ counter <= Cardinality({r \in Requests : req[r].state = "done"})
  /\ lives <= Cardinality({r \in Requests : req[r].state # "new"})

\* What a request of each kind may have come to.
Stage(q) ==
  /\ q.state = "new" => q = NotSent
  /\ q.state = "failed" => q.set \/ q = [NotSent EXCEPT !.state = "failed"]
  /\ q.state = "find" =>
       q.on = 0 /\ q.to = {} /\ ~q.set /\ q.kind \in Updates \cup {"trickle", "delete"}
  /\ q.state = "set" => q.kind \in Updates /\ ~q.set
  /\ q.state \in {"lock", "create", "local", "tag"} => q.set
  /\ q.state = "lock" => endpoint = "whip"
  /\ q.state = "add" =>
       (q.kind \in {"direct", "trickle"} /\ q.to = {}) \/ (q.kind = "restart" /\ q.set)
  /\ q.state = "push" => q.kind \in {"direct", "trickle"} /\ q.to = {}
  /\ q.state = "close" => q.kind = "delete"
  /\ q.state = "done" /\ q.kind \in Updates => q.set
  /\ q.set => q.kind \in Updates
  /\ q.tag # NoETag => q.kind = "trickle"
  /\ q.on \in 0 .. opened
  /\ q.state \notin {"new", "find", "failed"} \/ q.set => q.on # 0
Stages == \A r \in Requests : Stage(req[r])

\* Who keeps pending_candidates locked, what waits in it, and whose offer is set.
Kept ==
  /\ \A t \in Transports :
       /\ transport[t].lock # None =>
            LET r == transport[t].lock IN req[r].on = t /\ req[r].state \in {"create", "local"}
       /\ \A r \in transport[t].pending : req[r].on = t /\ req[r].state = "done"
       /\ transport[t].remote # None =>
            LET r == transport[t].remote IN req[r].set /\ req[r].on = t
  /\ \A r \in Requests : req[r].set => transport[req[r].on].remote # None

\* An offer that no other has crossed is the remote description.
Uncrossed ==
  \A r \in Requests :
    req[r].set /\ Active(r) /\ ~req[r].crossed => transport[req[r].on].remote = r

\* An ETag was given for an offer when its request was done; if it is the last that
\* was given, nobody else who is done has set an offer since.
Given ==
  \A g \in given :
    /\ g.for \in Requests /\ req[g.for].state = "done" /\ req[g.for].set /\ req[g.for].on = g.on
    /\ g.tag # 0 /\ g.lives <= lives /\ (g.lives = lives => g.tag <= counter)
    /\ g.lives = lives /\ g.tag = counter /\ ~g.crossed =>
         \A u \in Requests : transport[g.on].remote = u /\ req[u].state = "done" => u = g.for

\* A candidate with an ETag finds the description it is meant for.
Meant ==
  \A r \in Requests :
    req[r].tag # NoETag =>
      /\ req[r].tag \in given
      /\ ~req[r].crossed /\ ~req[r].tag.crossed /\ ~req[r].unsure =>
           /\ Active(r) => transport[req[r].tag.on].remote = req[r].tag.for
           /\ req[r].on = req[r].tag.on =>
                /\ req[r].state # "push" /\ req[r].to \subseteq {req[r].tag.for}
                /\ \A t \in Transports : r \notin transport[t].pending

\* A candidate that found no description waits for the first that is set.
Waits ==
  \A r \in Requests :
    req[r].kind \in {"direct", "trickle"} /\ ~req[r].crossed =>
      /\ req[r].state = "push" => transport[req[r].on].remote = None
      /\ req[r].state = "done" /\ req[r].to = {} /\ endpoint = "whip" =>
           /\ r \in transport[req[r].on].pending
           /\ \A u \in Requests : req[u].set /\ req[u].on = req[r].on => req[u].state = "lock"

\* A DELETE meets every POST and restart under way; one that comes after it finds the
\* transport closed, or another.
IsOver(r) == req[r].state = "done" /\ req[r].on = opened
Updating(u) == req[u].kind \in Updates /\ Active(u)
Deletes ==
  \A r \in Requests :
    req[r].kind = "delete" =>
      /\ req[r].state = "done" => transport[req[r].on].signaling = "closed"
      /\ Active(r) => \A u \in Requests : Updating(u) => req[u].met
      /\ IsOver(r) => \A u \in Requests : Updating(u) /\ ~req[u].met =>
           req[u].state \in {"find", "set"} /\ req[u].on \in {0, opened}
      /\ Active(r) \/ IsOver(r) =>
           counter = 0 \/ \E u \in Requests :
             req[u].kind \in Updates /\ req[u].met /\ req[u].state = "done"

IInv ==
  Types /\ Counts /\ Stages /\ Kept /\ Uncrossed /\ Given /\ Meant /\ Waits /\ Deletes

-----------------------------------------------------------------------------
(* Steps of one request *)

\* A set with one more element, or none.
LEMMA OneMore ==
  ASSUME NEW S \in SUBSET Requests, NEW T \in SUBSET Requests, S \subseteq T
  PROVE  /\ Cardinality(S) \in Nat /\ Cardinality(T) \in Nat /\ Cardinality(S) <= Cardinality(T)
         /\ S # T => Cardinality(S) < Cardinality(T)
<1>1. IsFiniteSet(S) /\ IsFiniteSet(T)
  BY FS_Subset, WhipAssumption
<1>2. Cardinality(S) \in Nat /\ Cardinality(T) \in Nat
  BY <1>1, FS_CardinalityType
<1>3. Cardinality(S) <= Cardinality(T) /\ (S # T => Cardinality(S) < Cardinality(T))
  <2>1. S \in SUBSET T
    OBVIOUS
  <2>2. Cardinality(S) <= Cardinality(T) /\ (Cardinality(T) = Cardinality(S) => T = S)
    BY <1>1, <2>1, FS_Subset
  <2> QED BY <1>2, <2>2
<1> QED BY <1>2, <1>3

\* Requests that are done stay so, and none is new again: the counters keep their bounds.
LEMMA CountsStay ==
  ASSUME Types, Counts, UNCHANGED <<counter, lives>>,
         \A r \in Requests : req[r].state = "done" => req'[r].state = "done",
         \A r \in Requests : req[r].state # "new" => req'[r].state # "new"
  PROVE  Counts'
<1> DEFINE Done == {r \in Requests : req[r].state = "done"}
           Begun == {r \in Requests : req[r].state # "new"}
<1>1. Done \subseteq Done' /\ Done \subseteq Requests /\ Done' \subseteq Requests
  OBVIOUS
<1>2. Begun \subseteq Begun' /\ Begun \subseteq Requests /\ Begun' \subseteq Requests
  OBVIOUS
<1>3. Cardinality(Done) <= Cardinality(Done') /\ Cardinality(Done) \in Nat /\ Cardinality(Done') \in Nat
  BY <1>1, OneMore
<1>4. Cardinality(Begun) <= Cardinality(Begun') /\ Cardinality(Begun) \in Nat
      /\ Cardinality(Begun') \in Nat
  BY <1>2, OneMore
<1>5. counter <= Cardinality(Done) /\ lives <= Cardinality(Begun) /\ counter \in Nat /\ lives \in Nat
  BY DEF Counts, Types
<1> HIDE DEF Done, Begun
<1>6. counter' <= Cardinality(Done') /\ lives' <= Cardinality(Begun')
  BY <1>3, <1>4, <1>5
<1> QED BY <1>6 DEF Counts, Done, Begun

\* Where a request is, and what it was found for, is a transport.
LEMMA OnTransport ==
  ASSUME Types, Stages, NEW q \in Requests, req[q].on # 0
  PROVE  req[q].on \in Transports /\ req[q].on \in Nat /\ opened \in Nat
<1>1. opened \in 0 .. MaxTransports /\ MaxTransports \in Nat
  BY WhipAssumption DEF Types
<1>2. req[q].on \in 0 .. opened
  BY DEF Stages, Stage
<1> QED BY <1>1, <1>2 DEF Transports

\* A request goes on, and nothing else changes: it keeps what it has set, and neither
\* holds pending_candidates nor is done with an update.
LEMMA OneMoves ==
  ASSUME IInv, NEW r \in Requests,
         UNCHANGED <<endpoint, session, opened, counter, lives, given, transport>>,
         req' \in [Requests -> RequestStates], \A u \in Requests \ {r} : req'[u] = req[u],
         Stage(req'[r]), req'[r].state # "new", Active(r) \/ req[r].state = "new",
         req[r].state # "lock",
         req[r].state \in {"create", "local"} =>
           req'[r].state \in {"create", "local"} /\ req'[r].on = req[r].on,
         req'[r].set = req[r].set,
         req[r].set => req'[r].on = req[r].on /\ req'[r].crossed = req[r].crossed,
         req'[r].state = "done" => req'[r].kind \notin Updates,
         req'[r].tag # NoETag =>
           /\ req'[r].tag \in given
           /\ ~req'[r].crossed /\ ~req'[r].tag.crossed /\ ~req'[r].unsure =>
                /\ Active(r)' => transport[req'[r].tag.on].remote = req'[r].tag.for
                /\ req'[r].on = req'[r].tag.on =>
                     req'[r].state # "push" /\ req'[r].to \subseteq {req'[r].tag.for},
         req'[r].kind \in {"direct", "trickle"} =>
           /\ req'[r].state = "push" => transport[req'[r].on].remote = None
           /\ req'[r].state = "done" => req'[r].to # {},
         req'[r].kind = "delete" => req[r].kind = "delete" /\ Active(r) /\ Active(r)',
         Updating(r)' => req'[r].met \/ (~Updating(r) /\ ~Deleting) \/
                         (Updating(r) /\ req'[r].met = req[r].met),
         Updating(r)' /\ ~req'[r].met => \/ req'[r].state = "find" /\ req'[r].on = 0
                                         \/ req'[r].state = "set" /\ req'[r].on = opened
                                         \/ Updating(r) /\ req[r].met = req'[r].met /\ req[r].set
  PROVE  IInv'
<1>1. Types'
  BY DEF IInv, Types
<1>2. Counts'
  BY CountsStay DEF IInv, Active, Over
<1>3. Stages'
  BY DEF IInv, Stages, Stage
<1>4. Kept'
  BY DEF IInv, Types, TransportStates, Kept, Active, Over
<1>5. Uncrossed'
  <2>1. req[r].set => Active(r)
    BY DEF IInv, Stages, Stage, Active, NotSent
  <2> QED BY <2>1 DEF IInv, Uncrossed, Active, Over
<1>6. Given'
  <2>1. \A g \in given : g.for # r
    BY DEF IInv, Given, Active, Over
  <2>2. \A t \in Transports : transport[t].remote = r => req'[r].state # "done"
    BY WhipAssumption DEF IInv, Kept, Stage
  <2>3. \A g \in given : g.on \in Transports
    <3>1. \A g \in given : g.for \in Requests /\ req[g.for].on = g.on /\ req[g.for].on # 0
      BY DEF IInv, Given, Stages, Stage
    <3> QED BY <3>1, OnTransport DEF IInv
  <2> QED BY <2>1, <2>2, <2>3 DEF IInv, Given
<1>7. Meant'
  <2>1. \A t \in Transports : r \notin transport[t].pending
    BY DEF IInv, Kept, Active, Over
  <2> QED BY <2>1 DEF IInv, Meant, Active
<1>8. Waits'
  BY DEF IInv, Waits, Active, Over
<1>9. Deletes'
  BY DEF IInv, Deletes, Stages, Stage, Updating, IsOver, Deleting, Active, Over
<1> QED BY <1>1, <1>2, <1>3, <1>4, <1>5, <1>6, <1>7, <1>8, <1>9 DEF IInv

\* To changes the state of one request and nothing else of it.
LEMMA ToIs ==
  ASSUME Types, NEW r \in Requests, NEW step \in States, req' = To(r, step)
  PROVE  /\ req' \in [Requests -> RequestStates] /\ \A u \in Requests \ {r} : req'[u] = req[u]
         /\ req'[r].state = step /\ req'[r].kind = req[r].kind /\ req'[r].tag = req[r].tag
         /\ req'[r].on = req[r].on /\ req'[r].set = req[r].set /\ req'[r].to = req[r].to
         /\ req'[r].crossed = req[r].crossed /\ req'[r].met = req[r].met
         /\ req'[r].unsure = req[r].unsure
BY DEF Types, To, RequestStates

\* The requests that fail outside get_answer's lock.
LEMMA FailedKeeps ==
  ASSUME IInv, NEW r \in Requests, Active(r) \/ req[r].state = "new",
         req[r].state \notin {"lock", "create", "local"}, req' = Failed(r),
         UNCHANGED <<endpoint, session, opened, counter, lives, given, transport>>
  PROVE  IInv'
<1>1. Types /\ Stage(req[r]) /\ req[r] \in RequestStates
  BY DEF IInv, Types, Stages
<1>2. NotSent \in RequestStates
  BY DEF NotSent, RequestStates, States, Kinds, ETags, NoETag
<1>3. req'[r] = IF req[r].set THEN [req[r] EXCEPT !.state = "failed"]
                ELSE [NotSent EXCEPT !.state = "failed"]
  BY <1>1 DEF Failed, Types
<1>4. req'[r] \in RequestStates /\ req'[r].state = "failed" /\ req'[r].set = req[r].set
  BY <1>1, <1>2, <1>3 DEF RequestStates, States, NotSent
<1>5. req' \in [Requests -> RequestStates] /\ \A u \in Requests \ {r} : req'[u] = req[u]
  BY <1>1, <1>3, <1>4 DEF Failed, Types
<1>6. CASE req[r].set
  <2>1. /\ req'[r].kind = req[r].kind /\ req'[r].tag = req[r].tag /\ req'[r].on = req[r].on
        /\ req'[r].crossed = req[r].crossed
    BY <1>1, <1>3, <1>6 DEF RequestStates
  <2>2. req[r].kind \in Updates /\ req[r].tag = NoETag
    BY <1>1, <1>6 DEF Stage, Updates
  <2>3. Stage(req'[r])
    BY <1>1, <1>4, <1>6, <2>1, <2>2 DEF Stage
  <2> QED BY <1>4, <1>5, <1>6, <2>1, <2>2, <2>3, OneMoves DEF Updating, Active, Over, Updates
<1>7. CASE ~req[r].set
  <2>1. /\ req'[r] = [NotSent EXCEPT !.state = "failed"]
        /\ req'[r].tag = NoETag /\ req'[r].kind = None /\ req'[r].on = 0
    BY <1>3, <1>7 DEF NotSent
  <2>2. Stage(req'[r])
    BY <1>1, <1>4, <1>7, <2>1 DEF Stage, Updates, None, Types
  <2> QED BY <1>4, <1>5, <1>7, <2>1, <2>2, OneMoves DEF Updating, Active, Over, Updates, None
<1> QED BY <1>6, <1>7

LEMMA NotFoundKeeps ==
  ASSUME IInv, NEW r \in Requests, NotFound(r)
  PROVE  IInv'
BY FailedKeeps DEF NotFound, Active, Over

LEMMA OfferFailsKeeps ==
  ASSUME IInv, NEW r \in Requests, OfferFails(r)
  PROVE  IInv'
BY FailedKeeps DEF OfferFails, Active, Over

LEMMA AddFailsKeeps ==
  ASSUME IInv, NEW r \in Requests, AddFails(r)
  PROVE  IInv'
BY FailedKeeps DEF AddFails, Active, Over

\* What a request that arrives is.
LEMMA ArrivesIs ==
  ASSUME IInv, NEW r \in Requests, req[r].state = "new", NEW kind \in Kinds
  PROVE  /\ req[r] = NotSent
         /\ Arrives(r, kind) \in [Requests -> RequestStates]
         /\ \A u \in Requests \ {r} : Arrives(r, kind)[u] = req[u]
         /\ Arrives(r, kind)[r] = [NotSent EXCEPT !.kind = kind, !.state = "find"]
<1>1. req[r] = NotSent /\ req[r] \in RequestStates /\ req \in [Requests -> RequestStates]
  BY DEF IInv, Types, Stages, Stage
<1>2. NotSent \in RequestStates
  BY <1>1
<1> QED BY <1>1, <1>2 DEF Arrives, RequestStates, States, NotSent

\* A POST, or a PATCH with If-Match: *.
LEMMA UpdateKeeps ==
  ASSUME IInv, NEW r \in Requests, NEW kind \in Updates, MaySend(r),
         NEW m \in BOOLEAN, m = Deleting,
         req' = [Arrives(r, kind) EXCEPT ![r].met = m],
         UNCHANGED <<endpoint, session, opened, counter, lives, given, transport>>
  PROVE  IInv'
<1> DEFINE arrived == Arrives(r, kind)
<1>1. kind \in Kinds /\ req[r].state = "new"
  BY DEF MaySend, Updates, Kinds
<1>2. /\ req[r] = NotSent
      /\ arrived \in [Requests -> RequestStates] /\ arrived[r] = [NotSent EXCEPT !.kind = kind, !.state = "find"]
      /\ \A u \in Requests \ {r} : arrived[u] = req[u]
  BY <1>1, ArrivesIs
<1>3. req' = [arrived EXCEPT ![r].met = m]
  OBVIOUS
<1> HIDE DEF arrived
<1>4. arrived[r] \in RequestStates /\ req'[r] = [arrived[r] EXCEPT !.met = m]
  BY <1>2, <1>3
<1>5. req'[r] \in RequestStates
  BY <1>4 DEF RequestStates
<1>6. req' \in [Requests -> RequestStates] /\ \A u \in Requests \ {r} : req'[u] = req[u]
  BY <1>2, <1>3, <1>4, <1>5
<1>7. /\ arrived[r].state = "find" /\ arrived[r].kind = kind /\ arrived[r].tag = NoETag
      /\ arrived[r].on = 0 /\ arrived[r].set = FALSE /\ arrived[r].to = {}
      /\ req[r].set = FALSE
  BY <1>2 DEF NotSent
<1>8. /\ req'[r].state = "find" /\ req'[r].kind = kind /\ req'[r].tag = NoETag /\ req'[r].on = 0
      /\ req'[r].set = FALSE /\ req[r].set = FALSE /\ req'[r].to = {} /\ req'[r].met = m
  BY <1>4, <1>7 DEF RequestStates
<1>9. Stage(req'[r])
  BY <1>8 DEF Stage, IInv, Types
<1>10. ~Updating(r)
  BY <1>1 DEF Updating, Active, Over
<1>11. kind # "delete" /\ kind \notin {"direct", "trickle"}
  BY DEF Updates
<1>12. req'[r].met \/ (~Updating(r) /\ ~Deleting)
  BY <1>8, <1>10
<1> QED BY <1>1, <1>2, <1>6, <1>8, <1>9, <1>11, <1>12, OneMoves

LEMMA PostKeeps ==
  ASSUME IInv, NEW r \in Requests, Post(r)
  PROVE  IInv'
<1>1. Deleting \in BOOLEAN
  BY DEF Deleting
<1>2. "post" \in Updates
  BY DEF Updates
<1> QED BY <1>1, <1>2, UpdateKeeps DEF Post

LEMMA PatchAnyKeeps ==
  ASSUME IInv, NEW r \in Requests, PatchAny(r)
  PROVE  IInv'
<1>1. Deleting \in BOOLEAN
  BY DEF Deleting
<1>2. "restart" \in Updates
  BY DEF Updates
<1> QED BY <1>1, <1>2, UpdateKeeps DEF PatchAny

\* A PATCH with an ETag finds the description the ETag was given for, or is not sure to.
LEMMA PatchKeeps ==
  ASSUME IInv, NEW r \in Requests, Patch(r)
  PROVE  IInv'
<1>1. /\ req[r].state = "new"
      /\ UNCHANGED <<endpoint, session, opened, counter, lives, given, transport>>
  BY DEF Patch, MaySend
<1>2. PICK g \in given :
        req' = IF Matches(g)
               THEN [Arrives(r, "trickle") EXCEPT ![r].tag = g,
                                                  ![r].unsure = Untold(g.on) \/ g.lives # lives]
               ELSE Failed(r)
  BY DEF Patch
<1>3. CASE ~Matches(g)
  BY <1>1, <1>2, <1>3, FailedKeeps
<1>4. CASE Matches(g)
  <2> DEFINE arrived == Arrives(r, "trickle")
             b == Untold(g.on) \/ g.lives # lives
  <2>1. req' = [arrived EXCEPT ![r].tag = g, ![r].unsure = b] /\ b \in BOOLEAN
    BY <1>2, <1>4
  <2>2. /\ req[r] = NotSent
        /\ arrived \in [Requests -> RequestStates] /\ \A u \in Requests \ {r} : arrived[u] = req[u]
        /\ arrived[r] = [NotSent EXCEPT !.kind = "trickle", !.state = "find"]
    BY <1>1, ArrivesIs DEF Kinds
  <2> HIDE DEF arrived
  <2>3. arrived[r] \in RequestStates /\ g \in ETags
    BY <2>2 DEF IInv, Types
  <2>4. /\ arrived[r].state = "find" /\ arrived[r].kind = "trickle" /\ arrived[r].on = 0
        /\ arrived[r].set = FALSE /\ arrived[r].to = {} /\ req[r].set = FALSE
    BY <2>2 DEF NotSent
  <2>5. ~b /\ ~g.crossed => transport[g.on].remote = g.for
    <3>1. /\ g.for \in Requests /\ req[g.for].set /\ req[g.for].on = g.on /\ req[g.for].on # 0
          /\ g.lives = lives /\ g.tag = counter /\ ~g.crossed =>
               \A u \in Requests : transport[g.on].remote = u /\ req[u].state = "done" => u = g.for
      BY DEF IInv, Given, Stages, Stage
    <3>2. g.on \in Transports /\ transport[g.on].remote # None
      BY <3>1, OnTransport DEF IInv, Kept
    <3>3. transport[g.on].remote \in Requests
      BY <3>2 DEF IInv, Types, TransportStates
    <3> QED BY <1>4, <3>1, <3>3 DEF Untold, Matches
  <2>6. g.on # 0
    BY DEF IInv, Given, Stages, Stage
  <2> HIDE DEF b
  <2>7. req'[r] = [arrived[r] EXCEPT !.tag = g, !.unsure = b]
    BY <2>1, <2>2
  <2>8. req'[r] \in RequestStates
    <3>1. \A c \in BOOLEAN : [arrived[r] EXCEPT !.tag = g, !.unsure = c] \in RequestStates
      BY <2>3 DEF RequestStates
    <3> QED BY <2>1, <2>7, <3>1
  <2>9. req' \in [Requests -> RequestStates] /\ \A u \in Requests \ {r} : req'[u] = req[u]
    BY <2>1, <2>2, <2>8
  <2>10. /\ req'[r].state = "find" /\ req'[r].kind = "trickle" /\ req'[r].tag = g /\ req'[r].on = 0
         /\ req'[r].set = FALSE /\ req'[r].to = {} /\ req'[r].unsure = b
    BY <2>3, <2>4, <2>7 DEF RequestStates
  <2>11. Stage(req'[r])
    BY <2>10 DEF Stage, IInv, Types
  <2> QED BY <1>1, <2>2, <2>4, <2>5, <2>6, <2>9, <2>10, <2>11, OneMoves
            DEF Updating, Active, Over, Updates
<1> QED BY <1>3, <1>4

LEMMA DirectKeeps ==
  ASSUME IInv, NEW r \in Requests, Direct(r)
  PROVE  IInv'
<1> DEFINE arrived == Arrives(r, "direct")
<1>1. /\ req[r].state = "new" /\ session # 0
      /\ req' = [arrived EXCEPT ![r].state = "add", ![r].on = session]
      /\ UNCHANGED <<endpoint, session, opened, counter, lives, given, transport>>
  BY DEF Direct, MaySend
<1>2. /\ req[r] = NotSent
      /\ arrived \in [Requests -> RequestStates] /\ \A u \in Requests \ {r} : arrived[u] = req[u]
      /\ arrived[r] = [NotSent EXCEPT !.kind = "direct", !.state = "find"]
  BY <1>1, ArrivesIs DEF Kinds
<1> HIDE DEF arrived
<1>3. arrived[r] \in RequestStates /\ session = opened /\ session \in Nat /\ session \in 0 .. opened
  BY <1>1, <1>2, WhipAssumption DEF IInv, Types
<1>4. /\ arrived[r].kind = "direct" /\ arrived[r].tag = NoETag /\ req[r].set = FALSE
      /\ arrived[r].set = FALSE /\ arrived[r].to = {}
  BY <1>2 DEF NotSent
<1>5. req'[r] = [arrived[r] EXCEPT !.state = "add", !.on = session]
  BY <1>1, <1>2
<1>6. req'[r] \in RequestStates
  BY <1>3, <1>5 DEF RequestStates, States
<1>7. req' \in [Requests -> RequestStates] /\ \A u \in Requests \ {r} : req'[u] = req[u]
  BY <1>1, <1>2, <1>6
<1>8. /\ req'[r].state = "add" /\ req'[r].kind = "direct" /\ req'[r].tag = NoETag
      /\ req'[r].on = session /\ req'[r].set = FALSE /\ req'[r].to = {}
  BY <1>3, <1>4, <1>5 DEF RequestStates
<1>9. Stage(req'[r])
  BY <1>1, <1>3, <1>8 DEF Stage
<1> QED BY <1>1, <1>4, <1>7, <1>8, <1>9, OneMoves DEF Updating, Active, Over, Updates

LEMMA FindKeeps ==
  ASSUME IInv, NEW r \in Requests, Find(r)
  PROVE  IInv'
<1>1. /\ req[r].state = "find" /\ session # 0
      /\ req' = [To(r, NextOf(r)) EXCEPT ![r].on = session]
      /\ UNCHANGED <<endpoint, session, opened, counter, lives, given, transport>>
  BY DEF Find
<1>2. Types /\ Stage(req[r]) /\ req[r] \in RequestStates
  BY DEF IInv, Types, Stages
<1>3. /\ \/ req[r].kind \in Updates /\ NextOf(r) = "set"
         \/ req[r].kind = "trickle" /\ NextOf(r) = "add"
         \/ req[r].kind = "delete" /\ NextOf(r) = "close"
      /\ req[r].on = 0 /\ req[r].to = {} /\ ~req[r].set
  <2>1. /\ req[r].kind \in Updates \cup {"trickle", "delete"}
        /\ req[r].on = 0 /\ req[r].to = {} /\ ~req[r].set
    BY <1>1, <1>2 DEF Stage
  <2>2. CASE req[r].kind \in Updates
    BY <2>1, <2>2 DEF NextOf, Updates
  <2>3. CASE req[r].kind = "trickle"
    BY <2>1, <2>3 DEF NextOf, Updates
  <2>4. CASE req[r].kind = "delete"
    BY <2>1, <2>4 DEF NextOf, Updates
  <2> QED BY <2>1, <2>2, <2>3, <2>4
<1>4. NextOf(r) \in States /\ session = opened /\ session \in Nat /\ session \in 0 .. opened
  BY <1>1, <1>2, <1>3, WhipAssumption DEF States, Types
<1>5. req' = [req EXCEPT ![r] = [req[r] EXCEPT !.state = NextOf(r), !.on = session]]
  BY <1>1, <1>2 DEF To, Types, RequestStates
<1>6. req'[r] = [req[r] EXCEPT !.state = NextOf(r), !.on = session]
  BY <1>2, <1>5 DEF Types
<1>7. req' \in [Requests -> RequestStates] /\ \A u \in Requests \ {r} : req'[u] = req[u]
  BY <1>2, <1>4, <1>5, <1>6 DEF Types, RequestStates
<1>8. /\ req'[r].state = NextOf(r) /\ req'[r].kind = req[r].kind /\ req'[r].tag = req[r].tag
      /\ req'[r].on = session /\ req'[r].set = req[r].set /\ req'[r].to = req[r].to
      /\ req'[r].crossed = req[r].crossed /\ req'[r].met = req[r].met
      /\ req'[r].unsure = req[r].unsure
  BY <1>2, <1>6 DEF RequestStates
<1>9. Stage(req'[r])
  BY <1>1, <1>2, <1>3, <1>4, <1>8 DEF Stage, Updates
<1>10. req[r].tag # NoETag =>
         /\ req[r].tag \in given
         /\ ~req[r].crossed /\ ~req[r].tag.crossed /\ ~req[r].unsure =>
              transport[req[r].tag.on].remote = req[r].tag.for
  BY <1>1 DEF IInv, Meant, Active, Over
<1> QED BY <1>1, <1>3, <1>4, <1>7, <1>8, <1>9, <1>10, OneMoves DEF Updating, Active, Over, Updates

LEMMA CreateAnswerKeeps ==
  ASSUME IInv, NEW r \in Requests, CreateAnswer(r)
  PROVE  IInv'
<1>1. /\ req[r].state = "create" /\ req' = To(r, "local")
      /\ UNCHANGED <<endpoint, session, opened, counter, lives, given, transport>>
  BY DEF CreateAnswer
<1>2. Types /\ Stage(req[r]) /\ "local" \in States
  BY DEF IInv, Stages, States
<1>3. /\ req' \in [Requests -> RequestStates] /\ \A u \in Requests \ {r} : req'[u] = req[u]
      /\ req'[r].state = "local" /\ req'[r].kind = req[r].kind /\ req'[r].tag = req[r].tag
      /\ req'[r].on = req[r].on /\ req'[r].set = req[r].set /\ req'[r].to = req[r].to
      /\ req'[r].crossed = req[r].crossed /\ req'[r].met = req[r].met
  BY <1>1, <1>2, ToIs
<1>4. req[r].set /\ req[r].kind \in Updates /\ req[r].tag = NoETag
  BY <1>1, <1>2 DEF Stage, Updates
<1>5. Stage(req'[r])
  BY <1>1, <1>2, <1>3, <1>4 DEF Stage
<1> QED BY <1>1, <1>3, <1>4, <1>5, OneMoves DEF Updating, Active, Over, Updates

LEMMA FindNoneKeeps ==
  ASSUME IInv, NEW r \in Requests, FindNone(r)
  PROVE  IInv'
<1>1. /\ req[r].state = "add" /\ transport[req[r].on].remote = None /\ req' = To(r, "push")
      /\ UNCHANGED <<endpoint, session, opened, counter, lives, given, transport>>
  BY DEF FindNone, pc
<1>2. Types /\ Stage(req[r]) /\ "push" \in States
  BY DEF IInv, Stages, States
<1>3. /\ req' \in [Requests -> RequestStates] /\ \A u \in Requests \ {r} : req'[u] = req[u]
      /\ req'[r].state = "push" /\ req'[r].kind = req[r].kind /\ req'[r].tag = req[r].tag
      /\ req'[r].on = req[r].on /\ req'[r].set = req[r].set /\ req'[r].to = req[r].to
      /\ req'[r].crossed = req[r].crossed /\ req'[r].met = req[r].met
      /\ req'[r].unsure = req[r].unsure
  BY <1>1, <1>2, ToIs
<1>4. ~req[r].set /\ req[r].kind \in {"direct", "trickle"} /\ req[r].to = {}
  BY <1>1, <1>2 DEF Stage, IInv, Kept
<1>5. Stage(req'[r])
  BY <1>1, <1>2, <1>3, <1>4 DEF Stage
<1>6. req[r].tag # NoETag =>
        /\ req[r].tag \in given
        /\ ~req[r].crossed /\ ~req[r].tag.crossed /\ ~req[r].unsure =>
             /\ transport[req[r].tag.on].remote = req[r].tag.for
             /\ req[r].tag.for # None
  BY <1>1, WhipAssumption DEF IInv, Meant, Given, Active, Over
<1> QED BY <1>1, <1>3, <1>4, <1>5, <1>6, OneMoves DEF Updating, Active, Over, Updates

LEMMA AddKeeps ==
  ASSUME IInv, NEW r \in Requests, Add(r)
  PROVE  IInv'
<1> DEFINE remote == transport[req[r].on].remote
           step == IF req[r].kind = "restart" THEN "tag" ELSE "done"
<1>1. /\ req[r].state = "add" /\ remote # None
      /\ req' = [To(r, step) EXCEPT ![r].to = @ \cup {remote}]
      /\ UNCHANGED <<endpoint, session, opened, counter, lives, given, transport>>
  BY DEF Add, pc
<1>2. Types /\ Stage(req[r]) /\ req[r] \in RequestStates
  BY DEF IInv, Types, Stages
<1>3. remote \in Requests
  <2>1. req[r].on \in Transports
    BY <1>1, <1>2, OnTransport DEF IInv, Stage
  <2> QED BY <1>1, <1>2, <2>1 DEF Types, TransportStates
<1>4. step \in {"tag", "done"} /\ step \in States /\ (step = "tag" <=> req[r].kind = "restart")
  BY DEF States
<1>5. req[r].tag # NoETag =>
        /\ req[r].tag \in given
        /\ ~req[r].crossed /\ ~req[r].tag.crossed /\ ~req[r].unsure =>
             (req[r].on = req[r].tag.on =>
                remote = req[r].tag.for /\ req[r].to \subseteq {req[r].tag.for})
  BY <1>1 DEF IInv, Meant, Active, Over
<1> HIDE DEF remote, step
<1>6. req' = [req EXCEPT ![r] = [req[r] EXCEPT !.state = step, !.to = req[r].to \cup {remote}]]
  BY <1>1, <1>2 DEF To, Types, RequestStates
<1>7. req'[r] = [req[r] EXCEPT !.state = step, !.to = req[r].to \cup {remote}]
  BY <1>2, <1>6 DEF Types
<1>8. req' \in [Requests -> RequestStates] /\ \A u \in Requests \ {r} : req'[u] = req[u]
  BY <1>2, <1>3, <1>4, <1>6, <1>7 DEF Types, RequestStates
<1>9. /\ req'[r].state = step /\ req'[r].kind = req[r].kind /\ req'[r].tag = req[r].tag
      /\ req'[r].on = req[r].on /\ req'[r].set = req[r].set /\ req'[r].to = req[r].to \cup {remote}
      /\ req'[r].crossed = req[r].crossed /\ req'[r].met = req[r].met
      /\ req'[r].unsure = req[r].unsure
  BY <1>2, <1>7 DEF RequestStates
<1>10. Stage(req'[r])
  BY <1>1, <1>2, <1>4, <1>9 DEF Stage, Updates
<1>11. req'[r].to # {}
  BY <1>9
<1>12. req[r].kind # "delete" /\ (req[r].kind \in Updates <=> req[r].kind = "restart")
       /\ (req[r].kind = "restart" => req[r].set)
  BY <1>1, <1>2 DEF Stage, Updates
<1>13. Active(r) /\ (Updating(r)' => Updating(r) /\ req[r].set)
  BY <1>1, <1>9, <1>12 DEF Updating, Active, Over
<1>14. Active(r)' => req[r].kind = "restart"
  BY <1>4, <1>9 DEF Active, Over
<1>15. (req'[r].kind = "trickle" \/ req'[r].tag # NoETag) => req[r].kind = "trickle"
  BY <1>2, <1>9 DEF Stage
<1> QED BY <1>1, <1>4, <1>5, <1>8, <1>9, <1>10, <1>11, <1>12, <1>13, <1>14, <1>15, OneMoves

-----------------------------------------------------------------------------
(* Steps of a request and a transport, or of several requests *)

\* The application opens a transport, or lets go of it.
LEMMA SessionKeeps ==
  ASSUME IInv, OpenSession \/ EndSession \/ UNCHANGED vars
  PROVE  IInv'
<1>1. UNCHANGED <<endpoint, counter, lives, given, transport, req>>
  BY DEF OpenSession, EndSession, vars
<1>2. opened \in Nat /\ opened' \in opened .. opened + 1 /\ Types'
  BY <1>1, WhipAssumption DEF OpenSession, EndSession, vars, IInv, Types
<1>3. Stages'
  BY <1>1, <1>2 DEF IInv, Stages, Stage
<1>4. Counts' /\ Kept' /\ Uncrossed' /\ Given' /\ Meant' /\ Waits'
  BY <1>1 DEF IInv, Counts, Kept, Uncrossed, Given, Meant, Waits, Active
<1>5. Deletes'
  <2>1. opened' # opened => \A r \in Requests : req[r].on # opened'
    BY <1>2 DEF IInv, Stages, Stage
  <2>2. \A r \in Requests : (IsOver(r)' => IsOver(r) /\ opened' = opened)
                            /\ (Active(r)' <=> Active(r)) /\ (Updating(r)' <=> Updating(r))
    BY <1>1, <2>1 DEF IsOver, Active, Updating
  <2> QED BY <1>1, <2>2 DEF IInv, Deletes
<1> QED BY <1>2, <1>3, <1>4, <1>5 DEF IInv

\* An offer becomes the remote description, and crosses every other request under way.
LEMMA SetRemoteKeeps ==
  ASSUME IInv, NEW r \in Requests, SetRemote(r)
  PROVE  IInv'
<1> DEFINE on == req[r].on
           step == IF endpoint = "whip" THEN "lock" ELSE "create"
<1>1. /\ req[r].state = "set" /\ transport[on].signaling # "closed"
      /\ UNCHANGED <<endpoint, session, opened, counter, lives, given>>
      /\ transport' = [transport EXCEPT ![on].remote = r, ![on].signaling = "offered"]
      /\ req' = [q \in Requests |->
                   IF q = r THEN [req[r] EXCEPT !.set = TRUE, !.state = step]
                   ELSE [req[q] EXCEPT !.crossed = @ \/ Active(q)]]
  BY DEF SetRemote, pc
<1>2. Types /\ Stage(req[r]) /\ req \in [Requests -> RequestStates]
      /\ transport \in [Transports -> TransportStates]
  BY DEF IInv, Types, Stages
<1>3. req[r].kind \in Updates /\ ~req[r].set /\ on # 0 /\ on \in Transports /\ req[r].tag = NoETag
  <2>1. req[r].kind \in Updates /\ ~req[r].set /\ on # 0 /\ req[r].tag = NoETag
    BY <1>1, <1>2 DEF Stage, Updates
  <2> QED BY <2>1, OnTransport DEF IInv
<1>4. step \in {"lock", "create"} /\ (endpoint = "whip" <=> step = "lock")
  OBVIOUS
<1> HIDE DEF on, step
<1>5. /\ req'[r].set /\ req'[r].state = step /\ req'[r].kind = req[r].kind /\ req'[r].tag = req[r].tag
      /\ req'[r].on = on /\ req'[r].to = req[r].to /\ req'[r].crossed = req[r].crossed
      /\ req'[r].met = req[r].met /\ req'[r].unsure = req[r].unsure
      /\ req'[r] \in RequestStates
  BY <1>1, <1>2, <1>4 DEF RequestStates, States, on
<1>6. \A q \in Requests \ {r} :
        /\ req'[q].set = req[q].set /\ req'[q].state = req[q].state /\ req'[q].kind = req[q].kind
        /\ req'[q].tag = req[q].tag /\ req'[q].on = req[q].on /\ req'[q].to = req[q].to
        /\ req'[q].met = req[q].met /\ req'[q].unsure = req[q].unsure
        /\ req'[q] \in RequestStates
        /\ (req'[q].crossed <=> req[q].crossed \/ Active(q))
        /\ (~Active(q) => req'[q] = req[q])
  <2> SUFFICES ASSUME NEW q \in Requests \ {r}
               PROVE  /\ req'[q].set = req[q].set /\ req'[q].state = req[q].state
                      /\ req'[q].kind = req[q].kind /\ req'[q].tag = req[q].tag
                      /\ req'[q].on = req[q].on /\ req'[q].to = req[q].to
                      /\ req'[q].met = req[q].met /\ req'[q].unsure = req[q].unsure
                      /\ req'[q] \in RequestStates
                      /\ (req'[q].crossed <=> req[q].crossed \/ Active(q))
                      /\ (~Active(q) => req'[q] = req[q])
    OBVIOUS
  <2>1. PICK c \in BOOLEAN : /\ c = (req[q].crossed \/ Active(q))
                             /\ req'[q] = [req[q] EXCEPT !.crossed = c]
    BY <1>1
  <2>2. req[q] \in RequestStates /\ req[q].crossed \in BOOLEAN
    BY <1>2 DEF RequestStates
  <2>3. /\ \A d \in BOOLEAN : [req[q] EXCEPT !.crossed = d] \in RequestStates
        /\ [req[q] EXCEPT !.crossed = req[q].crossed] = req[q]
    BY <2>2 DEF RequestStates
  <2>4. ~Active(q) => c = req[q].crossed
    BY <2>1, <2>2
  <2>5. req'[q].crossed = c
    BY <2>1, <2>2 DEF RequestStates
  <2> QED BY <2>1, <2>2, <2>3, <2>4, <2>5 DEF RequestStates
<1>7. /\ \A t \in Transports :
           /\ transport'[t] \in TransportStates
           /\ transport'[t].lock = transport[t].lock /\ transport'[t].pending = transport[t].pending
           /\ transport'[t].remote = IF t = on THEN r ELSE transport[t].remote
           /\ transport'[t].signaling = IF t = on THEN "offered" ELSE transport[t].signaling
      /\ transport' \in [Transports -> TransportStates]
  BY <1>1, <1>2, <1>3 DEF TransportStates
<1>8. \A q \in Requests : (Active(q)' <=> Active(q)) /\ (q # r => (Updating(q)' <=> Updating(q)))
                          /\ (IsOver(q)' <=> IsOver(q))
  BY <1>1, <1>4, <1>5, <1>6 DEF Active, Updating, Over, IsOver
<1>9. Types'
  BY <1>1, <1>2, <1>5, <1>6, <1>7 DEF Types
<1>10. Counts'
  <2>1. \A q \in Requests : (req[q].state = "done" => req'[q].state = "done")
                            /\ (req[q].state # "new" => req'[q].state # "new")
    BY <1>1, <1>4, <1>5, <1>6
  <2> QED BY <1>1, <1>2, <2>1, CountsStay DEF IInv
<1>11. Stages'
  <2>1. Stage(req[r])' 
    BY <1>1, <1>2, <1>3, <1>4, <1>5 DEF Stage, on
  <2>2. ASSUME NEW q \in Requests \ {r} PROVE Stage(req[q])'
    <3>1. Stage(req[q])
      BY DEF IInv, Stages
    <3>2. CASE Active(q)
      <4>1. req[q].state \notin {"new", "done", "failed"} /\ endpoint' = endpoint /\ opened' = opened
        BY <1>1, <3>2 DEF Active, Over
      <4> QED BY <1>6, <3>1, <4>1 DEF Stage
    <3>3. CASE ~Active(q)
      BY <1>1, <1>6, <3>1, <3>3 DEF Stage
    <3> QED BY <3>2, <3>3
  <2> QED BY <2>1, <2>2 DEF Stages
<1>12. Kept'
  <2>1. \A q \in Requests : req[q].set => req[q].on \in Transports
    BY OnTransport DEF IInv, Stages, Stage
  <2>2. \A t \in Transports : transport[t].lock # None => transport[t].lock \in Requests \ {r}
    BY <1>1, <1>2 DEF IInv, Kept, TransportStates
  <2>3. \A t \in Transports : transport[t].pending \subseteq Requests \ {r}
    BY <1>1, <1>2 DEF IInv, Kept, TransportStates
  <2>4. \A t \in Transports : transport[t].remote # None => transport[t].remote \in Requests \ {r}
    BY <1>2, <1>3 DEF IInv, Kept, TransportStates
  <2>5. r # None
    BY WhipAssumption
  <2>6. ASSUME NEW t \in Transports
        PROVE  /\ transport'[t].lock # None =>
                    /\ req'[transport'[t].lock].on = t
                    /\ req'[transport'[t].lock].state \in {"create", "local"}
               /\ \A q \in transport'[t].pending : req'[q].on = t /\ req'[q].state = "done"
    BY <1>6, <1>7, <2>2, <2>3 DEF IInv, Kept
  <2>7. ASSUME NEW t \in Transports, transport'[t].remote # None
        PROVE  req'[transport'[t].remote].set /\ req'[transport'[t].remote].on = t
    BY <1>5, <1>6, <1>7, <2>4, <2>7 DEF IInv, Kept
  <2>8. ASSUME NEW q \in Requests, req'[q].set
        PROVE  transport'[req'[q].on].remote # None
    BY <1>3, <1>5, <1>6, <1>7, <2>1, <2>5, <2>8 DEF IInv, Kept
  <2> QED BY <2>6, <2>7, <2>8 DEF Kept
<1>13. Uncrossed'
  BY <1>3, <1>5, <1>6, <1>7, <1>8 DEF Uncrossed
<1>14. Given'
  <2>1. \A g \in given : g.for # r /\ g.on \in Transports
    <3>1. \A g \in given : g.for \in Requests /\ req[g.for].state = "done" /\ req[g.for].on = g.on
                           /\ req[g.for].on # 0
      BY DEF IInv, Given, Stages, Stage
    <3> QED BY <1>1, <3>1, OnTransport DEF IInv
  <2>2. \A u \in Requests : req'[u].state = "done" => u # r /\ req[u].state = "done"
    BY <1>4, <1>5, <1>6
  <2> QED BY <1>1, <1>6, <1>7, <2>1, <2>2 DEF IInv, Given
<1>15. Meant'
  <2> SUFFICES ASSUME NEW q \in Requests, req'[q].tag # NoETag
               PROVE  /\ req'[q].tag \in given
                      /\ ~req'[q].crossed /\ ~req'[q].tag.crossed /\ ~req'[q].unsure =>
                           /\ Active(q)' => transport'[req'[q].tag.on].remote = req'[q].tag.for
                           /\ req'[q].on = req'[q].tag.on =>
                                /\ req'[q].state # "push" /\ req'[q].to \subseteq {req'[q].tag.for}
                                /\ \A t \in Transports : q \notin transport'[t].pending
    BY <1>1 DEF Meant
  <2>1. q # r
    BY <1>3, <1>5
  <2>2. req'[q].crossed \/ ~Active(q)'
    BY <1>6, <1>8, <2>1
  <2> QED BY <1>6, <1>7, <2>1, <2>2 DEF IInv, Meant
<1>16. Waits'
  <2> SUFFICES ASSUME NEW q \in Requests, req'[q].kind \in {"direct", "trickle"}, ~req'[q].crossed
               PROVE  /\ req'[q].state = "push" => transport'[req'[q].on].remote = None
                      /\ req'[q].state = "done" /\ req'[q].to = {} /\ endpoint = "whip" =>
                           /\ q \in transport'[req'[q].on].pending
                           /\ \A u \in Requests :
                                req'[u].set /\ req'[u].on = req'[q].on => req'[u].state = "lock"
    BY <1>1 DEF Waits
  <2>1. q # r /\ ~Active(q) /\ ~req[q].crossed
    BY <1>3, <1>5, <1>6 DEF Updates
  <2>2. req[q].state = "done" => req[q].on \in Transports
    BY OnTransport DEF IInv, Stages, Stage
  <2>3. req'[q].state # "push"
    BY <1>6, <2>1 DEF Active, Over
  <2> QED BY <1>4, <1>5, <1>6, <1>7, <2>1, <2>2, <2>3 DEF IInv, Waits
<1>17. Deletes'
  <2> SUFFICES ASSUME NEW d \in Requests, req'[d].kind = "delete"
               PROVE  /\ req'[d].state = "done" => transport'[req'[d].on].signaling = "closed"
                      /\ Active(d)' => \A u \in Requests : Updating(u)' => req'[u].met
                      /\ IsOver(d)' => \A u \in Requests : Updating(u)' /\ ~req'[u].met =>
                           req'[u].state \in {"find", "set"} /\ req'[u].on \in {0, opened}
                      /\ Active(d)' \/ IsOver(d)' =>
                           counter = 0 \/ \E u \in Requests :
                             req'[u].kind \in Updates /\ req'[u].met /\ req'[u].state = "done"
    BY <1>1 DEF Deletes
  <2>1. d # r /\ req[d].kind = "delete" /\ req'[d].on = req[d].on /\ req'[d].state = req[d].state
    BY <1>3, <1>5, <1>6 DEF Updates
  <2>2. /\ Updating(r)
        /\ req[d].state = "done" => /\ req[d].on # on /\ req[d].on \in Transports
                                    /\ transport[req[d].on].signaling = "closed"
    <3>1. req[d].state = "done" => transport[req[d].on].signaling = "closed" /\ req[d].on \in Transports
      BY <2>1, OnTransport DEF IInv, Deletes, Stages, Stage
    <3> QED BY <1>1, <1>3, <3>1 DEF Updating, Active, Over
  <2>3. req'[d].state = "done" => transport'[req'[d].on].signaling = "closed"
    BY <1>7, <2>1, <2>2
  <2>4. \A u \in Requests : Updating(u)' => Updating(u) /\ req'[u].met = req[u].met
    BY <1>5, <1>6, <1>8, <2>2
  <2>5. IsOver(d) => req[r].met
    <3>1. ~IsOver(d) \/ (on # opened /\ on # 0)
      BY <1>3, <2>2 DEF IsOver
    <3> QED BY <2>1, <2>2, <3>1 DEF IInv, Deletes, on
  <2>6. (\E u \in Requests : req[u].kind \in Updates /\ req[u].met /\ req[u].state = "done") =>
          \E u \in Requests : req'[u].kind \in Updates /\ req'[u].met /\ req'[u].state = "done"
    BY <1>1, <1>6
  <2> QED BY <1>6, <1>8, <2>1, <2>3, <2>4, <2>5, <2>6 DEF IInv, Deletes
<1> QED BY <1>9, <1>10, <1>11, <1>12, <1>13, <1>14, <1>15, <1>16, <1>17 DEF IInv

\* A request comes to an end, or answers, at its transport, whose remote description
\* stays.
LEMMA AtTransport ==
  ASSUME IInv, NEW r \in Requests, NEW step \in States, req' = To(r, step),
         UNCHANGED <<endpoint, session, opened, counter, lives, given>>,
         transport' \in [Transports -> TransportStates],
         \A t \in Transports :
           /\ transport'[t].remote = transport[t].remote
           /\ transport[t].signaling = "closed" => transport'[t].signaling = "closed"
           /\ transport'[t].lock = None \/ (transport'[t].lock = transport[t].lock /\ transport[t].lock # r)
           /\ transport[t].pending \subseteq transport'[t].pending
           /\ transport'[t].pending \subseteq transport[t].pending \cup {r}
           /\ r \in transport'[t].pending => t = req[r].on /\ req[r].state = "push",
         \/ req[r].state \in {"create", "local"} /\ step \in {"add", "tag", "failed"}
            /\ (step = "add" => req[r].kind = "restart")
         \/ req[r].state = "push" /\ step = "done" /\ r \in transport'[req[r].on].pending
         \/ req[r].state = "close" /\ step = "done" /\ transport'[req[r].on].signaling = "closed"
  PROVE  IInv'
<1>1. Types /\ Stage(req[r]) /\ transport \in [Transports -> TransportStates]
  BY DEF IInv, Types, Stages
<1>2. /\ req' \in [Requests -> RequestStates] /\ \A u \in Requests \ {r} : req'[u] = req[u]
      /\ req'[r].state = step /\ req'[r].kind = req[r].kind /\ req'[r].tag = req[r].tag
      /\ req'[r].on = req[r].on /\ req'[r].set = req[r].set /\ req'[r].to = req[r].to
      /\ req'[r].crossed = req[r].crossed /\ req'[r].met = req[r].met
      /\ req'[r].unsure = req[r].unsure
  BY <1>1, ToIs
<1>3. /\ req[r].state \in {"create", "local"} => req[r].set /\ req[r].kind \in Updates /\ req[r].tag = NoETag
      /\ req[r].state = "push" => req[r].kind \in {"direct", "trickle"} /\ ~req[r].set
      /\ req[r].state = "close" => req[r].kind = "delete" /\ ~req[r].set /\ req[r].tag = NoETag
  BY <1>1 DEF Stage, Updates
<1>4. Types'
  BY <1>1, <1>2 DEF Types
<1>5. Counts'
  <2>1. \A q \in Requests : (req[q].state = "done" => req'[q].state = "done")
                            /\ (req[q].state # "new" => req'[q].state # "new")
    BY <1>2
  <2> QED BY <1>1, <2>1, CountsStay DEF IInv
<1>6. Stages'
  <2> DEFINE q == req'[r]
  <2>1. /\ q.on \in 0 .. opened /\ q.on # 0 /\ (q.tag # NoETag => q.kind = "trickle")
        /\ q.set => q.kind \in Updates
    BY <1>1, <1>2 DEF Stage
  <2>2. q.state = "add" => q.kind = "restart" /\ q.set
    BY <1>2, <1>3
  <2>3. q.state \in {"failed", "tag"} => q.set
    BY <1>2, <1>3
  <2>4. q.state = "done" => q.kind \notin Updates
    BY <1>2, <1>3 DEF Updates
  <2>5. q.state \in {"add", "tag", "failed", "done"}
    BY <1>2
  <2>6. Stage(req[r])'
    BY <2>1, <2>2, <2>3, <2>4, <2>5 DEF Stage
  <2>7. \A u \in Requests \ {r} : Stage(req[u])'
    BY <1>2 DEF IInv, Stages, Stage
  <2> QED BY <2>6, <2>7 DEF Stages
<1>7. req[r].set => step # "done"
  BY <1>3
<1>8. \A q \in Requests : (Active(q)' => Active(q)) /\ req'[q].set = req[q].set /\ req'[q].on = req[q].on
                          /\ req'[q].kind = req[q].kind /\ req'[q].tag = req[q].tag
                          /\ req'[q].to = req[q].to /\ req'[q].crossed = req[q].crossed
                          /\ req'[q].met = req[q].met /\ req'[q].unsure = req[q].unsure
  BY <1>2 DEF Active, Over
<1>9. Kept'
  <2>1. \A q \in Requests : req[q].set => req[q].on \in Transports
    BY OnTransport DEF IInv, Stages, Stage
  <2>2. ASSUME NEW t \in Transports
        PROVE  /\ transport'[t].lock # None =>
                    /\ req'[transport'[t].lock].on = t
                    /\ req'[transport'[t].lock].state \in {"create", "local"}
               /\ \A q \in transport'[t].pending : req'[q].on = t /\ req'[q].state = "done"
    <3>1. transport'[t].lock # None =>
            transport'[t].lock = transport[t].lock /\ transport[t].lock \in Requests \ {r}
      BY <1>1 DEF TransportStates
    <3>2. \A q \in transport'[t].pending : q = r \/ (q \in transport[t].pending /\ q \in Requests \ {r})
      BY <1>1 DEF TransportStates
    <3> QED BY <1>2, <3>1, <3>2 DEF IInv, Kept
  <2>3. ASSUME NEW t \in Transports, transport'[t].remote # None
        PROVE  req'[transport'[t].remote].set /\ req'[transport'[t].remote].on = t
    <3>1. transport[t].remote \in Requests
      BY <1>1, <2>3 DEF TransportStates
    <3> QED BY <1>8, <2>3, <3>1 DEF IInv, Kept
  <2> QED BY <1>8, <2>1, <2>2, <2>3 DEF IInv, Kept
<1>10. Uncrossed'
  <2>1. \A q \in Requests : req[q].set => req[q].on \in Transports
    BY OnTransport DEF IInv, Stages, Stage
  <2> QED BY <1>8, <2>1 DEF IInv, Uncrossed
<1>11. Given'
  <2>1. \A g \in given : g.for \in Requests \ {r} /\ g.on \in Transports
    <3>1. \A g \in given : g.for \in Requests /\ req[g.for].state = "done" /\ req[g.for].on = g.on
                           /\ req[g.for].on # 0
      BY DEF IInv, Given, Stages, Stage
    <3> QED BY <3>1, OnTransport DEF IInv
  <2>2. \A t \in Transports, u \in Requests :
          transport'[t].remote = u /\ req'[u].state = "done" =>
            transport[t].remote = u /\ req[u].state = "done"
    <3>1. \A t \in Transports : transport[t].remote = r => req[r].set
      BY WhipAssumption DEF IInv, Kept
    <3> QED BY <1>2, <1>7, <3>1
  <2>3. ASSUME NEW g \in given
        PROVE  /\ g.for \in Requests /\ req'[g.for].state = "done" /\ req'[g.for].set /\ req'[g.for].on = g.on
               /\ g.tag # 0 /\ g.lives <= lives /\ (g.lives = lives => g.tag <= counter)
               /\ g.lives = lives /\ g.tag = counter /\ ~g.crossed =>
                    \A u \in Requests : transport'[g.on].remote = u /\ req'[u].state = "done" => u = g.for
    BY <1>2, <2>1, <2>2 DEF IInv, Given
  <2> QED BY <2>3 DEF Given
<1>12. Meant'
  <2> SUFFICES ASSUME NEW q \in Requests, req'[q].tag # NoETag
               PROVE  /\ req'[q].tag \in given
                      /\ ~req'[q].crossed /\ ~req'[q].tag.crossed /\ ~req'[q].unsure =>
                           /\ Active(q)' => transport'[req'[q].tag.on].remote = req'[q].tag.for
                           /\ req'[q].on = req'[q].tag.on =>
                                /\ req'[q].state # "push" /\ req'[q].to \subseteq {req'[q].tag.for}
                                /\ \A t \in Transports : q \notin transport'[t].pending
    BY DEF Meant
  <2>1. req[q].tag \in given
    BY <1>8 DEF IInv, Meant
  <2>2. req[q].tag.on \in Transports
    <3>1. /\ req[q].tag.for \in Requests /\ req[req[q].tag.for].on = req[q].tag.on
          /\ req[req[q].tag.for].on # 0
      BY <2>1 DEF IInv, Given, Stages, Stage
    <3> QED BY <3>1, OnTransport DEF IInv
  <2>3. CASE q # r
    BY <1>2, <1>8, <2>2, <2>3 DEF IInv, Meant
  <2>4. CASE q = r
    <3>1. req[r].state = "push" /\ ~Active(r)'
      BY <1>2, <1>3, <2>4 DEF Active, Over
    <3> QED BY <1>2, <1>8, <2>1, <2>4, <3>1 DEF IInv, Meant
  <2> QED BY <2>3, <2>4
<1>13. Waits'
  <2> SUFFICES ASSUME NEW q \in Requests, req'[q].kind \in {"direct", "trickle"}, ~req'[q].crossed
               PROVE  /\ req'[q].state = "push" => transport'[req'[q].on].remote = None
                      /\ req'[q].state = "done" /\ req'[q].to = {} /\ endpoint = "whip" =>
                           /\ q \in transport'[req'[q].on].pending
                           /\ \A u \in Requests :
                                req'[u].set /\ req'[u].on = req'[q].on => req'[u].state = "lock"
    BY DEF Waits
  <2>1. CASE q = r
    <3>1. req[r].state = "push" /\ step = "done" /\ r \in transport'[req[r].on].pending
      BY <1>3, <1>8, <2>1 DEF Updates
    <3>2. transport[req[r].on].remote = None
      BY <1>8, <2>1, <3>1 DEF IInv, Waits
    <3>3. \A u \in Requests : req[u].set => req[u].on # req[r].on
      BY <3>2 DEF IInv, Kept
    <3> QED BY <1>2, <1>8, <2>1, <3>1, <3>3
  <2>2. CASE q # r
    <3>1. req'[q] = req[q] /\ (req[q].state \in {"push", "done"} => req[q].on \in Transports)
      BY <1>2, <2>2, OnTransport DEF IInv, Stages, Stage
    <3>2. \A u \in Requests : req[u].state = "lock" => req'[u].state = "lock"
      BY <1>2
    <3> QED BY <1>8, <3>1, <3>2 DEF IInv, Waits
  <2> QED BY <2>1, <2>2
<1>14. Deletes'
  <2> SUFFICES ASSUME NEW d \in Requests, req'[d].kind = "delete"
               PROVE  /\ req'[d].state = "done" => transport'[req'[d].on].signaling = "closed"
                      /\ Active(d)' => \A u \in Requests : Updating(u)' => req'[u].met
                      /\ IsOver(d)' => \A u \in Requests : Updating(u)' /\ ~req'[u].met =>
                           req'[u].state \in {"find", "set"} /\ req'[u].on \in {0, opened}
                      /\ Active(d)' \/ IsOver(d)' =>
                           counter = 0 \/ \E u \in Requests :
                             req'[u].kind \in Updates /\ req'[u].met /\ req'[u].state = "done"
    BY DEF Deletes
  <2>1. req[d].state = "done" => transport[req[d].on].signaling = "closed" /\ req[d].on \in Transports
    BY <1>8, OnTransport DEF IInv, Deletes, Stages, Stage
  <2>2. req'[d].state = "done" => transport'[req'[d].on].signaling = "closed"
    BY <1>2, <1>3, <1>8, <2>1 DEF Updates
  <2>3. \A u \in Requests : Updating(u)' => Updating(u) /\ req'[u].met = req[u].met
    BY <1>8 DEF Updating
  <2>4. IsOver(d)' => Active(d) \/ IsOver(d)
    BY <1>2 DEF IsOver, Active, Over
  <2>5. (\E u \in Requests : req[u].kind \in Updates /\ req[u].met /\ req[u].state = "done") =>
          \E u \in Requests : req'[u].kind \in Updates /\ req'[u].met /\ req'[u].state = "done"
    BY <1>2
  <2>6. \A u \in Requests : Updating(u)' /\ req[u].state \in {"find", "set"} => req'[u].state = req[u].state
    BY <1>2
  <2> QED BY <1>8, <2>2, <2>3, <2>4, <2>5, <2>6 DEF IInv, Deletes
<1> QED BY <1>4, <1>5, <1>6, <1>9, <1>10, <1>11, <1>12, <1>13, <1>14 DEF IInv

LEMMA PushKeeps ==
  ASSUME IInv, NEW r \in Requests, Push(r)
  PROVE  IInv'
<1> DEFINE on == req[r].on
<1>1. /\ req[r].state = "push" /\ req' = To(r, "done") /\ "done" \in States
      /\ transport' = [transport EXCEPT ![on].pending = @ \cup {r}]
      /\ UNCHANGED <<endpoint, session, opened, counter, lives, given>>
  BY DEF Push, States
<1>2. Types /\ on \in Transports
  BY <1>1, OnTransport DEF IInv, Stages, Stage
<1>3. /\ transport' \in [Transports -> TransportStates]
      /\ \A t \in Transports :
           /\ transport'[t].remote = transport[t].remote
           /\ transport'[t].signaling = transport[t].signaling
           /\ transport'[t].lock = transport[t].lock
           /\ transport'[t].pending = transport[t].pending \cup (IF t = on THEN {r} ELSE {})
  BY <1>1, <1>2 DEF Types, TransportStates
<1>4. \A t \in Transports : /\ transport[t].lock # r \/ transport[t].lock = None
                            /\ r \notin transport[t].pending
  BY <1>1 DEF IInv, Kept
<1>5. r \in transport'[on].pending
  BY <1>2, <1>3
<1>6. \A t \in Transports :
        /\ transport[t].signaling = "closed" => transport'[t].signaling = "closed"
        /\ transport'[t].lock = None \/
             (transport'[t].lock = transport[t].lock /\ transport[t].lock # r)
        /\ transport[t].pending \subseteq transport'[t].pending
        /\ transport'[t].pending \subseteq transport[t].pending \cup {r}
        /\ r \in transport'[t].pending => t = on
  BY <1>3, <1>4
<1> QED BY <1>1, <1>3, <1>5, <1>6, AtTransport

LEMMA CloseKeeps ==
  ASSUME IInv, NEW r \in Requests, Close(r)
  PROVE  IInv'
<1> DEFINE on == req[r].on
<1>1. /\ req[r].state = "close" /\ req' = To(r, "done") /\ "done" \in States
      /\ transport' = [transport EXCEPT ![on].signaling = "closed"]
      /\ UNCHANGED <<endpoint, session, opened, counter, lives, given>>
  BY DEF Close, States
<1>2. Types /\ on \in Transports
  BY <1>1, OnTransport DEF IInv, Stages, Stage
<1>3. /\ transport' \in [Transports -> TransportStates]
      /\ \A t \in Transports :
           /\ transport'[t].remote = transport[t].remote
           /\ transport'[t].signaling = IF t = on THEN "closed" ELSE transport[t].signaling
           /\ transport'[t].lock = transport[t].lock
           /\ transport'[t].pending = transport[t].pending
  BY <1>1, <1>2 DEF Types, TransportStates
<1>4. \A t \in Transports : /\ transport[t].lock # r \/ transport[t].lock = None
                            /\ r \notin transport[t].pending
  BY <1>1 DEF IInv, Kept
<1> QED BY <1>1, <1>2, <1>3, <1>4, AtTransport

\* What unlocking pending_candidates is.
LEMMA UnlockIs ==
  ASSUME Types, NEW r \in Requests
  PROVE  /\ Unlock(r) \in [Transports -> TransportStates]
         /\ \A t \in Transports :
              /\ Unlock(r)[t].remote = transport[t].remote
              /\ Unlock(r)[t].signaling = transport[t].signaling
              /\ Unlock(r)[t].pending = transport[t].pending
              /\ Unlock(r)[t].lock = IF t = req[r].on /\ transport[t].lock = r THEN None
                                     ELSE transport[t].lock
<1>1. transport \in [Transports -> TransportStates]
  BY DEF Types
<1>2. CASE req[r].on \notin Transports
  BY <1>1, <1>2 DEF Unlock
<1>3. CASE req[r].on \in Transports
  <2>1. Unlock(r) = [transport EXCEPT ![req[r].on] =
                      [transport[req[r].on] EXCEPT
                         !.lock = IF transport[req[r].on].lock = r THEN None
                                  ELSE transport[req[r].on].lock]]
    BY <1>1 DEF Unlock
  <2> QED BY <1>1, <1>3, <2>1 DEF TransportStates
<1> QED BY <1>2, <1>3

LEMMA AnswerFailsKeeps ==
  ASSUME IInv, NEW r \in Requests, AnswerFails(r)
  PROVE  IInv'
<1>1. /\ req[r].state \in {"create", "local"} /\ req' = Failed(r) /\ transport' = Unlock(r)
      /\ UNCHANGED <<endpoint, session, opened, counter, lives, given>>
      /\ "failed" \in States
  BY DEF AnswerFails, States
<1>2. Types /\ req[r].set /\ req \in [Requests -> RequestStates]
  BY <1>1 DEF IInv, Types, Stages, Stage
<1>3. req' = To(r, "failed")
  BY <1>1, <1>2 DEF Failed, To, RequestStates
<1>4. \A t \in Transports : /\ r \notin transport[t].pending
                            /\ transport[t].lock = r /\ r # None => t = req[r].on
  BY <1>1 DEF IInv, Kept
<1>5. /\ transport' \in [Transports -> TransportStates]
      /\ \A t \in Transports :
           /\ transport'[t].remote = transport[t].remote
           /\ transport'[t].signaling = transport[t].signaling
           /\ transport'[t].pending = transport[t].pending
           /\ transport'[t].lock = None \/
                (transport'[t].lock = transport[t].lock /\ transport[t].lock # r)
  BY <1>1, <1>2, <1>4, UnlockIs, WhipAssumption
<1> QED BY <1>1, <1>3, <1>4, <1>5, AtTransport

LEMMA SetLocalKeeps ==
  ASSUME IInv, NEW r \in Requests, SetLocal(r)
  PROVE  IInv'
<1> DEFINE on == req[r].on
           step == IF req[r].kind = "post" THEN "tag" ELSE "add"
<1>1. /\ req[r].state = "local" /\ transport[on].signaling = "offered" /\ req' = To(r, step)
      /\ transport' = [Unlock(r) EXCEPT ![on].signaling = "stable"]
      /\ UNCHANGED <<endpoint, session, opened, counter, lives, given>>
  BY DEF SetLocal, Offered, pc
<1>2. Types /\ Stage(req[r])
  BY DEF IInv, Stages
<1>3. req[r].kind \in Updates /\ req[r].on # 0
  BY <1>1, <1>2 DEF Stage
<1>4. on \in Transports
  BY <1>3, OnTransport DEF IInv
<1>5. step \in States /\ step \in {"add", "tag"} /\ (step = "add" => req[r].kind = "restart")
  BY <1>3 DEF States, Updates
<1>6. \A t \in Transports : /\ r \notin transport[t].pending
                            /\ transport[t].lock = r /\ r # None => t = on
  BY <1>1 DEF IInv, Kept
<1>7. /\ transport' \in [Transports -> TransportStates]
      /\ \A t \in Transports :
           /\ transport'[t].remote = Unlock(r)[t].remote
           /\ transport'[t].signaling = IF t = on THEN "stable" ELSE Unlock(r)[t].signaling
           /\ transport'[t].pending = Unlock(r)[t].pending
           /\ transport'[t].lock = Unlock(r)[t].lock
  <2>1. Unlock(r) \in [Transports -> TransportStates]
    BY <1>2, UnlockIs
  <2> DEFINE u == Unlock(r)
  <2> HIDE DEF u
  <2> QED BY <1>1, <1>4, <2>1 DEF TransportStates
<1>8. \A t \in Transports :
        /\ transport'[t].remote = transport[t].remote
        /\ transport[t].signaling = "closed" => transport'[t].signaling = "closed"
        /\ transport'[t].pending = transport[t].pending
        /\ transport'[t].lock = None \/
             (transport'[t].lock = transport[t].lock /\ transport[t].lock # r)
  BY <1>1, <1>2, <1>6, <1>7, UnlockIs, WhipAssumption
<1> HIDE DEF on, step
<1> QED BY <1>1, <1>5, <1>6, <1>7, <1>8, AtTransport DEF on

\* A DELETE resets the counter, and meets every request under way.
LEMMA DeleteKeeps ==
  ASSUME IInv, NEW r \in Requests, Delete(r)
  PROVE  IInv'
<1> DEFINE arrived == Arrives(r, "delete")
<1>1. /\ req[r].state = "new" /\ counter' = 0 /\ lives' = lives + 1
      /\ req' = [q \in Requests |-> IF q = r THEN arrived[r]
                                    ELSE [req[q] EXCEPT !.met = @ \/ Active(q)]]
      /\ UNCHANGED <<endpoint, session, opened, given, transport>>
  BY DEF Delete, MaySend, Removed
<1>2. Types /\ req \in [Requests -> RequestStates] /\ lives \in Nat
  BY DEF IInv, Types
<1>3. /\ req[r] = NotSent /\ arrived[r] = [NotSent EXCEPT !.kind = "delete", !.state = "find"]
      /\ arrived[r] \in RequestStates
  BY <1>1, ArrivesIs DEF Kinds
<1> HIDE DEF arrived
<1>4. /\ req'[r] \in RequestStates /\ req'[r].state = "find" /\ req'[r].kind = "delete"
      /\ req'[r].tag = NoETag /\ req'[r].on = 0 /\ req'[r].set = FALSE /\ req[r].set = FALSE
      /\ req'[r].to = {}
  <2>1. req'[r] = arrived[r]
    BY <1>1
  <2> QED BY <1>3, <2>1 DEF NotSent
<1>5. \A q \in Requests \ {r} :
        /\ req'[q].set = req[q].set /\ req'[q].state = req[q].state /\ req'[q].kind = req[q].kind
        /\ req'[q].tag = req[q].tag /\ req'[q].on = req[q].on /\ req'[q].to = req[q].to
        /\ req'[q].crossed = req[q].crossed /\ req'[q].unsure = req[q].unsure
        /\ req'[q] \in RequestStates
        /\ (req'[q].met <=> req[q].met \/ Active(q))
        /\ (~Active(q) => req'[q] = req[q])
  <2> SUFFICES ASSUME NEW q \in Requests \ {r}
               PROVE  /\ req'[q].set = req[q].set /\ req'[q].state = req[q].state
                      /\ req'[q].kind = req[q].kind /\ req'[q].tag = req[q].tag
                      /\ req'[q].on = req[q].on /\ req'[q].to = req[q].to
                      /\ req'[q].crossed = req[q].crossed /\ req'[q].unsure = req[q].unsure
                      /\ req'[q] \in RequestStates
                      /\ (req'[q].met <=> req[q].met \/ Active(q))
                      /\ (~Active(q) => req'[q] = req[q])
    OBVIOUS
  <2>1. PICK c \in BOOLEAN : /\ c = (req[q].met \/ Active(q))
                             /\ req'[q] = [req[q] EXCEPT !.met = c]
    BY <1>1
  <2>2. req[q] \in RequestStates /\ req[q].met \in BOOLEAN
    BY <1>2 DEF RequestStates
  <2>3. /\ \A d \in BOOLEAN : [req[q] EXCEPT !.met = d] \in RequestStates
        /\ [req[q] EXCEPT !.met = req[q].met] = req[q]
    BY <2>2 DEF RequestStates
  <2>4. ~Active(q) => c = req[q].met
    BY <2>1, <2>2
  <2>5. req'[q].met = c
    BY <2>1, <2>2 DEF RequestStates
  <2> QED BY <2>1, <2>2, <2>3, <2>4, <2>5 DEF RequestStates
<1>6. /\ ~Active(r) /\ ~Updating(r)'
      /\ \A q \in Requests \ {r} : (Active(q)' <=> Active(q)) /\ (Updating(q)' <=> Updating(q))
  BY <1>1, <1>4, <1>5 DEF Active, Updating, Over, Updates
<1>7. Types'
  <2>1. req' \in [Requests -> RequestStates]
    <3>1. \A q \in Requests : req'[q] \in RequestStates
      BY <1>4, <1>5
    <3> QED BY <1>1, <3>1
  <2>2. counter' \in Nat /\ lives' \in Nat
    BY <1>1, <1>2
  <2> QED BY <1>1, <1>2, <2>1, <2>2 DEF Types
<1>8. Counts'
  <2> DEFINE Done == {q \in Requests : req[q].state = "done"}
             Begun == {q \in Requests : req[q].state # "new"}
  <2>1. /\ Done' \subseteq Requests /\ Begun \subseteq Requests /\ Begun' \subseteq Requests
        /\ Begun \subseteq Begun' /\ r \in Begun' /\ r \notin Begun
    BY <1>1, <1>4, <1>5
  <2>2. /\ Cardinality(Done') \in Nat /\ Cardinality(Begun) \in Nat /\ Cardinality(Begun') \in Nat
        /\ Cardinality(Begun) < Cardinality(Begun')
    BY <2>1, OneMore
  <2>3. lives <= Cardinality(Begun)
    BY DEF IInv, Counts
  <2> HIDE DEF Done, Begun
  <2>4. counter' <= Cardinality(Done') /\ lives' <= Cardinality(Begun')
    BY <1>1, <1>2, <2>2, <2>3
  <2> QED BY <2>4 DEF Counts, Done, Begun
<1>9. Stages'
  <2>1. Stage(req[r])'
    BY <1>1, <1>4 DEF Stage, IInv, Types, Updates
  <2>2. ASSUME NEW q \in Requests \ {r} PROVE Stage(req[q])'
    <3>1. Stage(req[q]) /\ endpoint' = endpoint /\ opened' = opened
      BY <1>1 DEF IInv, Stages
    <3>2. CASE Active(q)
      <4>1. req[q].state \notin {"new", "done", "failed"}
        BY <3>2 DEF Active, Over
      <4> QED BY <1>5, <3>1, <4>1 DEF Stage
    <3>3. CASE ~Active(q)
      BY <1>5, <3>1, <3>3 DEF Stage
    <3> QED BY <3>2, <3>3
  <2> QED BY <2>1, <2>2 DEF Stages
<1>10. Kept'
  <2>1. \A t \in Transports :
          /\ transport[t].lock \in Requests \cup {None} /\ transport[t].lock # r
          /\ transport[t].remote \in Requests \cup {None} /\ transport[t].remote # r
          /\ transport[t].pending \subseteq Requests \ {r}
    BY <1>1, <1>2, <1>4, WhipAssumption DEF IInv, Kept, Types, TransportStates
  <2> QED BY <1>1, <1>4, <1>5, <2>1 DEF IInv, Kept
<1>11. Uncrossed'
  BY <1>1, <1>4, <1>5, <1>6 DEF IInv, Uncrossed
<1>12. Given'
  <2> SUFFICES ASSUME NEW g \in given
               PROVE  /\ g.for \in Requests /\ req'[g.for].state = "done" /\ req'[g.for].set
                      /\ req'[g.for].on = g.on /\ g.tag # 0 /\ g.lives <= lives' /\ g.lives # lives'
    BY <1>1 DEF Given
  <2>1. g.lives \in Nat
    BY <1>2 DEF Types, ETags
  <2>2. g.for \in Requests \ {r}
    BY <1>1 DEF IInv, Given
  <2> QED BY <1>1, <1>2, <1>5, <2>1, <2>2 DEF IInv, Given
<1>13. Meant'
  BY <1>1, <1>4, <1>5, <1>6 DEF IInv, Meant
<1>14. Waits'
  BY <1>1, <1>4, <1>5 DEF IInv, Waits
<1>15. Deletes'
  <2>1. \A u \in Requests : Updating(u)' => req'[u].met
    BY <1>5, <1>6 DEF Updating
  <2>2. \A d \in Requests : req'[d].state = "done" => d # r /\ req[d].state = "done"
    BY <1>4, <1>5
  <2> QED BY <1>1, <1>5, <2>1, <2>2 DEF IInv, Deletes
<1> QED BY <1>7, <1>8, <1>9, <1>10, <1>11, <1>12, <1>13, <1>14, <1>15 DEF IInv

\* A request is done with its offer: the ETag is the last given, and if no other offer
\* was set meanwhile, this one is the remote description.
LEMMA TagKeeps ==
  ASSUME IInv, NEW r \in Requests, Tag(r)
  PROVE  IInv'
<1> DEFINE new == [tag |-> counter', for |-> r, on |-> req[r].on, lives |-> lives,
                   crossed |-> req[r].crossed]
<1>1. /\ req[r].state = "tag" /\ counter' = counter + 1 /\ given' = given \cup {new}
      /\ req' = To(r, "done") /\ "done" \in States
      /\ UNCHANGED <<endpoint, session, opened, lives, transport>>
  BY DEF Tag, Incremented, States
<1>2. Types /\ Stage(req[r]) /\ req[r] \in RequestStates /\ counter \in Nat /\ lives \in Nat
      /\ given \subseteq ETags
  BY DEF IInv, Types, Stages
<1>3. /\ req' \in [Requests -> RequestStates] /\ \A u \in Requests \ {r} : req'[u] = req[u]
      /\ req'[r].state = "done" /\ req'[r].kind = req[r].kind /\ req'[r].tag = req[r].tag
      /\ req'[r].on = req[r].on /\ req'[r].set = req[r].set /\ req'[r].to = req[r].to
      /\ req'[r].crossed = req[r].crossed /\ req'[r].met = req[r].met
      /\ req'[r].unsure = req[r].unsure
  BY <1>1, <1>2, ToIs
<1>4. /\ req[r].set /\ req[r].kind \in Updates /\ req[r].tag = NoETag /\ req[r].on # 0
      /\ req[r].on \in 0 .. opened
  BY <1>1, <1>2 DEF Stage, Updates
<1>5. /\ new \in ETags /\ new.tag = counter + 1 /\ new.for = r /\ new.on = req[r].on
      /\ new.lives = lives /\ new.crossed = req[r].crossed
  BY <1>1, <1>2 DEF ETags, RequestStates
<1> HIDE DEF new
<1>6. Types'
  BY <1>1, <1>2, <1>3, <1>5 DEF Types
<1>7. Counts'
  <2> DEFINE Done == {q \in Requests : req[q].state = "done"}
             Begun == {q \in Requests : req[q].state # "new"}
  <2>1. /\ Done \subseteq Requests /\ Done' \subseteq Requests /\ Begun \subseteq Requests
        /\ Begun' \subseteq Requests /\ Begun \subseteq Begun'
        /\ Done \subseteq Done' /\ r \in Done' /\ r \notin Done
    BY <1>1, <1>3
  <2>2. /\ Cardinality(Done) \in Nat /\ Cardinality(Done') \in Nat /\ Cardinality(Begun) \in Nat
        /\ Cardinality(Begun') \in Nat /\ Cardinality(Begun) <= Cardinality(Begun')
        /\ Cardinality(Done) < Cardinality(Done')
    BY <2>1, OneMore
  <2>3. lives <= Cardinality(Begun) /\ counter <= Cardinality(Done)
    BY DEF IInv, Counts
  <2> HIDE DEF Done, Begun
  <2>4. counter' <= Cardinality(Done') /\ lives' <= Cardinality(Begun')
    BY <1>1, <1>2, <2>2, <2>3
  <2> QED BY <2>4 DEF Counts, Done, Begun
<1>8. Stages'
  <2>1. Stage(req[r])'
    BY <1>1, <1>2, <1>3, <1>4 DEF Stage
  <2>2. \A q \in Requests \ {r} : Stage(req[q])'
    BY <1>1, <1>3 DEF IInv, Stages, Stage
  <2> QED BY <2>1, <2>2 DEF Stages
<1>9. Kept'
  <2>1. \A t \in Transports :
          /\ transport[t].lock \in Requests \cup {None}
          /\ transport[t].lock # r \/ transport[t].lock = None
          /\ transport[t].remote \in Requests \cup {None}
          /\ transport[t].pending \subseteq Requests \ {r}
    BY <1>1, <1>2 DEF IInv, Kept, Types, TransportStates
  <2> QED BY <1>1, <1>3, <2>1 DEF IInv, Kept
<1>10. Uncrossed'
  BY <1>1, <1>3 DEF IInv, Uncrossed, Active, Over
<1>11. Given'
  <2> SUFFICES ASSUME NEW g \in given'
               PROVE  /\ g.for \in Requests /\ req'[g.for].state = "done" /\ req'[g.for].set
                      /\ req'[g.for].on = g.on /\ g.tag # 0 /\ g.lives <= lives
                      /\ (g.lives = lives => g.tag <= counter')
                      /\ g.lives = lives /\ g.tag = counter' /\ ~g.crossed =>
                           \A u \in Requests : transport[g.on].remote = u /\ req'[u].state = "done" => u = g.for
    BY <1>1 DEF Given
  <2>1. CASE g = new
    <3>1. ~req[r].crossed => transport[req[r].on].remote = r
      BY <1>1, <1>4 DEF IInv, Uncrossed, Active, Over
    <3>2. g.tag # 0 /\ g.lives <= lives /\ g.tag <= counter'
      BY <1>1, <1>2, <1>5, <2>1
    <3>3. g.for = r /\ g.on = req[r].on /\ (~g.crossed => ~req[r].crossed)
      BY <1>5, <2>1
    <3> QED BY <1>3, <1>4, <3>1, <3>2, <3>3
  <2>2. CASE g \in given
    <3>1. g.tag \in Nat /\ g.lives \in Nat
      BY <1>2, <2>2 DEF ETags
    <3>2. g.for \in Requests \ {r}
      BY <1>1, <2>2 DEF IInv, Given
    <3> QED BY <1>1, <1>2, <1>3, <2>2, <3>1, <3>2 DEF IInv, Given
  <2> QED BY <1>1, <2>1, <2>2
<1>12. Meant'
  BY <1>1, <1>3, <1>4 DEF IInv, Meant, Active
<1>13. Waits'
  <2>1. \A q \in Requests \ {r}, u \in Requests :
          req'[q] = req[q] /\ req'[u].set = req[u].set /\ req'[u].on = req[u].on
          /\ (req[u].state = "lock" => req'[u].state = "lock")
    BY <1>1, <1>3
  <2>2. req'[r].kind \notin {"direct", "trickle"}
    BY <1>3, <1>4 DEF Updates
  <2> QED BY <1>1, <2>1, <2>2 DEF IInv, Waits
<1>14. Deletes'
  <2>1. Updating(r) /\ req'[r].kind # "delete"
    BY <1>1, <1>3, <1>4 DEF Updating, Active, Over, Updates
  <2>2. \A u \in Requests : Updating(u)' => Updating(u) /\ u # r
    BY <1>3 DEF Updating, Active, Over
  <2>3. \A d \in Requests : req[d].kind = "delete" /\ (Active(d) \/ IsOver(d)) => req[r].met
    BY <1>1, <2>1 DEF IInv, Deletes
  <2>4. \A d \in Requests : req'[d].kind = "delete" =>
          d # r /\ req'[d] = req[d] /\ (Active(d)' <=> Active(d)) /\ (IsOver(d)' <=> IsOver(d))
    BY <1>1, <1>3, <2>1 DEF Active, IsOver
  <2> QED BY <1>1, <1>3, <1>4, <2>2, <2>3, <2>4 DEF IInv, Deletes
<1> QED BY <1>6, <1>7, <1>8, <1>9, <1>10, <1>11, <1>12, <1>13, <1>14 DEF IInv

\* The first request to find pending_candidates unlocked adds those that wait there.
LEMMA LockKeeps ==
  ASSUME IInv, NEW r \in Requests, Lock(r)
  PROVE  IInv'
<1> DEFINE on == req[r].on
           remote == transport[on].remote
           flushed == transport[on].pending
<1>1. /\ req[r].state = "lock" /\ transport[on].lock = None
      /\ transport' = [transport EXCEPT ![on].lock = r]
      /\ UNCHANGED <<endpoint, session, opened, counter, lives, given>>
  BY DEF Lock, pc
<1>2. req' = [q \in Requests |->
                 [req[q] EXCEPT !.to = IF q \in flushed THEN @ \cup {remote} ELSE @,
                                !.state = IF q = r THEN "create" ELSE @]]
  BY DEF Lock, Flushed, pc
<1>3. Types /\ Stage(req[r]) /\ req \in [Requests -> RequestStates]
      /\ transport \in [Transports -> TransportStates]
  BY DEF IInv, Types, Stages
<1>4. req[r].set /\ req[r].kind \in Updates /\ req[r].tag = NoETag /\ on # 0 /\ on \in Transports
  <2>1. req[r].set /\ req[r].kind \in Updates /\ req[r].tag = NoETag /\ on # 0
    BY <1>1, <1>3 DEF Stage, Updates
  <2> QED BY <2>1, OnTransport DEF IInv
<1>5. remote \in Requests
  <2>1. remote # None
    BY <1>4 DEF IInv, Kept
  <2> QED BY <1>3, <1>4, <2>1 DEF TransportStates
<1>6. \A q \in flushed : q \in Requests /\ q # r /\ req[q].on = on /\ req[q].state = "done"
  <2>1. flushed \subseteq Requests
    BY <1>3, <1>4 DEF TransportStates
  <2>2. \A q \in flushed : req[q].on = on /\ req[q].state = "done"
    BY <1>4 DEF IInv, Kept
  <2> QED BY <1>1, <2>1, <2>2
<1> HIDE DEF on, remote, flushed
<1>7. \A q \in Requests :
        /\ req'[q].set = req[q].set /\ req'[q].kind = req[q].kind /\ req'[q].tag = req[q].tag
        /\ req'[q].on = req[q].on /\ req'[q].crossed = req[q].crossed /\ req'[q].met = req[q].met
        /\ req'[q].unsure = req[q].unsure
        /\ (q = r => req'[q].state = "create") /\ (q # r => req'[q].state = req[q].state)
        /\ (q \in flushed => req'[q].to = req[q].to \cup {remote})
        /\ (q \notin flushed => req'[q].to = req[q].to)
        /\ req'[q] \in RequestStates
  <2> SUFFICES ASSUME NEW q \in Requests
               PROVE  /\ req'[q].set = req[q].set /\ req'[q].kind = req[q].kind
                      /\ req'[q].tag = req[q].tag /\ req'[q].on = req[q].on
                      /\ req'[q].crossed = req[q].crossed /\ req'[q].met = req[q].met
                      /\ req'[q].unsure = req[q].unsure
                      /\ (q = r => req'[q].state = "create") /\ (q # r => req'[q].state = req[q].state)
                      /\ (q \in flushed => req'[q].to = req[q].to \cup {remote})
                      /\ (q \notin flushed => req'[q].to = req[q].to)
                      /\ req'[q] \in RequestStates
    OBVIOUS
  <2> DEFINE to == IF q \in flushed THEN req[q].to \cup {remote} ELSE req[q].to
             state == IF q = r THEN "create" ELSE req[q].state
  <2>1. req[q] \in RequestStates
    BY <1>3
  <2>2. to \in SUBSET Requests /\ state \in States
    BY <1>5, <2>1 DEF RequestStates, States
  <2> HIDE DEF to, state
  <2>3. req'[q] = [req[q] EXCEPT !.to = to, !.state = state]
    BY <1>2, <2>1 DEF to, state, RequestStates
  <2>4. req'[q] \in RequestStates /\ req'[q].to = to /\ req'[q].state = state
    BY <2>1, <2>2, <2>3 DEF RequestStates
  <2>5. /\ req'[q].set = req[q].set /\ req'[q].kind = req[q].kind
        /\ req'[q].tag = req[q].tag /\ req'[q].on = req[q].on
        /\ req'[q].crossed = req[q].crossed /\ req'[q].met = req[q].met
        /\ req'[q].unsure = req[q].unsure
    BY <2>1, <2>3 DEF RequestStates
  <2> QED BY <2>4, <2>5 DEF to, state
<1>8. \A q \in Requests : (Active(q)' <=> Active(q)) /\ (Updating(q)' <=> Updating(q))
                          /\ (IsOver(q)' <=> IsOver(q))
                          /\ (req'[q].state = "done" <=> req[q].state = "done")
  BY <1>1, <1>7 DEF Active, Updating, Over, IsOver
<1>9. /\ \A t \in Transports :
           /\ transport'[t] \in TransportStates
           /\ transport'[t].lock = IF t = on THEN r ELSE transport[t].lock
           /\ transport'[t].pending = transport[t].pending
           /\ transport'[t].remote = transport[t].remote
           /\ transport'[t].signaling = transport[t].signaling
      /\ transport' \in [Transports -> TransportStates]
  BY <1>1, <1>3, <1>4 DEF TransportStates
<1>10. Types'
  <2>1. req' \in [Requests -> RequestStates]
    BY <1>2, <1>7
  <2> QED BY <1>1, <1>3, <1>9, <2>1 DEF Types
<1>11. Counts'
  <2>1. \A q \in Requests : (req[q].state = "done" => req'[q].state = "done")
                            /\ (req[q].state # "new" => req'[q].state # "new")
    BY <1>1, <1>7
  <2> QED BY <1>1, <1>3, <2>1, CountsStay DEF IInv
<1>12. Stages'
  <2>1. Stage(req[r])'
    <3>1. /\ req'[r].state = "create" /\ req'[r].set /\ req'[r].kind \in Updates
          /\ req'[r].tag = NoETag /\ req'[r].on = req[r].on
      BY <1>4, <1>7
    <3> QED BY <1>1, <1>3, <1>4, <3>1 DEF Stage, on
  <2>2. ASSUME NEW q \in Requests \ {r} PROVE Stage(req[q])'
    <3>1. Stage(req[q]) /\ endpoint' = endpoint /\ opened' = opened
      BY <1>1 DEF IInv, Stages
    <3>2. CASE q \in flushed
      <4>1. req[q].state = "done" /\ req'[q].state = "done"
        BY <1>6, <1>7, <3>2
      <4> QED BY <1>7, <3>1, <4>1 DEF Stage
    <3>3. CASE q \notin flushed
      <4>1. req'[q] = req[q]
        BY <1>1, <1>2, <1>3, <3>3 DEF RequestStates
      <4> QED BY <3>1, <4>1 DEF Stage
    <3> QED BY <3>2, <3>3
  <2> QED BY <2>1, <2>2 DEF Stages
<1>13. Kept'
  <2>1. \A q \in Requests : req[q].set => req[q].on \in Transports
    BY OnTransport DEF IInv, Stages, Stage
  <2>2. ASSUME NEW t \in Transports, transport'[t].lock # None
        PROVE  /\ req'[transport'[t].lock].on = t
               /\ req'[transport'[t].lock].state \in {"create", "local"}
    <3>1. CASE t = on
      BY <1>7, <1>9, <3>1 DEF on
    <3>2. CASE t # on
      <4>1. transport'[t].lock = transport[t].lock /\ transport[t].lock \in Requests \ {r}
        BY <1>1, <1>3, <1>9, <2>2, <3>2 DEF IInv, Kept, TransportStates
      <4> QED BY <1>7, <2>2, <4>1 DEF IInv, Kept
    <3> QED BY <3>1, <3>2
  <2>3. ASSUME NEW t \in Transports, NEW q \in transport'[t].pending
        PROVE  req'[q].on = t /\ req'[q].state = "done"
    <3>1. q \in Requests /\ q \in transport[t].pending
      BY <1>3, <1>9 DEF TransportStates
    <3> QED BY <1>7, <1>8, <3>1 DEF IInv, Kept
  <2>4. ASSUME NEW t \in Transports, transport'[t].remote # None
        PROVE  req'[transport'[t].remote].set /\ req'[transport'[t].remote].on = t
    <3>1. transport[t].remote \in Requests
      BY <1>3, <1>9, <2>4 DEF TransportStates
    <3> QED BY <1>7, <1>9, <2>4, <3>1 DEF IInv, Kept
  <2> QED BY <1>7, <1>9, <2>1, <2>2, <2>3, <2>4 DEF IInv, Kept
<1>14. Uncrossed'
  <2>1. \A q \in Requests : req[q].set => req[q].on \in Transports
    BY OnTransport DEF IInv, Stages, Stage
  <2> QED BY <1>7, <1>8, <1>9, <2>1 DEF IInv, Uncrossed
<1>15. \A g \in given : g.for \in Requests /\ g.on \in Transports
  <2>1. \A g \in given : g.for \in Requests /\ req[g.for].on = g.on /\ req[g.for].on # 0
    BY DEF IInv, Given, Stages, Stage
  <2> QED BY <2>1, OnTransport DEF IInv
<1>16. Given'
  BY <1>1, <1>7, <1>8, <1>9, <1>15 DEF IInv, Given
<1>17. Meant'
  <2> SUFFICES ASSUME NEW q \in Requests, req'[q].tag # NoETag
               PROVE  /\ req'[q].tag \in given
                      /\ ~req'[q].crossed /\ ~req'[q].tag.crossed /\ ~req'[q].unsure =>
                           /\ Active(q)' => transport'[req'[q].tag.on].remote = req'[q].tag.for
                           /\ req'[q].on = req'[q].tag.on =>
                                /\ req'[q].state # "push" /\ req'[q].to \subseteq {req'[q].tag.for}
                                /\ \A t \in Transports : q \notin transport'[t].pending
    BY <1>1 DEF Meant
  <2>1. req[q].tag \in given /\ q # r
    BY <1>4, <1>7 DEF IInv, Meant
  <2>2. \A t \in Transports : (q \in transport'[t].pending <=> q \in transport[t].pending)
    BY <1>9
  <2>3. q \in flushed => q \in transport[on].pending
    BY DEF flushed
  <2> QED BY <1>4, <1>7, <1>8, <1>9, <1>15, <2>1, <2>2, <2>3 DEF IInv, Meant
<1>18. Waits'
  <2> SUFFICES ASSUME NEW q \in Requests, req'[q].kind \in {"direct", "trickle"}, ~req'[q].crossed
               PROVE  /\ req'[q].state = "push" => transport'[req'[q].on].remote = None
                      /\ req'[q].state = "done" /\ req'[q].to = {} /\ endpoint = "whip" =>
                           /\ q \in transport'[req'[q].on].pending
                           /\ \A u \in Requests :
                                req'[u].set /\ req'[u].on = req'[q].on => req'[u].state = "lock"
    BY <1>1 DEF Waits
  <2>1. q # r
    BY <1>4, <1>7 DEF Updates
  <2>2. req[q].state \in {"push", "done"} => req[q].on \in Transports
    BY OnTransport DEF IInv, Stages, Stage
  <2>3. CASE req'[q].state = "push"
    BY <1>7, <1>9, <2>1, <2>2, <2>3 DEF IInv, Waits
  <2>4. CASE req'[q].state = "done" /\ req'[q].to = {} /\ endpoint = "whip"
    <3>1. q \notin flushed /\ req[q].to = {}
      BY <1>7, <2>4
    <3>2. q \in transport[req[q].on].pending
      BY <1>7, <2>4, <3>1 DEF IInv, Waits
    <3>3. req[q].on # on
      BY <3>1, <3>2 DEF flushed
    <3>4. \A u \in Requests : req'[u].set /\ req'[u].on = req'[q].on => req'[u].state = "lock"
      BY <1>7, <2>4, <3>1, <3>3 DEF IInv, Waits, on
    <3> QED BY <1>7, <1>9, <2>1, <2>2, <2>4, <3>2, <3>4
  <2> QED BY <2>3, <2>4
<1>19. Deletes'
  <2> SUFFICES ASSUME NEW d \in Requests, req'[d].kind = "delete"
               PROVE  /\ req'[d].state = "done" => transport'[req'[d].on].signaling = "closed"
                      /\ Active(d)' => \A u \in Requests : Updating(u)' => req'[u].met
                      /\ IsOver(d)' => \A u \in Requests : Updating(u)' /\ ~req'[u].met =>
                           req'[u].state \in {"find", "set"} /\ req'[u].on \in {0, opened}
                      /\ Active(d)' \/ IsOver(d)' =>
                           counter = 0 \/ \E u \in Requests :
                             req'[u].kind \in Updates /\ req'[u].met /\ req'[u].state = "done"
    BY <1>1 DEF Deletes
  <2>1. req[d].state = "done" => transport[req[d].on].signaling = "closed" /\ req[d].on \in Transports
    BY <1>7, OnTransport DEF IInv, Deletes, Stages, Stage
  <2>2. \A u \in Requests : req[u].state \in {"find", "set"} => req'[u].state = req[u].state
    BY <1>1, <1>7
  <2>3. (\E u \in Requests : req[u].kind \in Updates /\ req[u].met /\ req[u].state = "done") =>
          \E u \in Requests : req'[u].kind \in Updates /\ req'[u].met /\ req'[u].state = "done"
    BY <1>7, <1>8
  <2> QED BY <1>7, <1>8, <1>9, <2>1, <2>2, <2>3 DEF IInv, Deletes
<1> QED BY <1>10, <1>11, <1>12, <1>13, <1>14, <1>16, <1>17, <1>18, <1>19 DEF IInv

-----------------------------------------------------------------------------
(* The theorems *)

LEMMA InitInv == Init => IInv
<1> SUFFICES ASSUME Init PROVE IInv
  OBVIOUS
<1>1. /\ req \in [Requests -> RequestStates] /\ transport \in [Transports -> TransportStates]
      /\ \A r \in Requests : req[r] = NotSent
      /\ \A t \in Transports : transport[t] = Fresh
  BY DEF Init, RequestStates, NotSent, States, Kinds, ETags, NoETag, TransportStates, Fresh
<1>2. Types
  BY <1>1, WhipAssumption DEF Init, Types
<1>3. Counts
  <2>1. Cardinality({r \in Requests : req[r].state = "done"}) \in Nat
        /\ Cardinality({r \in Requests : req[r].state # "new"}) \in Nat
    BY OneMore
  <2> QED BY <2>1 DEF Init, Counts
<1>4. Stages
  BY <1>1, <1>2 DEF Stages, Stage, NotSent, Types, Updates, None
<1>5. Kept /\ Uncrossed /\ Given /\ Meant /\ Waits /\ Deletes
  BY <1>1 DEF Init, Kept, Uncrossed, Given, Meant, Waits, Deletes, NotSent, Fresh, None, Active, Over
<1> QED BY <1>2, <1>3, <1>4, <1>5 DEF IInv

LEMMA StepInv == IInv /\ [Next]_vars => IInv'
<1> SUFFICES ASSUME IInv, [Next]_vars PROVE IInv'
  OBVIOUS
<1>1. CASE OpenSession \/ EndSession \/ UNCHANGED vars
  BY <1>1, SessionKeeps
<1>2. ASSUME NEW r \in Requests,
             \/ Post(r) \/ PatchAny(r) \/ Patch(r) \/ Direct(r) \/ Delete(r)
             \/ Find(r) \/ NotFound(r) \/ OfferFails(r) \/ SetRemote(r)
             \/ Lock(r) \/ CreateAnswer(r) \/ SetLocal(r) \/ AnswerFails(r)
             \/ Add(r) \/ AddFails(r) \/ FindNone(r) \/ Push(r) \/ Tag(r) \/ Close(r)
      PROVE  IInv'
  BY <1>2, PostKeeps, PatchAnyKeeps, PatchKeeps, DirectKeeps, DeleteKeeps, FindKeeps,
     NotFoundKeeps, OfferFailsKeeps, SetRemoteKeeps, LockKeeps, CreateAnswerKeeps, SetLocalKeeps,
     AnswerFailsKeeps, AddKeeps, AddFailsKeeps, FindNoneKeeps, PushKeeps, TagKeeps, CloseKeeps
<1> QED BY <1>1, <1>2 DEF Next

\* What the invariants below rest on.
THEOREM Inductive == Spec => []IInv
BY InitInv, StepInv, PTL DEF Spec

\* The requests and transports have their types, whoever has pending_candidates locked
\* is about to answer, and neither the counter nor the resets outnumber the requests.
THEOREM TypeCorrect == Spec => []TypeOK
<1>1. IInv => TypeOK
  <2> SUFFICES ASSUME IInv PROVE TypeOK
    OBVIOUS
  <2>1. /\ opened \in Nat /\ session \in 0 .. opened
        /\ endpoint \in {"whip", "whep"} /\ opened \in 0 .. MaxTransports
    BY WhipAssumption DEF IInv, Types
  <2>2. counter \in 0 .. Cardinality(Requests) /\ lives \in 0 .. Cardinality(Requests)
    <3> DEFINE Done == {r \in Requests : req[r].state = "done"}
               Begun == {r \in Requests : req[r].state # "new"}
    <3>1. Done \subseteq Requests /\ Begun \subseteq Requests
      OBVIOUS
    <3>2. /\ Cardinality(Done) \in Nat /\ Cardinality(Begun) \in Nat /\ Cardinality(Requests) \in Nat
          /\ Cardinality(Done) <= Cardinality(Requests) /\ Cardinality(Begun) <= Cardinality(Requests)
      BY <3>1, OneMore
    <3>3. counter <= Cardinality(Done) /\ lives <= Cardinality(Begun) /\ counter \in Nat /\ lives \in Nat
      BY DEF IInv, Counts, Types
    <3> HIDE DEF Done, Begun
    <3> QED BY <3>2, <3>3
  <2>3. \A r \in Requests :
          /\ req[r].on \in 0 .. opened /\ req[r].to \subseteq Requests
          /\ req[r].state \in {"set", "lock", "create", "local", "tag", "push", "close"}
               => req[r].on # 0
    BY DEF IInv, Types, RequestStates, Stages, Stage
  <2>4. \A t \in Transports :
          /\ transport[t].remote \in Requests \cup {None}
          /\ transport[t].signaling \in {"stable", "offered", "closed"}
          /\ transport[t].lock # None =>
               LET r == transport[t].lock
               IN req[r].on = t /\ req[r].state \in {"create", "local"}
    BY DEF IInv, Types, TransportStates, Kept
  <2> QED BY <2>1, <2>2, <2>3, <2>4 DEF TypeOK
<1> QED BY <1>1, Inductive, PTL

\* However requests interleave, a candidate that comes with a valid ETag goes to the
\* description the ETag was given for, but in the cases CandidateIsMeant names.
THEOREM CandidatesAreMeant == Spec => []CandidateIsMeant
<1>1. IInv => CandidateIsMeant
  BY DEF IInv, Meant, CandidateIsMeant
<1> QED BY <1>1, Inductive, PTL

\* A DELETE that closed the transport of its session leaves no ETag behind, unless it
\* met a POST or restart.
THEOREM DeletedHaveNoETag == Spec => []DeletedHasNoETag
<1>1. IInv => DeletedHasNoETag
  BY DEF IInv, Deletes, IsOver, DeletedHasNoETag
<1> QED BY <1>1, Inductive, PTL

\* No candidate waits for a description that is there.
THEOREM NoneAreForgotten == Spec => []NoneIsForgotten
<1>1. IInv => NoneIsForgotten
  BY DEF IInv, Waits, NoneIsForgotten
<1> QED BY <1>1, Inductive, PTL

====================================================================================
