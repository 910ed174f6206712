---------------------------------- MODULE Whip ----------------------------------
(***************************************************************************)
(* WHIP and WHEP (src/sfu/src/signaling): the HTTP requests for one        *)
(* session id, the counter its ETags are made from, and the transports the *)
(* application's provider finds under that id, one after the other.        *)
(*                                                                         *)
(* A request is a task of its own.  An ETag is meant to name the session   *)
(* description, and with it the ICE session, that candidates in a PATCH    *)
(* are for; but the counter is one object, the description another, and    *)
(* every handler looks at one and later at the other.                      *)
(*                                                                         *)
(* A description is named after the request whose offer it is, a candidate *)
(* after the request that brings it (each PATCH brings one).               *)
(***************************************************************************)
EXTENDS Integers, Sequences, FiniteSets

CONSTANTS
  Requests,        \* bound: every request there is
  MaxActive,       \* bound on the requests under way at a time
  MaxTransports    \* bound on the transports opened under the session id

None == "none"

ASSUME WhipAssumption ==
  /\ IsFiniteSet(Requests) /\ None \notin Requests
  /\ MaxTransports \in Nat /\ MaxActive \in Nat

Transports == 1 .. MaxTransports

VARIABLES
  endpoint,   \* "whip", with a PublishTransport, or "whep", with a SubscribeTransport
  session,    \* what the provider finds: a transport, or 0
  opened,     \* transports opened so far
  counter,    \* the session's entry of ETagStore.counters, 0 if there is none
  lives,      \* history: times an entry was removed
  given,      \* history: the ETags in responses and what they were given for
  transport,  \* transport[t]: its peer connection and what it keeps beside it
  req         \* req[r]: a request

vars == <<endpoint, session, opened, counter, lives, given, transport, req>>

\* remote and signaling: those of the peer connection; lock and pending: those of
\* pending_candidates.
Fresh == [remote |-> None, signaling |-> "stable", lock |-> None, pending |-> {}]

\* set: its offer has become the remote description; to: the descriptions its
\* candidate was added to; and three histories: crossed, when another offer was set
\* meanwhile; met, when a DELETE met an offer; unsure, when the description it found
\* had no ETag yet.
NoETag == [tag |-> 0, for |-> None, on |-> 0, lives |-> 0, crossed |-> FALSE]
NotSent == [state |-> "new", kind |-> None, tag |-> NoETag, on |-> 0, set |-> FALSE,
            to |-> {}, crossed |-> FALSE, met |-> FALSE, unsure |-> FALSE]

Init ==
  /\ endpoint \in {"whip", "whep"}
  /\ session = 0 /\ opened = 0 /\ counter = 0 /\ lives = 0 /\ given = {}
  /\ transport = [t \in Transports |-> Fresh]
  /\ req = [r \in Requests |-> NotSent]

Over == {"new", "done", "failed"}
Active(r) == req[r].state \notin Over
Updates == {"post", "restart"}

MaySend(r) == req[r].state = "new" /\ Cardinality({q \in Requests : Active(q)}) < MaxActive

\* The request goes on at another step.
To(r, step) == [req EXCEPT ![r].state = step]

\* It fails: nothing is kept of one that changed no description.
Failed(r) == [req EXCEPT ![r] = IF req[r].set THEN [@ EXCEPT !.state = "failed"]
                                ELSE [NotSent EXCEPT !.state = "failed"]]

-----------------------------------------------------------------------------
(* The application *)

OpenSession ==
  /\ session = 0 /\ opened < MaxTransports
  /\ opened' = opened + 1 /\ session' = opened'
  /\ UNCHANGED <<endpoint, counter, lives, given, transport, req>>

EndSession ==
  /\ session # 0 /\ session' = 0
  /\ UNCHANGED <<endpoint, opened, counter, lives, given, transport, req>>

-----------------------------------------------------------------------------
(* Requests *)

Arrives(r, kind) == [req EXCEPT ![r].kind = kind, ![r].state = "find"]
Deleting == \E r \in Requests : req[r].kind = "delete" /\ Active(r)

Post(r) ==
  /\ MaySend(r)
  /\ req' = [Arrives(r, "post") EXCEPT ![r].met = Deleting]
  /\ UNCHANGED <<endpoint, session, opened, counter, lives, given, transport>>

\* If-Match: *
PatchAny(r) ==
  /\ MaySend(r)
  /\ req' = [Arrives(r, "restart") EXCEPT ![r].met = Deleting]
  /\ UNCHANGED <<endpoint, session, opened, counter, lives, given, transport>>

\* ETagStore.validate
AnyEntry(g) == counter # 0 \* mutation: that there is an entry is enough
Matches(g) == counter # 0 /\ g.tag = counter

\* An offer is the remote description, but no ETag has been given for it.
Untold(t) ==
  \E u \in Requests : transport[t].remote = u /\ req[u].state # "done"

Patch(r) ==
  /\ MaySend(r)
  /\ \E g \in given :
       req' = IF Matches(g)
              THEN [Arrives(r, "trickle") EXCEPT ![r].tag = g,
                                                 ![r].unsure = Untold(g.on) \/ g.lives # lives]
              ELSE Failed(r)
  /\ UNCHANGED <<endpoint, session, opened, counter, lives, given, transport>>

\* add_ice_candidate, called by the application itself.
Direct(r) ==
  /\ MaySend(r) /\ endpoint = "whip" /\ session # 0
  /\ req' = [Arrives(r, "direct") EXCEPT ![r].state = "add", ![r].on = session]
  /\ UNCHANGED <<endpoint, session, opened, counter, lives, given, transport>>

Left(r) == counter \* mutation: the entry is left behind
Removed(r) == 0

Delete(r) ==
  /\ MaySend(r)
  /\ counter' = Removed(r) /\ lives' = lives + 1
  /\ req' = [q \in Requests |-> IF q = r THEN Arrives(r, "delete")[r]
                                ELSE [req[q] EXCEPT !.met = @ \/ Active(q)]]
  /\ UNCHANGED <<endpoint, session, opened, given, transport>>

\* The provider is asked.
NextOf(r) ==
  CASE req[r].kind \in Updates -> "set" [] req[r].kind = "trickle" -> "add"
    [] req[r].kind = "delete" -> "close"

\* A restart is refused by WHEP, without a remote description, or with the ufrag and
\* password of the present one.
Find(r) ==
  /\ req[r].state = "find" /\ session # 0
  /\ req[r].kind = "restart" => endpoint = "whip" /\ transport[session].remote # None
  /\ req' = [To(r, NextOf(r)) EXCEPT ![r].on = session]
  /\ UNCHANGED <<endpoint, session, opened, counter, lives, given, transport>>

NotFound(r) ==
  /\ req[r].state = "find" /\ (session = 0 \/ req[r].kind = "restart")
  /\ req' = Failed(r)
  /\ UNCHANGED <<endpoint, session, opened, counter, lives, given, transport>>

-----------------------------------------------------------------------------
(* get_answer *)

pc(r) == transport[req[r].on]

\* The signaling state, which callbacks report and may be behind with, is not (known
\* to be) stable; the publisher's track is not found; or the offer is refused.
OfferFails(r) ==
  /\ req[r].state = "set"
  /\ req' = Failed(r)
  /\ UNCHANGED <<endpoint, session, opened, counter, lives, given, transport>>

\* Two requests may both have seen it stable.
SetRemote(r) ==
  /\ req[r].state = "set" /\ pc(r).signaling # "closed"
  /\ transport' = [transport EXCEPT ![req[r].on].remote = r, ![req[r].on].signaling = "offered"]
  /\ req' = [q \in Requests |->
               IF q = r THEN [req[r] EXCEPT !.set = TRUE,
                                !.state = IF endpoint = "whip" THEN "lock" ELSE "create"]
               ELSE [req[q] EXCEPT !.crossed = @ \/ Active(q)]]
  /\ UNCHANGED <<endpoint, session, opened, counter, lives, given>>

\* PublishTransport flushes pending_candidates, and keeps it locked to the end.  A
\* candidate that is refused is logged.
Keeping(r) == {} \* mutation: the candidates are not flushed
Flushed(r) == pc(r).pending

Lock(r) ==
  /\ req[r].state = "lock" /\ pc(r).lock = None
  /\ transport' = [transport EXCEPT ![req[r].on].lock = r]
  /\ req' = [q \in Requests |-> [req[q] EXCEPT !.to = IF q \in Flushed(r) THEN @ \cup {pc(r).remote}
                                                      ELSE @,
                                               !.state = IF q = r THEN "create" ELSE @]]
  /\ UNCHANGED <<endpoint, session, opened, counter, lives, given>>

Offered(r) == pc(r).signaling = "offered"
Holding(r) == transport \* mutation: the lock outlives get_answer
Unlock(r) == [transport EXCEPT ![req[r].on].lock = IF @ = r THEN None ELSE @]

CreateAnswer(r) ==
  /\ req[r].state = "create" /\ Offered(r)
  /\ req' = To(r, "local")
  /\ UNCHANGED <<endpoint, session, opened, counter, lives, given, transport>>

SetLocal(r) ==
  /\ req[r].state = "local" /\ Offered(r)
  /\ req' = To(r, IF req[r].kind = "post" THEN "tag" ELSE "add")
  /\ transport' = [Unlock(r) EXCEPT ![req[r].on].signaling = "stable"]
  /\ UNCHANGED <<endpoint, session, opened, counter, lives, given>>

\* Another request has answered already, the connection is closed, or the answer is
\* not made or refused: then the offer stays.
AnswerFails(r) ==
  /\ req[r].state \in {"create", "local"}
  /\ req' = Failed(r) /\ transport' = Unlock(r)
  /\ UNCHANGED <<endpoint, session, opened, counter, lives, given>>

-----------------------------------------------------------------------------
(* add_ice_candidate *)

Add(r) ==
  /\ req[r].state = "add" /\ pc(r).remote # None /\ pc(r).signaling # "closed"
  /\ req' = [To(r, IF req[r].kind = "restart" THEN "tag" ELSE "done")
              EXCEPT ![r].to = @ \cup {pc(r).remote}]
  /\ UNCHANGED <<endpoint, session, opened, counter, lives, given, transport>>

\* It is refused: the rest of the request is not done.
AddFails(r) ==
  /\ req[r].state = "add" /\ pc(r).remote # None
  /\ req' = Failed(r)
  /\ UNCHANGED <<endpoint, session, opened, counter, lives, given, transport>>

\* There is no remote description ...
FindNone(r) ==
  /\ req[r].state = "add" /\ pc(r).remote = None
  /\ req' = To(r, "push")
  /\ UNCHANGED <<endpoint, session, opened, counter, lives, given, transport>>

\* ... so the candidate has to wait for one.
Push(r) ==
  /\ req[r].state = "push" /\ pc(r).lock = None
  /\ transport' = [transport EXCEPT ![req[r].on].pending = @ \cup {r}]
  /\ req' = To(r, "done")
  /\ UNCHANGED <<endpoint, session, opened, counter, lives, given>>

-----------------------------------------------------------------------------
\* ETagStore.increment, and the response with the ETag.
Same(n) == IF n = 0 THEN 1 ELSE n \* mutation: a restart keeps the ETag
Incremented(n) == n + 1

Tag(r) ==
  /\ req[r].state = "tag"
  /\ counter' = Incremented(counter)
  /\ given' = given \cup {[tag |-> counter', for |-> r, on |-> req[r].on, lives |-> lives,
                           crossed |-> req[r].crossed]}
  /\ req' = To(r, "done")
  /\ UNCHANGED <<endpoint, session, opened, lives, transport>>

Close(r) ==
  /\ req[r].state = "close"
  /\ transport' = [transport EXCEPT ![req[r].on].signaling = "closed"]
  /\ req' = To(r, "done")
  /\ UNCHANGED <<endpoint, session, opened, counter, lives, given>>

Next ==
  \/ OpenSession \/ EndSession
  \/ \E r \in Requests :
       \/ Post(r) \/ PatchAny(r) \/ Patch(r) \/ Direct(r) \/ Delete(r)
       \/ Find(r) \/ NotFound(r) \/ OfferFails(r) \/ SetRemote(r)
       \/ Lock(r) \/ CreateAnswer(r) \/ SetLocal(r) \/ AnswerFails(r)
       \/ Add(r) \/ AddFails(r) \/ FindNone(r) \/ Push(r) \/ Tag(r) \/ Close(r)

Spec == Init /\ [][Next]_vars

-----------------------------------------------------------------------------
(* Properties *)

\* The variables have their types, and whoever has pending_candidates locked is
\* about to answer on that transport.
TypeOK ==
  /\ endpoint \in {"whip", "whep"} /\ session \in 0 .. opened /\ opened \in 0 .. MaxTransports
  /\ counter \in 0 .. Cardinality(Requests) /\ lives \in 0 .. Cardinality(Requests)
  /\ \A r \in Requests :
       /\ req[r].on \in 0 .. opened /\ req[r].to \subseteq Requests
       /\ req[r].state \in {"set", "lock", "create", "local", "tag", "push", "close"}
            => req[r].on # 0
  /\ \A t \in Transports :
       /\ transport[t].remote \in Requests \cup {None}
       /\ transport[t].signaling \in {"stable", "offered", "closed"}
       /\ transport[t].lock # None =>
            LET r == transport[t].lock
            IN req[r].on = t /\ req[r].state \in {"create", "local"}

\* The candidate of a PATCH whose ETag was accepted goes to the description the ETag
\* was given for, unless another offer was set while the PATCH or the request the
\* ETag came from was under way, the description had no ETag of its own yet (its
\* request still runs, or failed after setting it), a DELETE has made the counter
\* start again, or the session's transport is another.
CandidateIsMeant ==
  \A r \in Requests :
    req[r].tag # NoETag =>
      \/ req[r].to \subseteq {req[r].tag.for}
      \/ req[r].crossed \/ req[r].tag.crossed \/ req[r].unsure
      \/ req[r].on # req[r].tag.on

\* When a DELETE has closed the session's transport, no ETag of it is valid any more,
\* unless a POST or restart ran while a DELETE did.
DeletedHasNoETag ==
  \A r \in Requests :
    (req[r].kind = "delete" /\ req[r].state = "done" /\ req[r].on = opened) =>
      counter = 0 \/ \E u \in Requests : req[u].kind \in Updates /\ req[u].met

\* A candidate that had to wait for a description is added once an offer has been
\* answered, unless the offer came while it looked for one.
NoneIsForgotten ==
  \A r, u \in Requests :
    (/\ req[r].state = "done" /\ req[u].state = "done" /\ req[u].set
     /\ req[r].on = req[u].on /\ req[r].kind \in {"direct", "trickle"} /\ endpoint = "whip")
      => req[r].to # {} \/ req[r].crossed
=============================================================================
