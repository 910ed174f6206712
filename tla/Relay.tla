--------------------------------- MODULE Relay ---------------------------------
(***************************************************************************)
(* Relaying publishers to routers of another server: Publisher.relay_to and *)
(* the publisher's event loop on one side (src/sfu/src/publisher.rs, with  *)
(* relay/sender.rs), RelayServer, RelayRTPServer, the target's Router and  *)
(* RelayedPublisher on the other (relay/receiver.rs, router.rs,            *)
(* relay/relayed_publisher.rs).                                            *)
(*                                                                         *)
(* Each request is a TCP connection of its own, and the publisher's mutex  *)
(* is held from the request to its reply; RelayServer serves connections   *)
(* one after the other.  A publisher closes once, so it has at most one    *)
(* RelayedPublisher at a router.                                           *)
(***************************************************************************)
EXTENDS Naturals, Sequences, SequencesExt

CONSTANTS
  Publishers,
  Routers,   \* routers of the target server
  Ssrcs,
  MaxCalls   \* bound: relay_to calls of a behaviour

Close == 0 \* in a queue: the Close event; an ssrc is positive

ASSUME RelayAssumption == MaxCalls \in Nat /\ Close \notin Ssrcs

VARIABLES
  localTracks, \* Publisher.local_tracks
  mail,        \* events of each publisher: ssrcs of TrackAdded, then Close
  loop,        \* publisher_event_loop: "running" or "done"
  job,         \* who holds the publisher's mutex, and what it asks of the target
  targets,     \* Publisher.relayed_targets
  relayedTo,   \* Publisher.relayed_publishers: the last target of each ssrc
  senders,     \* rtp_sender_loops for each ssrc and target, of tracks not closed
  calls,       \* relay_to calls so far
  server,      \* RelayServer.run_tcp: "up", "stuck", "panicked" or "stopped"
  entries,     \* routers with an entry in RelayServer.publishers
  served,      \* ... and the publishers in it
  rtp,         \* RelayRTPServer of each router: "none", "starting", "running", "dead"
  router,      \* "open", "closed" (Closed handled), "forgotten" by the worker
  listed,      \* Router.relayed_publishers
  inbox,       \* events of each RelayedPublisher: ssrcs of TrackAdded, then Close
  relayed      \* RelayedPublisher.local_tracks, or Gone once its loop returned

source == <<localTracks, mail, loop, job, targets, relayedTo, senders, calls>>
registry == <<entries, served, rtp, listed>>
target == <<server, registry, router, inbox, relayed>>
vars == <<source, target>>

Pairs == Publishers \X Routers
NoTarget == "no target"
Idle == [kind |-> "idle", to |-> NoTarget, state |-> "ask", todo |-> {}, ask |-> <<>>,
         reply |-> "none"]

Init ==
  /\ localTracks = [p \in Publishers |-> {}] /\ mail = [p \in Publishers |-> <<>>]
  /\ loop = [p \in Publishers |-> "running"] /\ job = [p \in Publishers |-> Idle]
  /\ targets = [p \in Publishers |-> <<>>]
  /\ relayedTo = [p \in Publishers |-> [s \in Ssrcs |-> NoTarget]]
  /\ senders = [p \in Publishers |-> [x \in Ssrcs \X Routers |-> 0]]
  /\ calls = 0
  /\ server = "up" /\ entries = {} /\ served = [r \in Routers |-> {}]
  /\ rtp = [r \in Routers |-> "none"] /\ router = [r \in Routers |-> "open"]
  /\ listed = [r \in Routers |-> {}]
  /\ inbox = [x \in Pairs |-> <<>>] /\ relayed = [x \in Pairs |-> {}]

-----------------------------------------------------------------------------
(* The publisher: its event loop and relay_to *)

Free(p) == job[p].kind = "idle"
Asking(p) == job[p].kind # "idle" /\ job[p].state = "ask"
Answered(p) == job[p].kind # "idle" /\ job[p].state = "answered"

\* A job that makes the requests todo, each <<position, ssrc, router>>.
Job(kind, todo) == [Idle EXCEPT !.kind = kind, !.todo = todo]
ToOtherTargets(p, s) == \* mutation: the first target is skipped
  {<<i, s, targets[p][i]>> : i \in DOMAIN targets[p] \ {1}}
ToTargets(p, s) == {<<i, s, targets[p][i]>> : i \in DOMAIN targets[p]}

\* TrackOpened: create_local_track adds the track and queues TrackAdded.
TrackOpens(p, s) ==
  /\ Free(p) /\ loop[p] = "running" /\ s \notin localTracks[p]
  /\ localTracks' = [localTracks EXCEPT ![p] = @ \cup {s}]
  /\ mail' = [mail EXCEPT ![p] = Append(@, s)]
  /\ UNCHANGED <<loop, job, targets, relayedTo, senders, calls, target>>

\* close() or the end of the remote track.
ClosePublisher(p) ==
  /\ loop[p] = "running" /\ ~Contains(mail[p], Close)
  /\ mail' = [mail EXCEPT ![p] = Append(@, Close)]
  /\ UNCHANGED <<localTracks, loop, job, targets, relayedTo, senders, calls, target>>

\* TrackAdded: the new track goes to every target the publisher has.
HandleTrackAdded(p) ==
  /\ Free(p) /\ loop[p] = "running" /\ mail[p] # <<>> /\ Head(mail[p]) # Close
  /\ mail' = [mail EXCEPT ![p] = Tail(@)]
  /\ job' = IF targets[p] = <<>> THEN job
            ELSE [job EXCEPT ![p] = Job("added", ToTargets(p, Head(mail[p])))]
  /\ UNCHANGED <<localTracks, loop, targets, relayedTo, senders, calls, target>>

\* Close: the tracks go, and every target is told.  The sender loops of a track end
\* when its last packet was read; here they are counted until it is closed.
HandleClose(p) ==
  /\ Free(p) /\ loop[p] = "running" /\ mail[p] # <<>> /\ Head(mail[p]) = Close
  /\ mail' = [mail EXCEPT ![p] = <<>>]
  /\ localTracks' = [localTracks EXCEPT ![p] = {}]
  /\ senders' = [senders EXCEPT ![p] = [x \in Ssrcs \X Routers |-> 0]]
  /\ job' = [job EXCEPT ![p] = Job("close", ToTargets(p, Close))]
  /\ UNCHANGED <<loop, targets, relayedTo, calls, target>>

\* relay_to locks the publisher and relays the tracks it has now.
RelayTo(p, r) ==
  /\ Free(p) /\ localTracks[p] # {} /\ calls < MaxCalls
  /\ calls' = calls + 1
  /\ job' = [job EXCEPT ![p] = [Job("relay", {<<0, s, r>> : s \in localTracks[p]})
                                EXCEPT !.to = r]]
  /\ UNCHANGED <<localTracks, mail, loop, targets, relayedTo, senders, target>>

\* A publisher without a track, closed or not, only remembers the target.
RelayNothing(p, r) ==
  /\ Free(p) /\ localTracks[p] = {} /\ calls < MaxCalls
  /\ calls' = calls + 1
  /\ targets' = [targets EXCEPT ![p] = Append(@, r)]
  /\ UNCHANGED <<localTracks, mail, loop, job, relayedTo, senders, target>>

\* create_relay_track or remove_relayed_publisher: connect and write the request.
Ask(p) ==
  /\ Asking(p)
  /\ \E q \in job[p].todo :
       job' = [job EXCEPT ![p].state = "sent", ![p].ask = q, ![p].todo = @ \ {q}]
  /\ UNCHANGED <<localTracks, mail, loop, targets, relayedTo, senders, calls, target>>

\* The job goes on with its next request.
Going(p) == [job[p] EXCEPT !.state = "ask", !.ask = <<>>, !.reply = "none"]
NextRequest(p) == job' = [job EXCEPT ![p] = Going(p)]

AnyReply(p) == TRUE \* mutation: the reply's udp_started is not looked at
GotPort(p) == job[p].reply = "ok"

Relays(p) == job[p].kind \in {"relay", "added"}

\* A port came back: packets of the track are sent there from now on, by a new
\* loop unless relay_to finds the track was relayed there last.
StartSender(p) ==
  /\ Answered(p) /\ Relays(p) /\ GotPort(p)
  /\ LET s == job[p].ask[2]
         r == job[p].ask[3]
     IN /\ relayedTo' = [relayedTo EXCEPT ![p][s] = r]
        /\ senders' = IF job[p].kind = "relay" /\ relayedTo[p][s] = r THEN senders
                      ELSE [senders EXCEPT ![p][<<s, r>>] = @ + 1]
  /\ NextRequest(p)
  /\ UNCHANGED <<localTracks, mail, loop, targets, calls, target>>

\* An error: relay_to returns it at once, TrackAdded logs it and goes on.
RelayFails(p) ==
  /\ Answered(p) /\ Relays(p) /\ ~GotPort(p)
  /\ IF job[p].kind = "relay" THEN job' = [job EXCEPT ![p] = Idle] ELSE NextRequest(p)
  /\ UNCHANGED <<localTracks, mail, loop, targets, relayedTo, senders, calls, target>>

\* What a target answers to the removal is only logged.
RemovalAnswered(p) ==
  /\ Answered(p) /\ job[p].kind = "close"
  /\ NextRequest(p)
  /\ UNCHANGED <<localTracks, mail, loop, targets, relayedTo, senders, calls, target>>

Remembered(p) == Append(targets[p], job[p].to)

\* The job is done: relay_to remembers the target, a closed publisher stops.
Finish(p) ==
  /\ Asking(p) /\ job[p].todo = {}
  /\ job' = [job EXCEPT ![p] = Idle]
  /\ targets' = IF job[p].kind = "relay" THEN [targets EXCEPT ![p] = Remembered(p)]
                ELSE targets
  /\ loop' = IF job[p].kind = "close" THEN [loop EXCEPT ![p] = "done"] ELSE loop
  /\ UNCHANGED <<localTracks, mail, relayedTo, senders, calls, target>>

-----------------------------------------------------------------------------
(* RelayServer: process_tcp_stream and handle_track_message *)

\* A request the server is working on; the reply goes back with the job.
Request(p) == job[p].kind # "idle" /\ job[p].state = "sent"
Reply(p, what) == job' = [job EXCEPT ![p].state = "answered", ![p].reply = what]
sourceButJob == <<localTracks, mail, loop, targets, relayedTo, senders, calls>>

Told(x, e) == IF relayed[x] = {Close} THEN inbox ELSE [inbox EXCEPT ![x] = Append(@, e)]

Serving(p, r) ==
  /\ server = "up" /\ Request(p) /\ job[p].ask[3] = r /\ UNCHANGED sourceButJob

RouterUnknown(p, r) ==
  /\ Serving(p, r) /\ router[r] = "forgotten"
  /\ Reply(p, "error")
  /\ UNCHANGED target

\* The first publisher relayed to the router: RelayedPublisher::new, its first
\* track, then the UDP server.  Either may find no free port; in the second case
\* the publisher stays where it was entered.
ServeFirst(p, r, udpStarts) ==
  /\ Serving(p, r) /\ Relays(p) /\ router[r] # "forgotten" /\ r \notin entries
  /\ entries' = entries \cup {r}
  /\ served' = [served EXCEPT ![r] = {p}]
  /\ listed' = [listed EXCEPT ![r] = @ \cup {p}]
  /\ inbox' = Told(<<p, r>>, job[p].ask[2])
  /\ rtp' = IF udpStarts THEN [rtp EXCEPT ![r] = "starting"] ELSE rtp
  /\ Reply(p, IF udpStarts THEN "ok" ELSE "error")
  /\ UNCHANGED <<server, router, relayed>>

NoPublisher(p, r) ==
  /\ Serving(p, r) /\ Relays(p) /\ router[r] # "forgotten" /\ r \notin entries
  /\ Reply(p, "error")
  /\ UNCHANGED target

WhileServed(p, r) == TRUE \* mutation: the guard is kept in the simulcast branch too
WhileAbsent(p, r) == p \notin served[r]

\* Another track of a publisher that is there (simulcast).
ServeTrack(p, r) ==
  /\ Serving(p, r) /\ Relays(p) /\ router[r] # "forgotten" /\ r \in entries
  /\ ~WhileAbsent(p, r)
  /\ inbox' = IF job[p].ask[2] \in relayed[<<p, r>>] THEN inbox
              ELSE Told(<<p, r>>, job[p].ask[2])
  /\ Reply(p, IF rtp[r] = "none" THEN "error" ELSE "ok")
  /\ UNCHANGED <<server, registry, router, relayed>>

\* Another publisher for the router: in edition 2021 the guard of `if let Some(..)
\* = router_publisher.lock().await.get(..)` lives through the else branch, which
\* locks router_publisher again.  The worker's lock is held too.
ServeAnother(p, r) ==
  /\ Serving(p, r) /\ Relays(p) /\ router[r] # "forgotten" /\ r \in entries
  /\ WhileAbsent(p, r)
  /\ server' = "stuck"
  /\ UNCHANGED <<job, registry, router, inbox, relayed>>

SayNothing(p, r) == inbox \* mutation: the RelayedPublisher is not closed
SayClose(p, r) == IF p \in served[r] THEN Told(<<p, r>>, Close) ELSE inbox

StillListed(p, r) == listed[r] \* mutation: the router keeps the publisher
Unlisted(p, r) == listed[r] \ {p}

KeepEntry(r) == entries \* mutation: the empty entry is not removed
DropEntry(r) == entries \ {r}

\* remove_relayed_publisher.  When the last publisher of the router goes so does
\* its UDP server; telling it panics when nobody listens: its task has not
\* started yet, or ended with an error.
ServeRemoval(p, r) ==
  /\ Serving(p, r) /\ job[p].kind = "close" /\ router[r] # "forgotten"
  /\ listed' = [listed EXCEPT ![r] = Unlisted(p, r)]
  /\ inbox' = SayClose(p, r)
  /\ served' = [served EXCEPT ![r] = @ \ {p}]
  /\ LET last == r \in entries /\ served[r] \subseteq {p}
         panics == last /\ rtp[r] \in {"starting", "dead"}
     IN /\ server' = IF panics THEN "panicked" ELSE server
        /\ entries' = IF last /\ ~panics THEN DropEntry(r) ELSE entries
        /\ rtp' = IF last /\ ~panics THEN [rtp EXCEPT ![r] = "none"] ELSE rtp
        /\ Reply(p, IF panics THEN "error" ELSE "ok")
  /\ UNCHANGED <<router, relayed>>

\* The listener is gone: the connection is refused or reset.
Refuse(p) ==
  /\ server \in {"panicked", "stopped"} /\ Request(p)
  /\ Reply(p, "error")
  /\ UNCHANGED <<sourceButJob, target>>

\* Worker.close: run_tcp closes what it serves and returns.
StopServer ==
  /\ server = "up"
  /\ server' = "stopped"
  /\ inbox' = [x \in Pairs |-> IF x[1] \in served[x[2]] /\ relayed[x] # {Close}
                               THEN Append(inbox[x], Close) ELSE inbox[x]]
  /\ UNCHANGED <<source, registry, router, relayed>>

-----------------------------------------------------------------------------
(* The rest of the target server *)

UdpSubscribes(r) ==
  /\ rtp[r] = "starting"
  /\ rtp' = [rtp EXCEPT ![r] = "running"]
  /\ UNCHANGED <<source, server, entries, served, listed, router, inbox, relayed>>

\* A datagram that does not decode, or a socket error, ends run_udp.
UdpFails(r) ==
  /\ rtp[r] = "running"
  /\ rtp' = [rtp EXCEPT ![r] = "dead"]
  /\ UNCHANGED <<source, server, entries, served, listed, router, inbox, relayed>>

\* RouterEvent::Closed closes the relayed publishers of the router ...
RouterCloses(r) ==
  /\ router[r] = "open"
  /\ router' = [router EXCEPT ![r] = "closed"]
  /\ inbox' = [x \in Pairs |-> IF x[2] = r /\ x[1] \in listed[r] /\ relayed[x] # {Close}
                               THEN Append(inbox[x], Close) ELSE inbox[x]]
  /\ UNCHANGED <<source, server, registry, relayed>>

\* ... and the worker removes it, with its lock, which a stuck request holds.
WorkerForgets(r) ==
  /\ router[r] = "closed" /\ server # "stuck"
  /\ router' = [router EXCEPT ![r] = "forgotten"]
  /\ UNCHANGED <<source, server, registry, inbox, relayed>>

\* RelayedPublisher::publisher_event_loop.
RelayedPublisherHandles(x) ==
  /\ inbox[x] # <<>> /\ relayed[x] # {Close}
  /\ IF Head(inbox[x]) = Close
       THEN /\ relayed' = [relayed EXCEPT ![x] = {Close}]
            /\ inbox' = [inbox EXCEPT ![x] = <<>>]
       ELSE /\ relayed' = [relayed EXCEPT ![x] = @ \cup {Head(inbox[x])}]
            /\ inbox' = [inbox EXCEPT ![x] = Tail(@)]
  /\ UNCHANGED <<source, server, registry, router>>

-----------------------------------------------------------------------------
PublisherSteps(p) ==
  \/ HandleTrackAdded(p) \/ HandleClose(p)
  \/ Ask(p) \/ StartSender(p) \/ RelayFails(p) \/ RemovalAnswered(p) \/ Finish(p)

Serve(p, r) ==
  \/ RouterUnknown(p, r) \/ (\E up \in BOOLEAN : ServeFirst(p, r, up))
  \/ NoPublisher(p, r) \/ ServeTrack(p, r) \/ ServeAnother(p, r) \/ ServeRemoval(p, r)

Next ==
  \/ \E p \in Publishers :
       \/ PublisherSteps(p) \/ ClosePublisher(p) \/ Refuse(p)
       \/ \E s \in Ssrcs : TrackOpens(p, s)
       \/ \E r \in Routers : RelayTo(p, r) \/ RelayNothing(p, r) \/ Serve(p, r)
  \/ StopServer
  \/ \E r \in Routers :
       UdpSubscribes(r) \/ UdpFails(r) \/ RouterCloses(r) \/ WorkerForgets(r)
  \/ \E x \in Pairs : RelayedPublisherHandles(x)

\* Tasks that can run do; a connection that is waiting is accepted or refused.
Fairness ==
  /\ \A p \in Publishers : WF_vars(PublisherSteps(p)) /\ WF_vars(Refuse(p))
  /\ \A p \in Publishers : SF_vars(\E r \in Routers : Serve(p, r))
  /\ \A x \in Pairs : WF_vars(RelayedPublisherHandles(x))

Spec == Init /\ [][Next]_vars
FairSpec == Spec /\ Fairness

-----------------------------------------------------------------------------
(* Properties *)

\* Types, and an entry of RelayServer.publishers is never empty: its UDP server
\* and its port would be kept for nobody.
TypeOK ==
  /\ localTracks \in [Publishers -> SUBSET Ssrcs]
  /\ loop \in [Publishers -> {"running", "done"}]
  /\ \A p \in Publishers : targets[p] \in Seq(Routers)
  /\ relayedTo \in [Publishers -> [Ssrcs -> Routers \cup {NoTarget}]]
  /\ senders \in [Publishers -> [Ssrcs \X Routers -> Nat]]
  /\ server \in {"up", "stuck", "panicked", "stopped"}
  /\ rtp \in [Routers -> {"none", "starting", "running", "dead"}]
  /\ router \in [Routers -> {"open", "closed", "forgotten"}]
  /\ \A x \in Pairs : relayed[x] \subseteq Ssrcs \/ relayed[x] = {Close}
  /\ server # "panicked" => entries = {r \in Routers : served[r] # {}}

\* What the router lists for its subscribers is what the server feeds with
\* packets, and a UDP server runs for somebody.
OneView ==
  \A r \in Routers :
    /\ listed[r] = served[r]
    /\ rtp[r] # "none" /\ server # "panicked" => served[r] # {}

\* While a publisher that has not closed sends the packets of a track to a router
\* that is open, the router's UDP server has been started, and the RelayedPublisher
\* is entered and has the track or is about to.
ForwardedIsReceived ==
  \A p \in Publishers, s \in Ssrcs, r \in Routers :
    senders[p][<<s, r>>] > 0 /\ router[r] = "open" /\ server # "stopped" =>
      /\ p \in served[r] /\ rtp[r] # "none"
      /\ s \in relayed[<<p, r>>] \/ Contains(inbox[<<p, r>>], s)

\* A publisher that has closed is listed by no router, remembered as a target or not,
\* as long as router and relay server are there.  One leftover stays: the router that
\* was relayed to in vain because its UDP server found no port.
ClosedIsForgotten ==
  \A p \in Publishers, r \in Routers :
    loop[p] = "done" /\ p \in listed[r] =>
      router[r] # "open" \/ server # "up" \/ rtp[r] = "none"

\* "Server B returns the UDP port to Server A": every request is answered.
AnswersCome == \A p \in Publishers : Request(p) ~> ~Request(p)

\* A RelayedPublisher that its router no longer lists lets its tracks go, so
\* that its subscribers end.
RemovedIsEmptied ==
  \A x \in Pairs : (relayed[x] # {} /\ x[1] \notin listed[x[2]]) ~> relayed[x] = {Close}
=============================================================================
