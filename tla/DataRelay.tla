-------------------------------- MODULE DataRelay --------------------------------
(***************************************************************************)
(* Data channels between servers: a DataPublisher                          *)
(* (src/sfu/src/data_publisher.rs) on the router of one server, relayed to *)
(* the routers of others (src/sfu/src/relay), and the DataSubscribers      *)
(* (src/sfu/src/data_subscriber.rs) of both.  One router a server.         *)
(*                                                                         *)
(* Three things are held across a wait for something else, and the model   *)
(* is about them: relay_to keeps the DataPublisher's mutex until the       *)
(* target has answered; the router's loop keeps the router's mutex until   *)
(* it has that of a DataPublisher; and the relay server keeps the worker's *)
(* mutex, and serves nobody else, until it has the router's.               *)
(*                                                                         *)
(* ChannelData with closed = true is understood by the relay server, but   *)
(* nothing in the code sends it: what is relayed stays for ever.           *)
(***************************************************************************)
EXTENDS Datagrams, FiniteSets

CONSTANTS
  Servers, DataPublishers, Subscribers,
  Home,       \* Home[d]: the server whose router d is published on
  IdOf,       \* IdOf[d]: the bytes of its id
  Payloads,   \* Payloads[d]: what may be sent on its channel
  Wants,      \* Wants[q]: the servers and data publishers q may ask for, as pairs
  Passing,    \* bound: the data publishers whose channel or handle may go
  Frail,      \* bound: the servers where something may stop
  MaxCalls,   \* bound on the calls of relay_to
  MaxFaults   \* bound on the events that stop something, a missing port included

None == "none"

ASSUME DataRelayAssumption ==
  /\ None \notin DataPublishers
  /\ Home \in [DataPublishers -> Servers]
  /\ IdOf \in [DataPublishers -> Seq(Bytes)]
  /\ \A d, e \in DataPublishers : IdOf[d] = IdOf[e] => d = e
  /\ \A d \in DataPublishers : Len(IdOf[d]) < 256 \* a UUID: 36 bytes
  /\ \A d \in DataPublishers : \A data \in Payloads[d] : data \in Seq(Bytes)
  /\ Buffer \in Nat
  /\ Wants \in [Subscribers -> SUBSET (Servers \X DataPublishers)]
  /\ Passing \subseteq DataPublishers /\ Frail \subseteq Servers
  /\ MaxCalls \in Nat /\ MaxFaults \in Nat

VARIABLES
  stage,    \* stage[d]: "none", "given" to data_publish, "announced" to its router
  closed,   \* the data publishers whose channel has closed
  early,    \* history: those whose channel closed before they were announced
  held,     \* those the application has a handle of
  job,      \* job[d]: the relay_to that holds d's mutex
  loops,    \* loops[d][s]: data_sender_loops of d to server s
  calls,    \* calls of relay_to so far
  faults,   \* what has stopped so far
  queue,    \* queue[s]: the events of the router of s
  locked,   \* locked[s]: its loop holds the router and waits for a DataPublisher
  router,   \* router[s]: "open", its loop "closed", or "forgotten" by the worker
  listed,   \* data_publishers of the router
  relayed,  \* relayed_data_publishers of the router
  server,   \* server[s]: the relay server is "up" or "stopped"
  serving,  \* serving[s]: whose request it has, with the worker's mutex
  entries,  \* RelayServer.data_publishers, for the router of s
  udp,      \* udp[s]: RelaySCTPServer: "none", "running" or "dead"
  sub       \* sub[q]: a call of data_subscribe and then its DataSubscriber

source == <<stage, closed, early, held>>
sender == <<job, loops, calls>>
routers == <<queue, locked, router, listed, relayed>>
target == <<server, serving, entries, udp>>
vars == <<source, sender, routers, target, sub, faults>>

\* One more of the bounded events that stop something.
Fault == faults < MaxFaults /\ faults' = faults + 1

Idle == [state |-> "idle", to |-> None, port |-> FALSE]

Init ==
  /\ stage = [d \in DataPublishers |-> "none"]
  /\ closed = {} /\ early = {} /\ held = {}
  /\ job = [d \in DataPublishers |-> Idle]
  /\ loops = [d \in DataPublishers |-> [s \in Servers |-> 0]] /\ calls = 0 /\ faults = 0
  /\ queue = [s \in Servers |-> << >>] /\ locked = [s \in Servers |-> FALSE]
  /\ router = [s \in Servers |-> "open"]
  /\ listed = [s \in Servers |-> {}] /\ relayed = listed
  /\ server = [s \in Servers |-> "up"] /\ serving = [s \in Servers |-> None]
  /\ entries = [s \in Servers |-> {}] /\ udp = [s \in Servers |-> "none"]
  /\ sub = [q \in Subscribers |->
             [state |-> "none", at |-> None, of |-> None, from |-> None,
              sure |-> FALSE, told |-> FALSE, heard |-> << >>]]

-----------------------------------------------------------------------------
(* DataPublisher *)

\* An event for the router of s; one whose loop has ended drops it.
Send(s, event) ==
  queue' = IF router[s] = "open" THEN [queue EXCEPT ![s] = Append(@, event)] ELSE queue
routersButQueue == <<locked, router, listed, relayed>>

\* on_data_channel, first half: the poll loop runs and data_publish may return the
\* DataPublisher to the application before the router hears of it.
OnDataChannel(d) ==
  /\ stage[d] = "none"
  /\ stage' = [stage EXCEPT ![d] = "given"]
  /\ held' = held \cup {d}
  /\ UNCHANGED <<closed, early, sender, routers, target, sub, faults>>

Announce(d) ==
  /\ stage[d] = "given"
  /\ stage' = [stage EXCEPT ![d] = "announced"]
  /\ Send(Home[d], <<"published", d>>)
  /\ UNCHANGED <<closed, early, held, sender, routersButQueue, target, sub, faults>>

\* The channel closes, from either side: the poll loop ends.
CloseChannel(d) ==
  /\ stage[d] # "none" /\ d \in Passing \ closed
  /\ closed' = closed \cup {d}
  /\ early' = IF stage[d] = "given" THEN early \cup {d} ELSE early
  /\ Send(Home[d], <<"removed", d>>)
  /\ Fault
  /\ UNCHANGED <<stage, held, sender, routersButQueue, target, sub>>

DropHandle(d) ==
  /\ d \in held \cap Passing /\ job[d].state = "idle"
  /\ held' = held \ {d}
  /\ UNCHANGED <<stage, closed, early, sender, routers, target, sub, faults>>

\* The router's loop waits for the mutex of d.
Wanted(d) == locked[Home[d]] /\ Head(queue[Home[d]]) = <<"published", d>>

\* relay_to and create_relay_data: the request is sent, with d's mutex held; a
\* mutex goes to who asked for it first.
RelayTo(d, s) ==
  /\ d \in held /\ s # Home[d] /\ calls < MaxCalls
  /\ job[d].state = "idle" /\ ~Wanted(d)
  /\ job' = [job EXCEPT ![d] = [state |-> "sent", to |-> s, port |-> FALSE]]
  /\ calls' = calls + 1
  /\ UNCHANGED <<source, loops, routers, target, sub, faults>>

AnyAnswer(d) == TRUE \* mutation: the reply's udp_started is not looked at
GotPort(d) == job[d].port

\* The answer is there: relay_to starts a loop to the port, or fails.
RelayReturns(d) ==
  /\ job[d].state = "answered"
  /\ loops' = IF GotPort(d) THEN [loops EXCEPT ![d][job[d].to] = @ + 1] ELSE loops
  /\ job' = [job EXCEPT ![d] = Idle]
  /\ UNCHANGED <<source, calls, routers, target, sub, faults>>

\* Somebody can still send on d's broadcast channel: its poll loop or a holder of
\* the DataPublisher itself.
Queued(d) == \E i \in 1 .. Len(queue[Home[d]]) : queue[Home[d]][i] = <<"published", d>>
Alive(d) ==
  \/ stage[d] # "announced" \/ d \notin closed \/ d \in held
  \/ d \in listed[Home[d]] \/ Queued(d)
  \/ \E q \in Subscribers : sub[q].of = d /\ sub[q].from = "local" /\ sub[q].state = "found"

SendersEnd(d) ==
  /\ ~Alive(d) /\ \E s \in Servers : loops[d][s] > 0
  /\ loops' = [loops EXCEPT ![d] = [s \in Servers |-> 0]]
  /\ UNCHANGED <<source, job, calls, routers, target, sub, faults>>

-----------------------------------------------------------------------------
(* Router *)

At(s, event) == ~locked[s] /\ queue[s] # << >> /\ Head(queue[s])[1] = event
Subject(s) == Head(queue[s])[2]
Handled(s) == queue' = [queue EXCEPT ![s] = Tail(@)]

\* The DataPublisher's mutex is taken: the router's loop waits for it.
LockForPublished(s) ==
  /\ At(s, "published") /\ job[Subject(s)].state # "idle"
  /\ locked' = [locked EXCEPT ![s] = TRUE]
  /\ UNCHANGED <<source, sender, queue, router, listed, relayed, target, sub, faults>>

Keeps(s) == locked \* mutation: the router is not unlocked
Unlocked(s) == [locked EXCEPT ![s] = FALSE]

HandleDataPublished(s) ==
  /\ locked[s] \/ At(s, "published")
  /\ job[Subject(s)].state = "idle"
  /\ listed' = [listed EXCEPT ![s] = @ \cup {Subject(s)}]
  /\ locked' = Unlocked(s)
  /\ Handled(s)
  /\ UNCHANGED <<source, sender, router, relayed, target, sub, faults>>

HandleDataRemoved(s) ==
  /\ At(s, "removed")
  /\ listed' = [listed EXCEPT ![s] = @ \ {Subject(s)}]
  /\ Handled(s)
  /\ UNCHANGED <<source, sender, locked, router, relayed, target, sub, faults>>

HandleGetDataPublisher(s) ==
  /\ At(s, "get")
  /\ LET q == Subject(s)
     IN sub' = IF sub[q].of \in listed[s]
               THEN [sub EXCEPT ![q].state = "found", ![q].from = "local"]
               ELSE [sub EXCEPT ![q].state = "missed"]
  /\ Handled(s)
  /\ UNCHANGED <<source, sender, routersButQueue, target, faults>>

HandleGetRelayedDataPublisher(s) ==
  /\ At(s, "get relayed")
  /\ LET q == Subject(s)
     IN sub' = IF sub[q].of \in relayed[s]
               THEN [sub EXCEPT ![q].state = "found", ![q].from = "relayed"]
               ELSE [sub EXCEPT ![q].state = "failed"]
  /\ Handled(s)
  /\ UNCHANGED <<source, sender, routersButQueue, target, faults>>

CloseRouter(s) ==
  /\ s \in Frail /\ router[s] = "open" /\ \A i \in 1 .. Len(queue[s]) : queue[s][i] # <<"closed">>
  /\ Send(s, <<"closed">>)
  /\ Fault
  /\ UNCHANGED <<source, sender, routersButQueue, target, sub>>

Waiting(q) == sub[q].state \in {"asked", "asked relayed"}

\* The loop ends: who waits for an answer from behind it gets none, and panics.
HandleClosed(s) ==
  /\ At(s, "closed")
  /\ router' = [router EXCEPT ![s] = "closed"]
  /\ queue' = [queue EXCEPT ![s] = << >>]
  /\ sub' = [q \in Subscribers |->
               IF sub[q].at = s /\ Waiting(q) THEN [sub[q] EXCEPT !.state = "panicked"]
               ELSE sub[q]]
  /\ UNCHANGED <<source, sender, locked, listed, relayed, target, faults>>

WorkerForgets(s) ==
  /\ router[s] = "closed" /\ serving[s] = None
  /\ router' = [router EXCEPT ![s] = "forgotten"]
  /\ UNCHANGED <<source, sender, queue, locked, listed, relayed, target, sub, faults>>

-----------------------------------------------------------------------------
(* RelayServer: handle_channel_message *)

Silence(d) == job \* mutation: nothing is written back for an unknown router
Answer(d) == [job EXCEPT ![d].state = "answered"]
AnswerPort(d, s, there) == [job EXCEPT ![d].state = "answered", ![d].port = there]

Requested(d, s) ==
  /\ server[s] = "up" /\ serving[s] = None
  /\ job[d].state = "sent" /\ job[d].to = s

RouterUnknown(d, s) ==
  /\ Requested(d, s) /\ router[s] = "forgotten"
  /\ job' = Answer(d)
  /\ UNCHANGED <<source, loops, calls, routers, target, sub, faults>>

\* It is relayed already: the port, if a UDP server was started.
ServeAgain(d, s) ==
  /\ Requested(d, s) /\ router[s] # "forgotten" /\ d \in entries[s]
  /\ job' = AnswerPort(d, s, udp[s] # "none")
  /\ UNCHANGED <<source, loops, calls, routers, target, sub, faults>>

New(d, s) == Requested(d, s) /\ router[s] # "forgotten" /\ d \notin entries[s]

\* The router's mutex is taken: the relay server waits for it.
BeginServing(d, s) ==
  /\ New(d, s) /\ locked[s]
  /\ serving' = [serving EXCEPT ![s] = d]
  /\ UNCHANGED <<source, sender, routers, server, entries, udp, sub, faults>>

NotAdded(d, s) == relayed \* mutation: add_relayed_data_publisher is forgotten
Added(d, s) == [relayed EXCEPT ![s] = @ \cup {d}]

\* The router's mutex is there.  The first data publisher of the router brings the
\* UDP server, for which there may be no port: it stays entered all the same.
ServeNew(d, s, udpStarts) ==
  LET first == entries[s] = {}
  IN /\ (New(d, s) \/ serving[s] = d) /\ ~locked[s]
     /\ IF udpStarts THEN UNCHANGED faults ELSE first /\ Fault
     /\ relayed' = Added(d, s)
     /\ entries' = [entries EXCEPT ![s] = @ \cup {d}]
     /\ udp' = IF first /\ udpStarts THEN [udp EXCEPT ![s] = "running"] ELSE udp
     /\ job' = AnswerPort(d, s, udp'[s] # "none")
     /\ serving' = [serving EXCEPT ![s] = None]
     /\ UNCHANGED <<source, loops, calls, queue, locked, router, listed, server, sub>>

\* Worker.close: run_tcp returns.  It closes no data publisher; the UDP task and
\* the map it was given go on.
StopServer(s) ==
  /\ s \in Frail /\ server[s] = "up" /\ serving[s] = None
  /\ server' = [server EXCEPT ![s] = "stopped"]
  /\ Fault
  /\ UNCHANGED <<source, sender, routers, serving, entries, udp, sub>>

Refuse(d) ==
  /\ job[d].state = "sent" /\ server[job[d].to] = "stopped"
  /\ job' = Answer(d)
  /\ UNCHANGED <<source, loops, calls, routers, target, sub, faults>>

\* An error from the socket, or from a datagram, ends run_udp.
UdpFails(s) ==
  /\ s \in Frail /\ udp[s] = "running"
  /\ udp' = [udp EXCEPT ![s] = "dead"]
  /\ Fault
  /\ UNCHANGED <<source, sender, routers, server, serving, entries, sub>>

-----------------------------------------------------------------------------
(* data_subscribe and DataSubscriber *)

Ask(q, s, d) ==
  /\ sub[q].state = "none"
  /\ sub' = [sub EXCEPT ![q].at = s, ![q].of = d, ![q].sure = loops[d][s] > 0,
                        ![q].state = IF router[s] = "open" THEN "asked" ELSE "panicked"]
  /\ Send(s, <<"get", q>>)
  /\ UNCHANGED <<source, sender, routersButQueue, target, faults>>

\* Not published here: perhaps it is relayed.
AskRelayed(q) ==
  /\ sub[q].state = "missed"
  /\ sub' = [sub EXCEPT ![q].state = IF router[sub[q].at] = "open" THEN "asked relayed"
                                     ELSE "panicked"]
  /\ Send(sub[q].at, <<"get relayed", q>>)
  /\ UNCHANGED <<source, sender, routersButQueue, target, faults>>

\* subscribe_data locks what was found.
Subscribe(q) ==
  /\ sub[q].state = "found" /\ (sub[q].from = "local" => job[sub[q].of].state = "idle")
  /\ sub' = [sub EXCEPT ![q].state = "loop"]
  /\ UNCHANGED <<source, sender, routers, target, faults>>

\* DataSubscriber::close, or the transport closes.
CloseSubscriber(q) ==
  /\ sub[q].state = "loop" /\ ~sub[q].told
  /\ sub' = [sub EXCEPT ![q].told = TRUE]
  /\ Fault
  /\ UNCHANGED <<source, sender, routers, target>>

KeepsSender(q) == sub[q].told \* mutation: data_sender is not dropped before the loop
HasToStop(q) == sub[q].told \/ (sub[q].from = "local" /\ ~Alive(sub[q].of))

LoopEnds(q) ==
  /\ sub[q].state = "loop" /\ HasToStop(q)
  /\ sub' = [sub EXCEPT ![q].state = "ended"]
  /\ UNCHANGED <<source, sender, routers, target, faults>>

\* A receiver that fell behind by 1024 messages gets an error, which ends its loop.
Lags(q) ==
  /\ sub[q].state = "loop"
  /\ sub' = [sub EXCEPT ![q].state = "ended"]
  /\ Fault
  /\ UNCHANGED <<source, sender, routers, target>>

\* A message reaches a subscriber on the same router.
Hear(q) ==
  /\ sub[q].state = "loop" /\ sub[q].from = "local" /\ sub[q].of \notin closed
  /\ \E data \in Payloads[sub[q].of] : sub' = [sub EXCEPT ![q].heard = data]
  /\ UNCHANGED <<source, sender, routers, target, faults>>

\* A datagram of d reaches the UDP server of s, which hands the message to the
\* RelayedDataPublisher of the id it reads; those who hear it are the subscribers
\* whose channel is open.  Datagrams that are lost are not steps.
Datagram(d, data) ==
  Received(MarshalMessage([id |-> IdOf[d], isString |-> TRUE, data |-> data]))

Hearers(s, id) ==
  {q \in Subscribers : /\ sub[q].state = "loop" /\ sub[q].from = "relayed"
                       /\ sub[q].at = s /\ sub[q].of \in entries[s]
                       /\ IdOf[sub[q].of] = id}

Relay(d, s) ==
  /\ loops[d][s] > 0 /\ d \notin closed /\ udp[s] = "running"
  /\ \E data \in Payloads[d] :
       LET bytes == Datagram(d, data)
           message == UnmarshalMessage(bytes)
       IN /\ DecodesMessage(bytes)
          /\ \E open \in SUBSET Hearers(s, message.id) :
               sub' = [q \in Subscribers |->
                         IF q \in open THEN [sub[q] EXCEPT !.heard = message.data]
                         ELSE sub[q]]
  /\ UNCHANGED <<source, sender, routers, target, faults>>

-----------------------------------------------------------------------------
RouterHandles(s) ==
  \/ LockForPublished(s) \/ HandleDataPublished(s) \/ HandleDataRemoved(s)
  \/ HandleGetDataPublisher(s) \/ HandleGetRelayedDataPublisher(s) \/ HandleClosed(s)

Serve(d, s) ==
  \/ RouterUnknown(d, s) \/ ServeAgain(d, s) \/ BeginServing(d, s)
  \/ \E udpStarts \in BOOLEAN : ServeNew(d, s, udpStarts)

RelayGoesOn(d) == RelayReturns(d) \/ Refuse(d) \/ \E s \in Servers : Serve(d, s)
SubscriberGoesOn(q) == AskRelayed(q) \/ Subscribe(q) \/ LoopEnds(q)

Next ==
  \/ \E d \in DataPublishers :
       \/ OnDataChannel(d) \/ Announce(d) \/ CloseChannel(d) \/ DropHandle(d)
       \/ RelayGoesOn(d) \/ SendersEnd(d)
       \/ \E s \in Servers : RelayTo(d, s) \/ Relay(d, s)
  \/ \E s \in Servers :
       \/ RouterHandles(s) \/ CloseRouter(s) \/ WorkerForgets(s)
       \/ StopServer(s) \/ UdpFails(s)
  \/ \E q \in Subscribers :
       \/ SubscriberGoesOn(q) \/ CloseSubscriber(q) \/ Lags(q) \/ Hear(q)
       \/ \E w \in Wants[q] : Ask(q, w[1], w[2])

\* Tasks that can go on do, connections are accepted and mutexes handed over in the
\* order they were asked for, replies arrive.  Nothing is assumed of the
\* application, the network or the browsers.
Fairness ==
  /\ \A d \in DataPublishers : WF_vars(Announce(d)) /\ SF_vars(RelayGoesOn(d))
  /\ \A s \in Servers : WF_vars(RouterHandles(s))
  /\ \A q \in Subscribers : SF_vars(SubscriberGoesOn(q))

Spec == Init /\ [][Next]_vars
FairSpec == Spec /\ Fairness

-----------------------------------------------------------------------------
(* Properties *)

\* The variables have their types; the router's loop waits only for the
\* DataPublisher it was told of, and the relay server works on requests that
\* somebody waits for.
TypeOK ==
  /\ stage \in [DataPublishers -> {"none", "given", "announced"}]
  /\ closed \subseteq DataPublishers /\ early \subseteq closed /\ held \subseteq DataPublishers
  /\ job \in [DataPublishers -> [state : {"idle", "sent", "answered"},
                                 to : Servers \cup {None}, port : BOOLEAN]]
  /\ loops \in [DataPublishers -> [Servers -> 0 .. MaxCalls]] /\ calls \in 0 .. MaxCalls
  /\ faults \in 0 .. MaxFaults
  /\ router \in [Servers -> {"open", "closed", "forgotten"}]
  /\ locked \in [Servers -> BOOLEAN]
  /\ \A s \in Servers : locked[s] => queue[s] # << >> /\ Head(queue[s])[1] = "published"
  /\ listed \in [Servers -> SUBSET DataPublishers]
  /\ relayed \in [Servers -> SUBSET DataPublishers]
  /\ entries \in [Servers -> SUBSET DataPublishers]
  /\ server \in [Servers -> {"up", "stopped"}]
  /\ udp \in [Servers -> {"none", "running", "dead"}]
  /\ serving \in [Servers -> DataPublishers \cup {None}]
  /\ \A s \in Servers :
       serving[s] # None => job[serving[s]].state = "sent" /\ job[serving[s]].to = s

\* A loop that sends the messages of a data publisher to a server has somebody
\* there to receive them: an entry by its id, a UDP server that was started and
\* the router that lists it, whatever failed or was refused before.
SenderHasReceiver ==
  \A d \in DataPublishers, s \in Servers :
    loops[d][s] > 0 => d \in entries[s] /\ udp[s] # "none" /\ d \in relayed[s]

\* "Once the relay is established you can subscribe": data_subscribe on the target
\* finds a data publisher whose relay_to has returned, unless the router closes.
EstablishedIsFound ==
  \A q \in Subscribers : sub[q].sure => sub[q].state # "failed"

\* What a subscriber last heard was said by the data publisher it subscribed to, whole,
\* unless it is longer than what the UDP server reads of a datagram.
Fits(d, data) == Len(IdOf[d]) + 2 + Len(data) <= Buffer
HeardIsSaid ==
  \A q \in Subscribers :
    LET data == sub[q].heard
    IN \/ data = << >> \/ data \in Payloads[sub[q].of]
       \/ \E long \in Payloads[sub[q].of] :
            ~Fits(sub[q].of, long) /\ data = SubSeq(long, 1, Len(data))

\* Two servers wait for each other: each relay server has a request of a data
\* publisher of the other, and waits for its router, whose loop waits for a data
\* publisher that waits for the other server.
Waits(s, t) ==
  /\ serving[s] # None /\ locked[s]
  /\ job[Subject(s)].state = "sent" /\ job[Subject(s)].to = t
Crossed == \E s, t \in Servers : Waits(s, t) /\ Waits(t, s)

\* relay_to and data_subscribe return, whatever is closed, stopped or fails
\* meanwhile, except when two servers' requests have crossed.  (There are finitely
\* many calls: that each returns is that in the end none is pending.)
Pending ==
  \/ \E d \in DataPublishers : job[d].state # "idle"
  \/ \E q \in Subscribers : sub[q].state \in {"asked", "missed", "asked relayed", "found"}
CallsReturn == Pending ~> (~Pending \/ Crossed)

\* A DataSubscriber ends once it or its transport is closed, and one on the
\* publisher's own router once the channel is closed and its handle dropped,
\* provided the channel was announced first and the router lives to hear of it.
Unneeded(q) ==
  /\ sub[q].from = "local" /\ router[sub[q].at] = "open"
  /\ sub[q].of \in closed \ (early \cup held)
Overdue(q) == sub[q].state = "loop" /\ (sub[q].told \/ Unneeded(q))
SubscribersEnd ==
  \A q \in Subscribers : Overdue(q) ~> (~Overdue(q) \/ (Crossed /\ ~sub[q].told))
=============================================================================
