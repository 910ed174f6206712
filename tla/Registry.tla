-------------------------------- MODULE Registry --------------------------------
(***************************************************************************)
(* Who is published where: a Worker, its Routers and the Publishers and    *)
(* DataPublishers that announce themselves to a Router                     *)
(* (src/sfu/src/worker.rs, router.rs, publisher.rs, data_publisher.rs).    *)
(*                                                                         *)
(* Router, Publisher and Worker are actors: each has an unbounded FIFO     *)
(* queue of events and a loop that handles them one at a time.  Everything *)
(* a publisher tells its router travels through the router's queue, so the *)
(* router's list lags behind the publishers it lists.  Of relaying only    *)
(* this is kept: whoever relays holds the (data) publisher's mutex until   *)
(* the other server replies, and nothing bounds that wait.                 *)
(***************************************************************************)
EXTENDS Naturals, Sequences, FiniteSetsExt

CONSTANTS
  Routers, Publishers, DataPublishers,
  Lookups,     \* find_local_track calls
  Ssrcs,
  Ids,         \* track ids, chosen by the browsers
  IdOf,        \* the track id of each Publisher
  RouterOf     \* the router each publisher, data publisher and lookup uses

Nobody == "nobody"

ASSUME RegistryAssumption ==
  /\ Nobody \notin Publishers
  /\ IdOf \in [Publishers -> Ids]
  /\ RouterOf \in [Publishers \cup DataPublishers \cup Lookups -> Routers]

VARIABLES
  routers,       \* Worker.routers
  workerQueue,   \* events of the worker: ids of routers to forget
  stopped,       \* history: routers that ran when Worker.close was called
  routerQueue,   \* events of each router
  routerLoop,    \* "running", or "closing" once Closed is queued, or "done"
  publishers,    \* Router.publishers: a set of <<n, p>>, in the order of n
  dataPublishers,\* Router.data_publishers
  queue,         \* events of each publisher
  loop,          \* each publisher's event loop: "none", "running", "closing" (Close is
                 \* handled, the targets are being told), "done"
  polling,       \* publishers whose remote track is still polled
  closing,       \* publishers somebody called close() on
  localTracks,   \* Publisher.local_tracks, by ssrc
  inputs,        \* Publisher.rtp_senders, by ssrc
  published,     \* Publisher.published
  relayed,       \* publishers whose Publisher.relayed_targets is not empty
  relaying,      \* (data) publishers whose mutex is held across a relay request
  dataLoop,      \* each data channel: "none", "created" (not announced), "open", "ended",
                 \* "endedEarly" (before the announcement), then "overtaken"
  lookup         \* state of each find_local_track call, with the publisher found

relayVars == <<relayed, relaying>>
workerVars == <<routers, workerQueue, stopped>>
routerVars == <<routerQueue, routerLoop, publishers, dataPublishers>>
publisherVars == <<queue, loop, polling, closing, localTracks, inputs, published>>
vars == <<workerVars, routerVars, publisherVars, relayVars, dataLoop, lookup>>

Opened(s) == [type |-> "TrackOpened", ssrc |-> s]
Added(s) == [type |-> "TrackAdded", ssrc |-> s]
Closing == [type |-> "Close"]
MediaPublished(p) == [type |-> "MediaPublished", pub |-> p]
PublisherRemoved(p) == [type |-> "PublisherRemoved", id |-> IdOf[p]]
DataPublished(d) == [type |-> "DataPublished", pub |-> d]
DataRemoved(d) == [type |-> "DataRemoved", pub |-> d]
GetPublisher(q, id) == [type |-> "GetPublisher", lookup |-> q, id |-> id]
Closed == [type |-> "Closed"]

Init ==
  /\ routers = {} /\ workerQueue = <<>> /\ stopped = {}
  /\ routerQueue = [r \in Routers |-> <<>>]
  /\ routerLoop = [r \in Routers |-> "none"]
  /\ publishers = [r \in Routers |-> {}]
  /\ dataPublishers = [r \in Routers |-> {}]
  /\ queue = [p \in Publishers |-> <<>>]
  /\ loop = [p \in Publishers |-> "none"]
  /\ polling = {} /\ closing = {}
  /\ localTracks = [p \in Publishers |-> {}]
  /\ inputs = [p \in Publishers |-> {}]
  /\ published = {} /\ relayed = {} /\ relaying = {}
  /\ dataLoop = [d \in DataPublishers |-> "none"]
  /\ lookup = [q \in Lookups |-> [state |-> "idle", pub |-> Nobody]]

\* What a send leaves in a router's queue: nothing once its loop has returned.
Sent(r, e) == IF routerLoop[r] = "done" THEN routerQueue
              ELSE [routerQueue EXCEPT ![r] = Append(@, e)]

-----------------------------------------------------------------------------
(* Worker and the application *)

NewRouter(r) ==
  /\ routerLoop[r] = "none"
  /\ routerLoop' = [routerLoop EXCEPT ![r] = "running"]
  /\ routers' = routers \cup {r}
  /\ UNCHANGED <<workerQueue, stopped, routerQueue, publishers, dataPublishers,
                 publisherVars, relayVars, dataLoop, lookup>>

\* Worker.close signals the relay server; nothing is sent to a router.
CloseWorker ==
  /\ stopped' = stopped \cup {r \in Routers : routerLoop[r] = "running"}
  /\ UNCHANGED <<routers, workerQueue, routerVars, publisherVars, relayVars,
                 dataLoop, lookup>>

WorkerHandles ==
  /\ workerQueue # <<>>
  /\ routers' = routers \ {Head(workerQueue)}
  /\ workerQueue' = Tail(workerQueue)
  /\ UNCHANGED <<stopped, routerVars, publisherVars, relayVars, dataLoop, lookup>>

CloseRouter(r) ==
  /\ routerLoop[r] = "running"
  /\ routerQueue' = Sent(r, Closed)
  /\ routerLoop' = [routerLoop EXCEPT ![r] = "closing"]
  /\ UNCHANGED <<workerVars, publishers, dataPublishers, publisherVars, relayVars,
                 dataLoop, lookup>>

-----------------------------------------------------------------------------
(* Publisher: Publisher::new, track_remote_poll and publisher_event_loop *)

OnTrack(p) ==
  /\ loop[p] = "none" /\ routerLoop[RouterOf[p]] # "none"
  /\ loop' = [loop EXCEPT ![p] = "running"]
  /\ polling' = polling \cup {p}
  /\ UNCHANGED <<workerVars, routerVars, queue, closing, localTracks, inputs,
                 published, relayVars, dataLoop, lookup>>

\* An event a publisher is sent after its loop returned is lost.
Told(p, e) == IF loop[p] = "done" THEN queue ELSE [queue EXCEPT ![p] = Append(@, e)]

\* TrackRemoteEvent::OnOpen, once per encoding.
TrackOpens(p, s) ==
  /\ p \in polling
  /\ \A i \in DOMAIN queue[p] : queue[p][i] # Opened(s) \* bound: a queued one is enough
  /\ queue' = Told(p, Opened(s))
  /\ UNCHANGED <<workerVars, routerVars, loop, polling, closing, localTracks,
                 inputs, published, relayVars, dataLoop, lookup>>

\* The poll loop ends: no packet finds a sender any more, and the publisher closes.
TrackEnds(p) ==
  /\ p \in polling
  /\ polling' = polling \ {p}
  /\ inputs' = [inputs EXCEPT ![p] = {}]
  /\ queue' = Told(p, Closing)
  /\ UNCHANGED <<workerVars, routerVars, loop, closing, localTracks, published,
                 relayVars, dataLoop, lookup>>

\* Somebody waits for a reply of another server with the publisher's mutex.
Held(p) == p \in relaying \/ loop[p] = "closing"

\* Publisher.close, by the application or by the transport's cleanup.
ClosePublisher(p) ==
  /\ loop[p] # "none" /\ p \notin closing /\ ~Held(p)
  /\ closing' = closing \cup {p}
  /\ queue' = Told(p, Closing)
  /\ UNCHANGED <<workerVars, routerVars, loop, polling, localTracks, inputs,
                 published, relayVars, dataLoop, lookup>>

Next1(p, type) ==
  loop[p] = "running" /\ queue[p] # <<>> /\ Head(queue[p]).type = type /\ ~Held(p)

NoInput(p, s) == inputs[p] \* mutation: the sender is not registered
WithInput(p, s) == inputs[p] \cup {s}

\* create_local_track: a second one for the same ssrc is not made.
HandleTrackOpened(p) ==
  /\ Next1(p, "TrackOpened")
  /\ LET s == Head(queue[p]).ssrc IN
       IF s \in localTracks[p]
         THEN /\ queue' = [queue EXCEPT ![p] = Tail(@)]
              /\ UNCHANGED <<localTracks, inputs>>
         ELSE /\ queue' = [queue EXCEPT ![p] = Append(Tail(@), Added(s))]
              /\ localTracks' = [localTracks EXCEPT ![p] = @ \cup {s}]
              /\ inputs' = [inputs EXCEPT ![p] = WithInput(p, s)]
  /\ UNCHANGED <<workerVars, routerVars, loop, polling, closing, published,
                 relayVars, dataLoop, lookup>>

AtEveryTrack(p) == TRUE \* mutation: announced once per encoding
NotAgain(p) == FALSE \* mutation: the flag is set before it is tested
FirstTrack(p) == p \notin published

\* The first track announces the publisher; then every track goes to the targets.
HandleTrackAdded(p) ==
  /\ Next1(p, "TrackAdded")
  /\ queue' = [queue EXCEPT ![p] = Tail(@)]
  /\ published' = published \cup {p}
  /\ routerQueue' = IF FirstTrack(p) THEN Sent(RouterOf[p], MediaPublished(p))
                    ELSE routerQueue
  /\ relaying' = IF p \in relayed THEN relaying \cup {p} ELSE relaying
  /\ UNCHANGED <<workerVars, routerLoop, publishers, dataPublishers, loop, polling,
                 closing, localTracks, inputs, relayed, dataLoop, lookup>>

\* What Close tells the router.
NoRemoval(p) == routerQueue \* mutation: the router is not told
Removal(p) == Sent(RouterOf[p], PublisherRemoved(p))

\* Close: the tracks are closed and dropped, and the targets are told.
HandleClose(p) ==
  /\ Next1(p, "Close")
  /\ localTracks' = [localTracks EXCEPT ![p] = {}]
  /\ inputs' = [inputs EXCEPT ![p] = {}]
  /\ loop' = [loop EXCEPT ![p] = "closing"]
  /\ UNCHANGED <<workerVars, routerVars, queue, polling, closing, published, relayVars,
                 dataLoop, lookup>>

\* Then the router is told and the loop returns; what is still queued is lost.  The
\* TrackRemoved each local track sends as it ends comes after that: a local track
\* is closed in HandleClose and nowhere else.
Leave(p) ==
  /\ loop[p] = "closing"
  /\ routerQueue' = Removal(p)
  /\ loop' = [loop EXCEPT ![p] = "done"]
  /\ queue' = [queue EXCEPT ![p] = <<>>]
  /\ UNCHANGED <<workerVars, routerLoop, publishers, dataPublishers, polling, closing,
                 localTracks, inputs, published, relayVars, dataLoop, lookup>>

\* relay_to of a publisher that has tracks, or of a data publisher, asks another
\* server ...
BeginRelay(x) ==
  /\ x \notin relaying
  /\ \/ x \in Publishers /\ localTracks[x] # {}
     \/ x \in DataPublishers /\ dataLoop[x] # "none"
  /\ relaying' = relaying \cup {x}
  /\ UNCHANGED <<workerVars, routerVars, publisherVars, relayed, dataLoop, lookup>>

\* ... which replies, or never does.  A publisher remembers the target unless the
\* reply was an error.
EndRelay(x) ==
  /\ x \in relaying
  /\ relaying' = relaying \ {x}
  /\ relayed' \in {relayed, relayed \cup ({x} \cap Publishers)}
  /\ UNCHANGED <<workerVars, routerVars, publisherVars, dataLoop, lookup>>

-----------------------------------------------------------------------------
(* DataPublisher: on_data_channel and poll_loop *)

\* DataPublisher::new spawns the poll loop.
OnDataChannel(d) ==
  /\ dataLoop[d] = "none" /\ routerLoop[RouterOf[d]] # "none"
  /\ dataLoop' = [dataLoop EXCEPT ![d] = "created"]
  /\ UNCHANGED <<workerVars, routerVars, publisherVars, relayVars, lookup>>

\* ... and on_data_channel goes on to announce it.
Announce(d) ==
  /\ dataLoop[d] \in {"created", "endedEarly"}
  /\ dataLoop' = [dataLoop EXCEPT ![d] = IF @ = "created" THEN "open" ELSE "overtaken"]
  /\ routerQueue' = Sent(RouterOf[d], DataPublished(d))
  /\ UNCHANGED <<workerVars, routerLoop, publishers, dataPublishers, publisherVars,
                 relayVars, lookup>>

\* The channel closes and the poll loop ends, perhaps before the announcement.
DataChannelCloses(d) ==
  /\ dataLoop[d] \in {"created", "open"}
  /\ dataLoop' = [dataLoop EXCEPT ![d] = IF @ = "open" THEN "ended" ELSE "endedEarly"]
  /\ routerQueue' = Sent(RouterOf[d], DataRemoved(d))
  /\ UNCHANGED <<workerVars, routerLoop, publishers, dataPublishers, publisherVars,
                 relayVars, lookup>>

-----------------------------------------------------------------------------
(* Router: router_event_loop *)

Next2(r, type) ==
  /\ routerLoop[r] \in {"running", "closing"}
  /\ routerQueue[r] # <<>> /\ Head(routerQueue[r]).type = type

Handled(r) == routerQueue' = [routerQueue EXCEPT ![r] = Tail(@)]

Newest(list) == Max({0} \cup {x[1] : x \in list})
Registered(list, p) == list \cup {<<Newest(list) + 1, p>>}

HandleMediaPublished(r) ==
  /\ Next2(r, "MediaPublished") /\ Handled(r)
  /\ publishers' = [publishers EXCEPT ![r] = Registered(@, Head(routerQueue[r]).pub)]
  /\ UNCHANGED <<workerVars, routerLoop, dataPublishers, publisherVars, relayVars,
                 dataLoop, lookup>>

Retained(list, id) == {x \in list : IdOf[x[2]] # id}

\* Every publisher registered under the id goes.
HandlePublisherRemoved(r) ==
  /\ Next2(r, "PublisherRemoved") /\ Handled(r)
  /\ publishers' =
       [publishers EXCEPT ![r] = Retained(@, Head(routerQueue[r]).id)]
  /\ UNCHANGED <<workerVars, routerLoop, dataPublishers, publisherVars, relayVars,
                 dataLoop, lookup>>

\* The data publisher is locked for its id.
HandleDataPublished(r) ==
  /\ Next2(r, "DataPublished") /\ Handled(r)
  /\ Head(routerQueue[r]).pub \notin relaying
  /\ dataPublishers' = [dataPublishers EXCEPT ![r] = @ \cup {Head(routerQueue[r]).pub}]
  /\ UNCHANGED <<workerVars, routerLoop, publishers, publisherVars, relayVars,
                 dataLoop, lookup>>

WithoutData(r, d) == dataPublishers[r] \ {d}

HandleDataRemoved(r) ==
  /\ Next2(r, "DataRemoved") /\ Handled(r)
  /\ dataPublishers' = [dataPublishers EXCEPT ![r] = WithoutData(r, Head(routerQueue[r]).pub)]
  /\ UNCHANGED <<workerVars, routerLoop, publishers, publisherVars, relayVars,
                 dataLoop, lookup>>

\* The reply is the first publisher registered under the id.
First(found) == {x \in found : \A y \in found : x[1] <= y[1]}
Found(found) == {[state |-> "found", pub |-> x[2]] : x \in First(found)}
Reply(q, found) ==
  IF found = {} THEN {[state |-> "unknown", pub |-> Nobody]} ELSE Found(found)

HandleGetPublisher(r) ==
  /\ Next2(r, "GetPublisher") /\ Handled(r)
  /\ LET e == Head(routerQueue[r])
         found == {x \in publishers[r] : IdOf[x[2]] = e.id}
     IN \E reply \in Reply(e.lookup, found) :
          lookup' = [lookup EXCEPT ![e.lookup] = reply]
  /\ UNCHANGED <<workerVars, routerLoop, publishers, dataPublishers, publisherVars,
                 relayVars, dataLoop>>

NoneUnanswered(r) == {} \* mutation: the queue outlives the loop, and nobody reads it
\* Lookups whose request is in a queue that is dropped: the reply channel closes
\* and rx.await.unwrap() panics.
Unanswered(r) ==
  {q \in Lookups : \E i \in 2 .. Len(routerQueue[r]) :
     routerQueue[r][i].type = "GetPublisher" /\ routerQueue[r][i].lookup = q}

Farewell(r) == Append(workerQueue, r)

HandleClosed(r) ==
  /\ Next2(r, "Closed")
  /\ workerQueue' = Farewell(r)
  /\ routerLoop' = [routerLoop EXCEPT ![r] = "done"]
  /\ routerQueue' = [routerQueue EXCEPT ![r] = <<>>]
  /\ lookup' = [q \in Lookups |-> IF q \in Unanswered(r)
                                  THEN [state |-> "panicked", pub |-> Nobody]
                                  ELSE lookup[q]]
  /\ UNCHANGED <<routers, stopped, publishers, dataPublishers, publisherVars,
                 relayVars, dataLoop>>

-----------------------------------------------------------------------------
(* find_local_track, called by a transport of the router *)

Ask(q, id) ==
  /\ lookup[q].state = "idle" /\ routerLoop[RouterOf[q]] # "none"
  /\ routerQueue' = Sent(RouterOf[q], GetPublisher(q, id))
  /\ lookup' = [lookup EXCEPT ![q].state =
                  IF routerLoop[RouterOf[q]] = "done" THEN "panicked" ELSE "asked"]
  /\ UNCHANGED <<workerVars, routerLoop, publishers, dataPublishers, publisherVars,
                 relayVars, dataLoop>>

\* The publisher's lock is taken after the reply: it may have closed meanwhile.
GetLocalTrack(q) ==
  /\ lookup[q].state = "found" /\ ~Held(lookup[q].pub)
  /\ lookup' = [lookup EXCEPT ![q].state =
                  IF localTracks[lookup[q].pub] = {} THEN "noTrack" ELSE "track"]
  /\ UNCHANGED <<workerVars, routerVars, publisherVars, relayVars, dataLoop>>

-----------------------------------------------------------------------------
RouterHandles(r) ==
  \/ HandleMediaPublished(r) \/ HandlePublisherRemoved(r)
  \/ HandleDataPublished(r) \/ HandleDataRemoved(r)
  \/ HandleGetPublisher(r) \/ HandleClosed(r)

PublisherHandles(p) == HandleTrackOpened(p) \/ HandleTrackAdded(p) \/ HandleClose(p)

Next ==
  \/ CloseWorker \/ WorkerHandles
  \/ \E r \in Routers : NewRouter(r) \/ CloseRouter(r) \/ RouterHandles(r)
  \/ \E p \in Publishers :
       \/ OnTrack(p) \/ TrackEnds(p) \/ ClosePublisher(p) \/ PublisherHandles(p) \/ Leave(p)
       \/ \E s \in Ssrcs : TrackOpens(p, s)
  \/ \E d \in DataPublishers : OnDataChannel(d) \/ Announce(d) \/ DataChannelCloses(d)
  \/ \E x \in Publishers \cup DataPublishers : BeginRelay(x) \/ EndRelay(x)
  \/ \E q \in Lookups : GetLocalTrack(q) \/ \E id \in Ids : Ask(q, id)

Spec == Init /\ [][Next]_vars

\* Tokio runs the event loops and the callers that have something to do, and its
\* mutex lets them in in the order they came, however often it is taken meanwhile
\* (the strong fairness).  What the application, the browsers and the servers a
\* publisher is relayed to do is up to them.
Fairness ==
  /\ WF_vars(WorkerHandles)
  /\ \A r \in Routers : SF_vars(RouterHandles(r))
  /\ \A p \in Publishers :
       WF_vars(PublisherHandles(p)) /\ WF_vars(p \notin relayed /\ Leave(p))
  /\ \A q \in Lookups : SF_vars(GetLocalTrack(q))

FairSpec == Spec /\ Fairness

-----------------------------------------------------------------------------
(* Properties *)

Events(r) == {routerQueue[r][i] : i \in DOMAIN routerQueue[r]}
Listed(r) == {x[2] : x \in publishers[r]}

\* Every variable keeps its type, and a router lists a publisher at most once,
\* however many encodings it has.
TypeOK ==
  /\ routers \subseteq Routers /\ workerQueue \in Seq(Routers)
  /\ stopped \subseteq Routers /\ relayed \subseteq Publishers
  /\ relaying \subseteq Publishers \cup DataPublishers
  /\ \A r \in Routers :
       /\ routerLoop[r] \in {"none", "running", "closing", "done"}
       /\ \A x, y \in publishers[r] : x[2] \in Publishers /\ (x[2] = y[2] => x = y)
       /\ dataPublishers[r] \subseteq DataPublishers
  /\ loop \in [Publishers -> {"none", "running", "closing", "done"}]
  /\ polling \subseteq Publishers /\ closing \subseteq Publishers
  /\ localTracks \in [Publishers -> SUBSET Ssrcs]
  /\ inputs \in [Publishers -> SUBSET Ssrcs]
  /\ published \subseteq Publishers
  /\ dataLoop \in [DataPublishers ->
                  {"none", "created", "open", "ended", "endedEarly", "overtaken"}]
  /\ \A q \in Lookups : lookup[q].pub \in Publishers \cup {Nobody}

\* A publisher that has closed leaves the list: while the router lists it, or is
\* about to, the removal of its id is queued behind.  The same for a data channel
\* that was announced before it closed.  (One that closes before on_data_channel
\* announces it stays listed for ever.)
RemovalFollows(r, removal, announcement) ==
  \E i \in DOMAIN routerQueue[r] :
    /\ routerQueue[r][i] = removal
    /\ \A j \in DOMAIN routerQueue[r] : routerQueue[r][j] = announcement => j < i

NoGhosts ==
  \A r \in Routers : routerLoop[r] # "done" =>
    /\ \A p \in Publishers :
         /\ loop[p] = "done" /\ r = RouterOf[p]
         /\ p \in Listed(r) \/ MediaPublished(p) \in Events(r)
         => RemovalFollows(r, PublisherRemoved(p), MediaPublished(p))
    /\ \A d \in DataPublishers :
         /\ dataLoop[d] = "ended" /\ r = RouterOf[d]
         /\ d \in dataPublishers[r] \/ DataPublished(d) \in Events(r)
         => RemovalFollows(r, DataRemoved(d), DataPublished(d))

\* A transport that finds a publisher gets a track of it unless the publisher
\* closed meanwhile: nobody sees a publisher before its first track, and no
\* packet of that track lacks a sender while the remote track is polled.
ListedHasTrack ==
  \A p \in Publishers :
    /\ loop[p] = "running"
    /\ \/ p \in Listed(RouterOf[p])
       \/ \E q \in Lookups : lookup[q].pub = p
    => localTracks[p] # {} /\ (p \in polling => inputs[p] = localTracks[p])

\* Registry implements Directory: a publisher is announced while its announcement is
\* queued, and a lookup has asked while its request is.
Stage(p) ==
  IF p \notin published THEN "new"
  ELSE IF MediaPublished(p) \in Events(RouterOf[p]) THEN "announced"
  ELSE IF p \in Listed(RouterOf[p]) THEN "listed" ELSE "gone"

Directed ==
  INSTANCE Directory WITH
    stage <- [p \in Publishers |-> Stage(p)],
    over <- {p \in Publishers : loop[p] \in {"closing", "done"}},
    stopped <- {r \in Routers : routerLoop[r] = "done"},
    asked <- [q \in Lookups |-> {id \in Ids : GetPublisher(q, id) \in Events(RouterOf[q])}]

\* publisher_ids: "This returns Publisher IDs that has already been published in this
\* router".  Whatever the order in which queues are read, nobody is listed twice or
\* again, an announcement is lost only with its router, a publisher leaves the list
\* only when one of its id has closed, and a lookup is told the truth about the list
\* and finds a track unless the publisher has closed.
KeepsDirectory == Directed!Spec

\* A lookup ends, with a track, an error or a panic, whatever closes meanwhile: it
\* hangs only when somebody waits for ever for another server with the mutex of the
\* publisher it was told of, or of the data publisher its router is about to list.
InProgress(q) == lookup[q].state \in {"asked", "found"}

KeptWaiting(q) ==
  \/ lookup[q].state = "found" /\ Held(lookup[q].pub)
  \/ /\ lookup[q].state = "asked" /\ routerQueue[RouterOf[q]] # <<>>
     /\ \E d \in relaying : Head(routerQueue[RouterOf[q]]) = DataPublished(d)

LookupsEnd ==
  \A q \in Lookups : InProgress(q) ~> (~InProgress(q) \/ []KeptWaiting(q))

\* Worker.close: "Closes the worker and stops all routers."
CloseStopsRouters ==
  \A r \in Routers : r \in stopped ~> routerLoop[r] = "done"
=============================================================================
