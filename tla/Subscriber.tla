-------------------------------- MODULE Subscriber --------------------------------
(***************************************************************************)
(* The tasks of a Subscriber (src/sfu/src/subscriber.rs): the loops that   *)
(* forward RTP and those that forward RTCP, one pair for each encoding the *)
(* subscriber was ever switched to, queued behind two locks; its event     *)
(* loop; and the tasks of the publisher's LocalTracks they depend on       *)
(* (src/sfu/src/local_track.rs).  What happens to the packets themselves   *)
(* is in module LayerFilter.                                               *)
(*                                                                         *)
(* A loop that waits for its lock has not subscribed to anything: what is  *)
(* signalled to the running loops meanwhile is never heard by it.          *)
(***************************************************************************)
EXTENDS Naturals

CONSTANTS
  Rids,      \* the encodings of a simulcast publisher
  First,     \* the one the Subscriber is created for
  MaxLoops   \* bound on the pairs of loops of the Subscriber

ASSUME SubscriberAssumption == First \in Rids /\ MaxLoops \in Nat \ {0}

Loops == 1 .. MaxLoops

VARIABLES
  track,            \* track[r]: "none" yet, "open", "closed" (told to close) or "gone"
  writer,           \* rtcp_writer_loop of First's LocalTrack
  target,           \* publisher_ssrc of the Subscriber, as an encoding
  layer,            \* layer[k]: the encoding loop k is for
  rtp, poll,        \* rtp[k], poll[k]: the two loops of pair k
  rtpTold, pollTold,  \* the loops with a `replaced` they have not read
  eventLoop,        \* subscriber_event_loop
  closeEvent,       \* SubscriberEvent::Close is in its queue
  signal,           \* the closed signal waits to be read by it
  closed,           \* the Subscriber was closed or dropped
  transportClosed,  \* the watch channel of the SubscribeTransport
  hurried           \* history: a switch or a close found a loop still waiting for its
                    \* lock or the event loop not begun, or a switch came after the close

tracks == <<track, writer>>
loops == <<layer, rtp, poll, rtpTold, pollTold>>
events == <<eventLoop, closeEvent, signal, closed, transportClosed>>
vars == <<tracks, target, loops, events, hurried>>

\* Subscriber::new, in the middle of a publisher's life.
Init ==
  /\ target = First
  /\ track = [r \in Rids |-> IF r = First THEN "open" ELSE "none"]
  /\ writer = "spawned"
  /\ layer = [k \in Loops |-> First]
  /\ rtp = [k \in Loops |-> IF k = 1 THEN "waiting" ELSE "none"]
  /\ poll = rtp
  /\ rtpTold = {} /\ pollTold = {}
  /\ eventLoop = "spawned"
  /\ closeEvent = FALSE /\ signal = FALSE /\ closed = FALSE /\ transportClosed = FALSE
  /\ hurried = FALSE

Phases == {"none", "waiting", "active", "done"}
In(phase, f) == {k \in Loops : f[k] = phase}
Waiting == In("waiting", rtp) # {} \/ In("waiting", poll) # {}
Flows(r) == track[r] \in {"open", "closed"}

-----------------------------------------------------------------------------
(* The publisher and its LocalTracks *)

TrackOpens(r) ==
  /\ track[r] = "none" /\ track[First] = "open"
  /\ track' = [track EXCEPT ![r] = "open"]
  /\ UNCHANGED <<writer, target, loops, events, hurried>>

\* PublisherEvent::Close closes every local track and drops it.
PublisherCloses ==
  /\ track[First] = "open"
  /\ track' = [r \in Rids |-> IF track[r] = "open" THEN "closed" ELSE track[r]]
  /\ UNCHANGED <<writer, target, loops, events, hurried>>

\* The LocalTrack's rtp_event_loop ends, and drops its packet sender.
TrackTaskEnds(r) ==
  /\ track[r] = "closed"
  /\ track' = [track EXCEPT ![r] = "gone"]
  /\ UNCHANGED <<writer, target, loops, events, hurried>>

\* rtcp_writer_loop subscribes once its task runs, and its task holds a sender of
\* the channel: a close that came before is never heard.
WriterStarts ==
  /\ writer = "spawned"
  /\ writer' = IF track[First] = "open" THEN "running" ELSE "stuck"
  /\ UNCHANGED <<track, target, loops, events, hurried>>

WriterEnds ==
  /\ writer = "running" /\ track[First] # "open"
  /\ writer' = "done"
  /\ UNCHANGED <<track, target, loops, events, hurried>>

-----------------------------------------------------------------------------
(* What is asked of the Subscriber *)

\* Loops that have subscribed to `replaced` and are there to read it.
NobodyIsTold(f, told) == told \* mutation: change_rid does not send `replaced`
Told(f, told) == told \cup In("active", f)

\* get_local_track: the encoding, or any other if there is no such one.
Found(rid) ==
  IF track[rid] = "open" THEN {rid} ELSE {r \in Rids : track[r] = "open"}

\* change_rid, for a user or for PublisherType's SetPrefferedLayer: the next pair
\* of loops is spawned, and those that run are told to end.
ChangeRid(rid) ==
  \E r \in Found(rid), k \in Loops :
    /\ r # target
    /\ rtp[k] = "none" /\ (k = 1 \/ rtp[k - 1] # "none")
    /\ target' = r
    /\ layer' = [layer EXCEPT ![k] = r]
    /\ rtp' = [rtp EXCEPT ![k] = "waiting"]
    /\ poll' = [poll EXCEPT ![k] = "waiting"]
    /\ rtpTold' = Told(rtp, rtpTold) /\ pollTold' = Told(poll, pollTold)
    /\ hurried' = (hurried \/ closed \/ Waiting)
    /\ UNCHANGED <<tracks, events>>

Forgets(f, told) == told \* mutation: close() only tells the event loop
ToldToClose(f, told) == told \cup In("active", f)

\* close: `closed` for the event loop and for the user, `replaced` for the loops.
CloseSubscriber ==
  /\ closed' = TRUE
  /\ signal' = (eventLoop = "running")
  /\ rtpTold' = ToldToClose(rtp, rtpTold) /\ pollTold' = ToldToClose(poll, pollTold)
  /\ hurried' = (hurried \/ (~closed /\ (Waiting \/ eventLoop = "spawned")))
  /\ UNCHANGED <<tracks, target, layer, rtp, poll, eventLoop, closeEvent, transportClosed>>

\* drop, once the event loop has let the Subscriber go, does what close does.
DropSubscriber ==
  /\ eventLoop = "done"
  /\ CloseSubscriber

CloseTransport ==
  /\ ~transportClosed
  /\ transportClosed' = TRUE
  /\ UNCHANGED <<tracks, target, loops, eventLoop, closeEvent, signal, closed, hurried>>

-----------------------------------------------------------------------------
(* rtp_event_loop *)

Unguarded(f) == TRUE \* mutation: `let _ = loop_lock.lock().await` drops the guard at once
LockFree(f) == In("active", f) = {}

RtpAcquire(k) ==
  /\ rtp[k] = "waiting" /\ LockFree(rtp)
  /\ rtp' = [rtp EXCEPT ![k] = "active"]
  /\ UNCHANGED <<tracks, target, layer, poll, rtpTold, pollTold, events, hurried>>

\* A channel has no sender left when its track's task is gone and no loop that
\* waits still holds the one it was spawned with.
HeldByItself(r) == Flows(r) \/ \E k \in Loops : rtp[k] # "none" /\ layer[k] = r \* mutation: the sender is not dropped
ChannelOpen(r) == Flows(r) \/ \E k \in In("waiting", rtp) : layer[k] = r

RtpStops(k) == k \in rtpTold \/ transportClosed

RtpEnds(k) ==
  /\ rtp[k] = "active"
  /\ \/ RtpStops(k)
     \/ ~ChannelOpen(layer[k])
     \/ Flows(layer[k]) /\ writer = "done"  \* at the next packet
  /\ rtp' = [rtp EXCEPT ![k] = "done"]
  /\ rtpTold' = rtpTold \ {k}
  /\ UNCHANGED <<tracks, target, layer, poll, pollTold, events, hurried>>

-----------------------------------------------------------------------------
(* track_local_poll *)

PollAcquire(k) ==
  /\ poll[k] = "waiting" /\ LockFree(poll)
  /\ poll' = [poll EXCEPT ![k] = "active"]
  /\ UNCHANGED <<tracks, target, layer, rtp, rtpTold, pollTold, events, hurried>>

PollDone(k) ==
  /\ poll[k] = "active"
  /\ poll' = [poll EXCEPT ![k] = "done"]
  /\ pollTold' = pollTold \ {k}
  /\ UNCHANGED <<tracks, target, layer, rtp, rtpTold, eventLoop, signal, closed,
                 transportClosed, hurried>>

PollEnds(k) ==
  /\ k \in pollTold \/ transportClosed
  /\ PollDone(k)
  /\ UNCHANGED closeEvent

\* RTCP from the client finds that nobody writes the publisher's RTCP any more.
RtcpArrives(k) ==
  /\ writer = "done"
  /\ closeEvent' = (eventLoop # "done")
  /\ PollDone(k)

\* The track has no events left, its transport being closed.
PollCloses(k) ==
  /\ transportClosed
  /\ closeEvent' = (eventLoop # "done")
  /\ PollDone(k)

-----------------------------------------------------------------------------
(* subscriber_event_loop *)

EventLoopStarts ==
  /\ eventLoop = "spawned"
  /\ eventLoop' = "running"
  /\ UNCHANGED <<tracks, target, loops, closeEvent, signal, closed, transportClosed, hurried>>

\* `closed`, the end of the transport or Close, in whatever order they are found.
\* What the loop waits for in the arm of SetPrefferedLayer (the Subscriber, the router
\* and the publisher of ChangeRid) is taken to come.
EventLoopEnds ==
  /\ eventLoop = "running"
  /\ signal \/ transportClosed \/ closeEvent
  /\ eventLoop' = "done" /\ signal' = FALSE /\ closeEvent' = FALSE
  /\ UNCHANGED <<tracks, target, loops, closed, transportClosed, hurried>>

-----------------------------------------------------------------------------
Requests ==
  \/ \E r \in Rids : TrackOpens(r) \/ ChangeRid(r)
  \/ PublisherCloses \/ CloseSubscriber \/ DropSubscriber \/ CloseTransport

TrackTasks == (\E r \in Rids : TrackTaskEnds(r)) \/ WriterStarts \/ WriterEnds
RtpLoop(k) == RtpAcquire(k) \/ RtpEnds(k)
PollLoop(k) == PollAcquire(k) \/ PollEnds(k) \/ RtcpArrives(k) \/ PollCloses(k)
EventLoop == EventLoopStarts \/ EventLoopEnds

Next ==
  \/ Requests \/ TrackTasks \/ EventLoop
  \/ \E k \in Loops : RtpLoop(k) \/ PollLoop(k)

Spec == Init /\ [][Next]_vars

\* Tasks are scheduled, a lock that is free is given to somebody, and the client
\* goes on sending RTCP.  Which of the waiting loops gets the lock is open.
Fairness ==
  /\ WF_vars(TrackTasks) /\ WF_vars(EventLoop)
  /\ WF_vars(\E k \in Loops : RtpLoop(k)) /\ WF_vars(\E k \in Loops : PollLoop(k))

FairSpec == Spec /\ Fairness

-----------------------------------------------------------------------------
(* Properties *)

\* Pairs of loops are started together, at most one loop of each kind has its
\* lock, only one that has it can have been told, and one pair is the target's.
LoopsOK ==
  /\ target \in Rids /\ layer \in [Loops -> Rids]
  /\ rtp \in [Loops -> Phases] /\ poll \in [Loops -> Phases]
  /\ \A k \in Loops : rtp[k] = "none" <=> poll[k] = "none"
  /\ \A j, k \in In("active", rtp) : j = k
  /\ \A j, k \in In("active", poll) : j = k
  /\ rtpTold \subseteq In("active", rtp) /\ pollTold \subseteq In("active", poll)
  /\ \E k \in Loops : rtp[k] # "none" /\ layer[k] = target

TasksOK ==
  /\ track \in [Rids -> {"none", "open", "closed", "gone"}]
  /\ writer \in {"spawned", "running", "stuck", "done"}
  /\ eventLoop \in {"spawned", "running", "done"}
  /\ signal => eventLoop = "running" /\ closed

TypeOK == LoopsOK /\ TasksOK

\* A loop that forwards, and was not told to end, forwards the encoding that was
\* asked for last, and none does once the Subscriber is closed.  Not so when two
\* requests come before the first has been carried out (`hurried`): the second
\* `replaced` goes to the loop that got the first.
LatestLayer ==
  ~hurried => \A k \in In("active", rtp) \ rtpTold : layer[k] = target /\ ~closed

\* A loop that was switched to gets the lock, however the one before it ends and
\* whatever ends meanwhile; again unless the requests came too fast.
SwitchHappens ==
  (In("waiting", rtp) # {}) ~> (hurried \/ In("waiting", rtp) = {})

\* A closed SubscribeTransport ends every loop of its subscribers, the ones that
\* were waiting for a lock included; a closed Subscriber forwards nothing more,
\* unless hurried.
CloseEndsLoops ==
  /\ transportClosed ~> (/\ Waiting = FALSE
                         /\ In("active", rtp) = {} /\ In("active", poll) = {}
                         /\ eventLoop = "done")
  /\ closed ~> (hurried \/ In("active", rtp) = {})

\* When the publisher closes, the Subscriber's event loop ends and stops the user's
\* waiting, and no loop goes on; unless rtcp_writer_loop missed the close.
PublisherEndsSubscriber ==
  (track[First] # "open")
    ~> (\/ writer = "stuck" \/ hurried
        \/ eventLoop = "done" /\ In("active", rtp) = {} /\ ~Waiting)
=============================================================================
