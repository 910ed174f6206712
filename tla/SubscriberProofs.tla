----------------------------- MODULE SubscriberProofs -----------------------------
(***************************************************************************)
(* The loops of a Subscriber, for any encodings and any number of switches: *)
(* types, the locks, and which encoding is forwarded.                      *)
(***************************************************************************)
EXTENDS Subscriber, TLAPS

\* The steps that start, end or signal no loop.
Elsewhere ==
  \/ \E r \in Rids : TrackOpens(r) \/ TrackTaskEnds(r)
  \/ PublisherCloses \/ CloseTransport \/ WriterStarts \/ WriterEnds \/ EventLoop

LEMMA OneIsALoop == 1 \in Loops
  BY SubscriberAssumption DEF Loops

LEMMA InitLoops == Init => LoopsOK
<1> SUFFICES ASSUME Init PROVE LoopsOK
  OBVIOUS
<1>1. /\ target = First /\ First \in Rids /\ poll = rtp
      /\ rtp = [k \in Loops |-> IF k = 1 THEN "waiting" ELSE "none"]
      /\ layer = [k \in Loops |-> First] /\ rtpTold = {} /\ pollTold = {}
  BY SubscriberAssumption DEF Init
<1>2. rtp \in [Loops -> Phases] /\ layer \in [Loops -> Rids]
  BY <1>1 DEF Phases
<1>3. In("active", rtp) = {}
  BY <1>1 DEF In
<1>4. rtp[1] # "none" /\ layer[1] = target
  BY <1>1, OneIsALoop
<1> QED BY <1>1, <1>2, <1>3, <1>4, OneIsALoop DEF LoopsOK

LEMMA InitTasks == Init => TasksOK
  BY DEF Init, TasksOK

\* They leave the loops as they are.
LEMMA ElsewhereFrame ==
  ASSUME Elsewhere \/ UNCHANGED vars
  PROVE  UNCHANGED <<target, layer, rtp, poll, rtpTold, pollTold, closed, hurried>>
<1>1. CASE \E r \in Rids : TrackOpens(r) \/ TrackTaskEnds(r)
  BY <1>1 DEF TrackOpens, TrackTaskEnds, loops, events
<1>2. CASE PublisherCloses \/ CloseTransport
  BY <1>2 DEF PublisherCloses, CloseTransport, loops, events
<1>3. CASE WriterStarts \/ WriterEnds
  BY <1>3 DEF WriterStarts, WriterEnds, loops, events
<1>4. CASE EventLoop
  BY <1>4 DEF EventLoop, EventLoopStarts, EventLoopEnds, loops
<1>5. CASE UNCHANGED vars
  BY <1>5 DEF vars, loops, events
<1> QED BY <1>1, <1>2, <1>3, <1>4, <1>5 DEF Elsewhere

\* A switch starts a pair of loops and changes which of them are active for none.
LEMMA ChangeRidLoops ==
  ASSUME LoopsOK, NEW rid \in Rids, ChangeRid(rid)
  PROVE  LoopsOK'
<1>1. PICK r \in Found(rid), k \in Loops :
         /\ rtp[k] = "none" /\ target' = r
         /\ layer' = [layer EXCEPT ![k] = r]
         /\ rtp' = [rtp EXCEPT ![k] = "waiting"]
         /\ poll' = [poll EXCEPT ![k] = "waiting"]
         /\ rtpTold' = Told(rtp, rtpTold) /\ pollTold' = Told(poll, pollTold)
  BY DEF ChangeRid
<1>2. r \in Rids BY <1>1 DEF Found
<1>3. In("active", rtp') = In("active", rtp)
  BY <1>1 DEF In, LoopsOK
<1>4. In("active", poll') = In("active", poll)
  BY <1>1 DEF In, LoopsOK
<1>5. /\ rtp' \in [Loops -> Phases] /\ poll' \in [Loops -> Phases]
      /\ layer' \in [Loops -> Rids] /\ target' \in Rids
  BY <1>1, <1>2 DEF LoopsOK, Phases
<1>6. rtp'[k] # "none" /\ layer'[k] = target'
  BY <1>1 DEF LoopsOK
<1>7. \A j \in Loops : rtp'[j] = "none" <=> poll'[j] = "none"
  BY <1>1 DEF LoopsOK
<1>8. rtpTold' \subseteq In("active", rtp) /\ pollTold' \subseteq In("active", poll)
  BY <1>1 DEF LoopsOK, Told
<1> QED BY <1>3, <1>4, <1>5, <1>6, <1>7, <1>8 DEF LoopsOK

\* A loop that gets or gives back its lock.
LEMMA RtpLoopLoops ==
  ASSUME LoopsOK, NEW k \in Loops, RtpLoop(k)
  PROVE  LoopsOK'
<1>1. CASE RtpAcquire(k)
  <2>1. /\ rtp[k] = "waiting" /\ In("active", rtp) = {}
        /\ rtp' = [rtp EXCEPT ![k] = "active"]
        /\ UNCHANGED <<target, layer, poll, rtpTold, pollTold>>
    BY <1>1 DEF RtpAcquire, LockFree
  <2>2. In("active", rtp') = {k}
    BY <2>1 DEF In, LoopsOK
  <2> QED BY <2>1, <2>2 DEF LoopsOK, Phases
<1>2. CASE RtpEnds(k)
  <2>1. /\ rtp[k] = "active" /\ rtp' = [rtp EXCEPT ![k] = "done"]
        /\ rtpTold' = rtpTold \ {k}
        /\ UNCHANGED <<target, layer, poll, pollTold>>
    BY <1>2 DEF RtpEnds
  <2>2. In("active", rtp') = In("active", rtp) \ {k}
    BY <2>1 DEF In, LoopsOK
  <2> QED BY <2>1, <2>2 DEF LoopsOK, Phases
<1> QED BY <1>1, <1>2 DEF RtpLoop

LEMMA PollLoopLoops ==
  ASSUME LoopsOK, NEW k \in Loops, PollLoop(k)
  PROVE  LoopsOK'
<1>1. CASE PollAcquire(k)
  <2>1. /\ poll[k] = "waiting" /\ In("active", poll) = {}
        /\ poll' = [poll EXCEPT ![k] = "active"]
        /\ UNCHANGED <<target, layer, rtp, rtpTold, pollTold>>
    BY <1>1 DEF PollAcquire, LockFree
  <2>2. In("active", poll') = {k}
    BY <2>1 DEF In, LoopsOK
  <2> QED BY <2>1, <2>2 DEF LoopsOK, Phases
<1>2. CASE PollDone(k)
  <2>1. /\ poll[k] = "active" /\ poll' = [poll EXCEPT ![k] = "done"]
        /\ pollTold' = pollTold \ {k}
        /\ UNCHANGED <<target, layer, rtp, rtpTold>>
    BY <1>2 DEF PollDone
  <2>2. In("active", poll') = In("active", poll) \ {k}
    BY <2>1 DEF In, LoopsOK
  <2> QED BY <2>1, <2>2 DEF LoopsOK, Phases
<1> QED BY <1>1, <1>2 DEF PollLoop, PollEnds, RtcpArrives, PollCloses

LEMMA CloseLoops ==
  ASSUME LoopsOK, CloseSubscriber
  PROVE  LoopsOK'
  BY DEF LoopsOK, CloseSubscriber, ToldToClose, tracks

\* Every step is one of these.
LEMMA StepCases ==
  ASSUME [Next]_vars
  PROVE  \/ Elsewhere \/ UNCHANGED vars
         \/ \E rid \in Rids : ChangeRid(rid)
         \/ CloseSubscriber
         \/ \E k \in Loops : RtpLoop(k) \/ PollLoop(k)
  BY DEF Next, Requests, TrackTasks, Elsewhere, DropSubscriber

LEMMA NextLoops ==
  ASSUME LoopsOK, [Next]_vars
  PROVE  LoopsOK'
<1>1. CASE Elsewhere \/ UNCHANGED vars
  BY <1>1, ElsewhereFrame DEF LoopsOK, In
<1>2. CASE ~(Elsewhere \/ UNCHANGED vars)
  BY <1>2, StepCases, ChangeRidLoops, CloseLoops, RtpLoopLoops, PollLoopLoops
<1> QED BY <1>1, <1>2

\* The state of the tasks: each changes on its own, and a close signal only waits
\* for an event loop that listens.
LEMMA NextTasks ==
  ASSUME TasksOK, [Next]_vars
  PROVE  TasksOK'
<1>1. CASE \E r \in Rids : TrackOpens(r) \/ TrackTaskEnds(r)
  BY <1>1 DEF TasksOK, TrackOpens, TrackTaskEnds, events
<1>2. CASE PublisherCloses
  BY <1>2 DEF TasksOK, PublisherCloses, events
<1>3. CASE WriterStarts \/ WriterEnds
  BY <1>3 DEF TasksOK, WriterStarts, WriterEnds, events
<1>4. CASE CloseTransport
  BY <1>4 DEF TasksOK, CloseTransport, tracks
<1>5. CASE EventLoopStarts
  BY <1>5 DEF TasksOK, EventLoopStarts, tracks
<1>6. CASE EventLoopEnds
  BY <1>6 DEF TasksOK, EventLoopEnds, tracks
<1>7. CASE CloseSubscriber
  BY <1>7 DEF TasksOK, CloseSubscriber, tracks
<1>8. CASE \E rid \in Rids : ChangeRid(rid)
  BY <1>8 DEF TasksOK, ChangeRid, tracks, events
<1>9. CASE \E k \in Loops : RtpLoop(k)
  BY <1>9 DEF TasksOK, RtpLoop, RtpAcquire, RtpEnds, tracks, events
<1>10. CASE \E k \in Loops : PollLoop(k)
  <2>1. UNCHANGED <<track, writer, eventLoop, signal, closed>>
    BY <1>10 DEF PollLoop, PollAcquire, PollEnds, RtcpArrives, PollCloses, PollDone, tracks, events
  <2> QED BY <2>1 DEF TasksOK
<1>11. CASE UNCHANGED vars
  BY <1>11 DEF TasksOK, vars, tracks, events
<1> QED BY <1>1, <1>2, <1>3, <1>4, <1>5, <1>6, <1>7, <1>8, <1>9, <1>10, <1>11, StepCases
        DEF Elsewhere, EventLoop

\* Types, locks and signals are right in every reachable state, for every set of
\* encodings and every number of switches: one loop at most forwards RTP and one
\* RTCP (the locks of subscriber.rs:319 and 439), and only a loop that has
\* subscribed to `replaced` can have been sent it.
THEOREM TypeCorrect == Spec => []TypeOK
<1>1. Init => TypeOK
  BY InitLoops, InitTasks DEF TypeOK
<1>2. TypeOK /\ [Next]_vars => TypeOK'
  BY NextLoops, NextTasks DEF TypeOK
<1> QED BY <1>1, <1>2, PTL DEF Spec

-----------------------------------------------------------------------------
(* Which encoding is forwarded *)

\* What the loop that is still to come will do: unless the requests came too fast
\* it is the only one, is for the target, and finds the Subscriber open.
NextIsLatest ==
  ~hurried => \A k \in In("waiting", rtp) : layer[k] = target /\ ~closed

Latest == LoopsOK /\ LatestLayer /\ NextIsLatest

LEMMA InitLatest == Init => LatestLayer /\ NextIsLatest
  BY DEF Init, LatestLayer, NextIsLatest, In

LEMMA NextLatest ==
  ASSUME Latest, [Next]_vars
  PROVE  LatestLayer' /\ NextIsLatest'
<1> USE DEF Latest
<1>1. CASE Elsewhere \/ UNCHANGED vars
  <2>1. UNCHANGED <<target, layer, rtp, poll, rtpTold, pollTold, closed, hurried>>
    BY <1>1, ElsewhereFrame
  <2> QED BY <2>1 DEF LatestLayer, NextIsLatest, In
<1>2. ASSUME NEW rid \in Rids, ChangeRid(rid)
      PROVE  LatestLayer' /\ NextIsLatest'
  <2>1. PICK r \in Rids, k \in Loops :
          /\ rtp[k] = "none" /\ target' = r
          /\ layer' = [layer EXCEPT ![k] = r]
          /\ rtp' = [rtp EXCEPT ![k] = "waiting"]
          /\ rtpTold' = rtpTold \cup In("active", rtp)
          /\ hurried' = (hurried \/ closed \/ Waiting)
          /\ UNCHANGED closed
    BY <1>2 DEF ChangeRid, Found, Told, events
  <2>2. In("active", rtp') \subseteq rtpTold'
    BY <2>1 DEF In, LoopsOK
  <2>3. ASSUME ~hurried' PROVE In("waiting", rtp') = {k} /\ ~closed'
    BY <2>1, <2>3 DEF Waiting, In, LoopsOK
  <2>4. layer'[k] = target'
    BY <2>1 DEF LoopsOK
  <2> QED BY <2>2, <2>3, <2>4 DEF LatestLayer, NextIsLatest
<1>3. ASSUME CloseSubscriber
      PROVE  LatestLayer' /\ NextIsLatest'
  <2>1. /\ rtpTold' = rtpTold \cup In("active", rtp) /\ UNCHANGED <<rtp, layer, target>>
        /\ hurried' = (hurried \/ (~closed /\ (Waiting \/ eventLoop = "spawned")))
    BY <1>3 DEF CloseSubscriber, ToldToClose
  <2>2. In("active", rtp') \ rtpTold' = {}
    BY <2>1
  <2>3. ASSUME ~hurried' PROVE In("waiting", rtp') = {}
    BY <2>1, <2>3 DEF Waiting, NextIsLatest
  <2> QED BY <2>2, <2>3 DEF LatestLayer, NextIsLatest
<1>4. ASSUME NEW k \in Loops, RtpAcquire(k)
      PROVE  LatestLayer' /\ NextIsLatest'
  <2>1. /\ rtp[k] = "waiting" /\ In("active", rtp) = {} /\ rtp' = [rtp EXCEPT ![k] = "active"]
        /\ UNCHANGED <<target, layer, rtpTold, closed, hurried>>
    BY <1>4 DEF RtpAcquire, LockFree, events
  <2>2. In("active", rtp') = {k} /\ In("waiting", rtp') \subseteq In("waiting", rtp)
    BY <2>1 DEF In, LoopsOK
  <2>3. k \in In("waiting", rtp)
    BY <2>1 DEF In
  <2> QED BY <2>1, <2>2, <2>3 DEF LatestLayer, NextIsLatest
<1>5. ASSUME NEW k \in Loops, RtpEnds(k)
      PROVE  LatestLayer' /\ NextIsLatest'
  <2>1. /\ rtp' = [rtp EXCEPT ![k] = "done"] /\ rtpTold' = rtpTold \ {k}
        /\ UNCHANGED <<target, layer, closed, hurried>>
    BY <1>5 DEF RtpEnds, events
  <2>2. /\ In("active", rtp') = In("active", rtp) \ {k}
        /\ In("waiting", rtp') \subseteq In("waiting", rtp)
    BY <2>1 DEF In, LoopsOK
  <2> QED BY <2>1, <2>2 DEF LatestLayer, NextIsLatest
<1>6. ASSUME NEW k \in Loops, PollLoop(k)
      PROVE  LatestLayer' /\ NextIsLatest'
  <2>1. UNCHANGED <<target, layer, rtp, rtpTold, closed, hurried>>
    BY <1>6 DEF PollLoop, PollAcquire, PollEnds, RtcpArrives, PollCloses, PollDone, events
  <2> QED BY <2>1 DEF LatestLayer, NextIsLatest, In
<1> QED BY <1>1, <1>2, <1>3, <1>4, <1>5, <1>6, StepCases DEF RtpLoop

\* A loop that forwards RTP and was not told to end forwards the encoding asked for
\* last, for a Subscriber that is open, whenever each switch and the close found
\* the switch before them carried out: the property set_preferred_layer and close
\* rest on, for any number of switches.
THEOREM LatestIsForwarded == Spec => []LatestLayer
<1>1. Init => Latest
  BY InitLoops, InitLatest DEF Latest
<1>2. Latest /\ [Next]_vars => Latest'
  BY NextLoops, NextLatest DEF Latest
<1>3. Latest => LatestLayer
  BY DEF Latest
<1> QED BY <1>1, <1>2, <1>3, PTL DEF Spec
=============================================================================
