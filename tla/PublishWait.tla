-------------------------------- MODULE PublishWait --------------------------------
(***************************************************************************)
(* How PublishTransport::publish gets the Publisher of a track that the    *)
(* browser has published, or is about to                                   *)
(* (src/sfu/src/publish_transport.rs): on_track puts each Publisher in a   *)
(* history and in a bounded channel (src/sfu/src/replay_channel.rs), a     *)
(* call looks through the history and then takes from the channel, which   *)
(* it shares with all the others, and cleanup closes both.  To read a      *)
(* track id or to close a Publisher they lock it, and relay_to and the     *)
(* Publisher's event loop hold that lock while another server has not      *)
(* answered them.                                                          *)
(*                                                                         *)
(* A Publisher stands for its track id.  The history keeps 65535 of them   *)
(* in the code, and forgets none here.                                     *)
(***************************************************************************)
EXTENDS Naturals, Sequences, SequencesExt

CONSTANTS
  Publishers,  \* what the browser publishes on this transport
  Calls,       \* calls of publish()
  Cleaners,    \* runs of cleanup: close()'s, and one for each Closed or Failed
  Capacity,    \* of the channel, 1024 in the code
  MaxRelays    \* bound: requests to other servers of a behaviour

ASSUME PublishWaitAssumption == Capacity \in Nat \ {0} /\ MaxRelays \in Nat

VARIABLES
  state,     \* state[p]: "none", "created", "pushed" (in the history), "announced"
  history,   \* the Publishers of the ReplayChannel's history
  queue,     \* its channel
  rxClosed,  \* the channel's receiver is closed
  stopped,   \* the Publishers that were told to close
  held,      \* the Publishers whose mutex a request to another server holds
  relays,    \* such requests so far
  call,      \* call[c]: "none", "searching", "missed", "receiving", "looking", "done", "failed"
  wants,     \* wants[c]: the publisher_id of call c
  toSee,     \* toSee[c]: the Publishers that call c is still to look at
  cleaner,   \* cleaner[k]: "none", "closing" (what it saw), "cleared", "done"
  seen,      \* seen[k]: the Publishers cleaner k is still to close
  crowded,   \* history: two calls waited at a time
  late       \* history: what was pushed between a cleanup's look at the history and its clear

publishers == <<state, stopped>>
locks == <<held, relays>>
channel == <<history, queue, rxClosed>>
callers == <<call, wants, toSee, crowded>>
cleaners == <<cleaner, seen>>
vars == <<publishers, locks, channel, callers, cleaners, late>>

Init ==
  /\ state = [p \in Publishers |-> "none"] /\ stopped = {}
  /\ held = {} /\ relays = 0
  /\ history = <<>> /\ queue = <<>> /\ rxClosed = FALSE
  /\ call = [c \in Calls |-> "none"] /\ toSee = [c \in Calls |-> <<>>]
  /\ wants \in [Calls -> Publishers]
  /\ cleaner = [k \in Cleaners |-> "none"] /\ seen = [k \in Cleaners |-> <<>>]
  /\ crowded = FALSE /\ late = {}

-----------------------------------------------------------------------------
(* The Publisher's mutex: relay_to, or its event loop for TrackAdded and Close,  *)
(* waits for another server with it.  An answer may never come.                  *)

Relay(p) ==
  /\ state[p] # "none" /\ p \notin held /\ relays < MaxRelays
  /\ held' = held \cup {p} /\ relays' = relays + 1
  /\ UNCHANGED <<publishers, channel, callers, cleaners, late>>

Answer(p) ==
  /\ p \in held
  /\ held' = held \ {p}
  /\ UNCHANGED <<publishers, relays, channel, callers, cleaners, late>>

-----------------------------------------------------------------------------
(* PublishHandler::on_track *)

OnTrack(p) ==
  /\ state[p] = "none"
  /\ state' = [state EXCEPT ![p] = "created"]
  /\ UNCHANGED <<stopped, locks, channel, callers, cleaners, late>>

\* ReplayChannel::send, its first half.
Unkept(p) == history \* mutation: a Publisher is only sent
Kept(p) == Append(history, p)

Push(p) ==
  /\ state[p] = "created"
  /\ state' = [state EXCEPT ![p] = "pushed"]
  /\ history' = Kept(p)
  /\ late' = IF \E k \in Cleaners : cleaner[k] = "closing" THEN late \cup {p} ELSE late
  /\ UNCHANGED <<stopped, locks, queue, rxClosed, callers, cleaners>>

\* Its second half waits for room in the channel, unless that is closed; on_track
\* then runs the user's callback.
Send(p) ==
  /\ state[p] = "pushed"
  /\ rxClosed \/ Len(queue) < Capacity
  /\ queue' = IF rxClosed THEN queue ELSE Append(queue, p)
  /\ state' = [state EXCEPT ![p] = "announced"]
  /\ UNCHANGED <<stopped, locks, history, rxClosed, callers, cleaners, late>>

-----------------------------------------------------------------------------
(* publish() *)

\* Calls that the channel has to serve.
Misses(c) == ~Contains(toSee[c], wants[c])
Waiting ==
  {c \in Calls : \/ call[c] \in {"missed", "receiving", "looking"}
                 \/ call[c] = "searching" /\ Misses(c)}

\* The history is copied once, before the wait ...
Publish(c) ==
  /\ call[c] = "none"
  /\ call' = [call EXCEPT ![c] = IF history = <<>> THEN "missed" ELSE "searching"]
  /\ toSee' = [toSee EXCEPT ![c] = history]
  /\ crowded' = (crowded \/ (~Contains(history, wants[c]) /\ Waiting # {}))
  /\ UNCHANGED <<publishers, locks, channel, wants, cleaners, late>>

\* ... and each of its Publishers is locked in turn.
Search(c) ==
  /\ call[c] = "searching" /\ Head(toSee[c]) \notin held
  /\ IF Head(toSee[c]) = wants[c]
       THEN /\ call' = [call EXCEPT ![c] = "done"]
            /\ toSee' = [toSee EXCEPT ![c] = <<>>]
       ELSE /\ call' = IF Tail(toSee[c]) = <<>> THEN [call EXCEPT ![c] = "missed"] ELSE call
            /\ toSee' = [toSee EXCEPT ![c] = Tail(@)]
  /\ UNCHANGED <<publishers, locks, channel, wants, crowded, cleaners, late>>

\* The lock of the receiver, kept until a Publisher has come and been looked at: its
\* guard is a temporary of the `while let`, so it lives through the loop's body.
Anyway == TRUE \* mutation: the receiver is not behind a lock
ReceiverFree == \A c \in Calls : call[c] \notin {"receiving", "looking"}

LockReceiver(c) ==
  /\ call[c] = "missed" /\ ReceiverFree
  /\ call' = [call EXCEPT ![c] = "receiving"]
  /\ UNCHANGED <<publishers, locks, channel, wants, toSee, crowded, cleaners, late>>

Receive(c) ==
  /\ call[c] = "receiving" /\ queue # <<>>
  /\ call' = [call EXCEPT ![c] = "looking"]
  /\ toSee' = [toSee EXCEPT ![c] = <<Head(queue)>>]
  /\ queue' = Tail(queue)
  /\ UNCHANGED <<publishers, locks, history, rxClosed, wants, crowded, cleaners, late>>

FirstOnly(c) == \* mutation: if let, not while let
  IF toSee[c] = <<wants[c]>> THEN "done" ELSE "failed"
Outcome(c) == IF toSee[c] = <<wants[c]>> THEN "done" ELSE "missed"

\* A Publisher that this call does not want is dropped.
LookAt(c) ==
  /\ call[c] = "looking" /\ Head(toSee[c]) \notin held
  /\ call' = [call EXCEPT ![c] = Outcome(c)]
  /\ toSee' = [toSee EXCEPT ![c] = <<>>]
  /\ UNCHANGED <<publishers, locks, channel, wants, crowded, cleaners, late>>

ReceiveNothing(c) ==
  /\ call[c] = "receiving" /\ queue = <<>> /\ rxClosed
  /\ call' = [call EXCEPT ![c] = "failed"]
  /\ UNCHANGED <<publishers, locks, channel, wants, toSee, crowded, cleaners, late>>

-----------------------------------------------------------------------------
(* cleanup, of close() and of a connection that is Closed or Failed *)

Look(k) ==
  /\ cleaner[k] = "none"
  /\ cleaner' = [cleaner EXCEPT ![k] = "closing"]
  /\ seen' = [seen EXCEPT ![k] = history]
  /\ UNCHANGED <<publishers, locks, channel, callers, late>>

\* Each Publisher that was seen is locked in turn, and told.
ClosePublisher(k) ==
  /\ cleaner[k] = "closing" /\ seen[k] # <<>> /\ Head(seen[k]) \notin held
  /\ stopped' = stopped \cup {Head(seen[k])}
  /\ seen' = [seen EXCEPT ![k] = Tail(@)]
  /\ UNCHANGED <<state, locks, channel, callers, cleaner, late>>

Clear(k) ==
  /\ cleaner[k] = "closing" /\ seen[k] = <<>>
  /\ cleaner' = [cleaner EXCEPT ![k] = "cleared"]
  /\ history' = <<>>
  /\ UNCHANGED <<publishers, locks, queue, rxClosed, callers, seen, late>>

LeftOpen == FALSE \* mutation: the channel is only emptied
Shut == TRUE

\* The receiver is closed and emptied, once no call holds it.
Drain(k) ==
  /\ cleaner[k] = "cleared" /\ ReceiverFree
  /\ cleaner' = [cleaner EXCEPT ![k] = "done"]
  /\ rxClosed' = Shut /\ queue' = <<>>
  /\ UNCHANGED <<publishers, locks, history, callers, seen, late>>

-----------------------------------------------------------------------------
OnTrackSteps(p) == Push(p) \/ Send(p)
CallSteps(c) ==
  Search(c) \/ LockReceiver(c) \/ Receive(c) \/ LookAt(c) \/ ReceiveNothing(c)
CleanerSteps(k) == ClosePublisher(k) \/ Clear(k) \/ Drain(k)

Next ==
  \/ \E p \in Publishers : OnTrack(p) \/ OnTrackSteps(p) \/ Relay(p) \/ Answer(p)
  \/ \E c \in Calls : Publish(c) \/ CallSteps(c)
  \/ \E k \in Cleaners : Look(k) \/ CleanerSteps(k)

Spec == Init /\ [][Next]_vars

\* Tasks are scheduled, and a lock that is free is given to somebody.  Publishers,
\* calls and requests being finitely many here, that is as good as an order among those
\* who wait (tokio's Mutex is first come, first served).  Nothing makes an Answer come.
Fairness ==
  /\ WF_vars(\E p \in Publishers : OnTrackSteps(p))
  /\ WF_vars(\E c \in Calls : CallSteps(c))
  /\ WF_vars(\E k \in Cleaners : CleanerSteps(k))

FairSpec == Spec /\ Fairness

-----------------------------------------------------------------------------
(* Properties *)

\* The channel is within its capacity and empty when closed, one call at most has
\* the receiver, and what waits in the channel was announced and not taken.
TypeOK ==
  /\ state \in [Publishers -> {"none", "created", "pushed", "announced"}]
  /\ history \in Seq(Publishers) /\ stopped \subseteq Publishers /\ held \subseteq Publishers
  /\ Len(queue) <= Capacity /\ (rxClosed => queue = <<>>)
  /\ \A i, j \in DOMAIN queue : state[queue[i]] = "announced" /\ (queue[i] = queue[j] => i = j)
  /\ \A c, d \in Calls :
       call[c] \in {"receiving", "looking"} /\ call[d] \in {"receiving", "looking"} => c = d
  /\ \A c \in Calls : toSee[c] # <<>> <=> call[c] \in {"searching", "looking"}
  /\ \A k \in Cleaners : seen[k] # <<>> => cleaner[k] = "closing"

\* A Publisher that on_track has pushed can be found by publish, or cleanup has told
\* it to close; only one that was pushed between a cleanup's look at the history and
\* its clear may be neither.
FoundOrClosed ==
  \A p \in Publishers \ late :
    state[p] \in {"pushed", "announced"} => Contains(history, p) \/ p \in stopped

\* A call or a cleanup that is at a Publisher whose mutex waits for another server.
CallIsHeld(c) == toSee[c] # <<>> /\ Head(toSee[c]) \in held
CleanerIsHeld(k) == seen[k] # <<>> /\ Head(seen[k]) \in held

\* publish returns the Publisher its call is for, whether that comes before it or
\* after it, as long as calls wait one at a time (two that wait at once take each
\* other's Publishers from the channel), nothing is cleaned up, and the mutexes it has
\* to take are let go.
PublishReturns ==
  \A c \in Calls :
    (call[c] \in {"searching", "missed", "receiving", "looking"} /\ state[wants[c]] = "pushed")
      ~> \/ call[c] = "done" \/ crowded \/ CallIsHeld(c)
         \/ \E k \in Cleaners : cleaner[k] # "none"

\* cleanup ends, unless something it waits for is never let go: the mutex of a Publisher
\* that waits for another server, or the receiver, which a waiting call keeps till
\* another Publisher comes.  Afterwards no call is left but for such a mutex, and no
\* on_track is blocked on a full channel.
CleanupEnds ==
  /\ \A k \in Cleaners :
       (cleaner[k] # "none") ~> (cleaner[k] = "done" \/ [](CleanerIsHeld(k) \/ ~ReceiverFree))
  /\ (\E k \in Cleaners : cleaner[k] = "done")
       ~> /\ \A c \in Calls : call[c] \in {"none", "done", "failed"} \/ CallIsHeld(c)
          /\ \A p \in Publishers : state[p] # "pushed"
=============================================================================
