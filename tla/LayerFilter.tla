-------------------------------- MODULE LayerFilter --------------------------------
(***************************************************************************)
(* What happens to an RTP packet between the browser that sends it and the *)
(* one that gets it: LocalTrack::rtp_event_loop turns its timestamp into   *)
(* the step from the packet before (src/sfu/src/local_track.rs),           *)
(* Subscriber::rtp_event_loop filters layers, keeps one packet back to     *)
(* mark the end of a frame, and numbers what it forwards, over all the     *)
(* loops a Subscriber has one after the other                              *)
(* (src/sfu/src/subscriber.rs; see module Subscriber for the loops).       *)
(*                                                                         *)
(* A frame is one packet for each spatial layer, the last one marked, all  *)
(* with the frame's timestamp.  Nothing is lost between the two loops.     *)
(* Sums wrap, as they do in a release build.                               *)
(***************************************************************************)
EXTENDS Naturals

CONSTANTS
  Top,       \* spatial layers are 0 .. Top; temporal layers are 0 and 1
  Numbers,   \* sequence numbers are modulo Numbers (2^16 in the code)
  Clock      \* timestamps are modulo Clock (2^32 in the code)

ASSUME LayerFilterAssumption ==
  Top \in Nat /\ Numbers \in Nat \ {0, 1} /\ Clock \in Nat \ {0, 1}

Spatial == 0 .. Top
Temporal == {0, 1}
Times == 0 .. (Clock - 1)

VARIABLES
  at,        \* the track's next packet: its spatial layer, temporal layer, timestamp
  last,      \* last_timestamp of the LocalTrack
  active,    \* a loop has the lock
  wrote,     \* history: that loop has written a packet to the client
  sid, tid,  \* spatial_layer and temporal_layer of the Subscriber
  stored, storedTime,  \* init_sequence, init_timestamp
  number, time,        \* last_sequence_number, current_timestamp
  pending,   \* pending_packet
  out,       \* the last packet written to the client
  thinned    \* history: a packet was not forwarded, or the source clock was not counted,
             \* since the loop began

track == <<at, last>>
layers == <<sid, tid>>
kept == <<stored, storedTime>>
counters == <<number, time>>
vars == <<track, active, wrote, layers, kept, counters, pending, out, thinned>>

NoPacket == [number |-> Numbers, time |-> 0, source |-> 0, marker |-> TRUE]

Init ==
  /\ at = [sid |-> 0, tid |-> 0, time |-> 0] /\ last = 0
  /\ active = FALSE /\ wrote = FALSE
  /\ sid = Top /\ tid = 1
  /\ stored = 0 /\ storedTime = 0 /\ number = 0 /\ time = 0
  /\ pending = NoPacket
  /\ out = [number |-> 0, time |-> 0, source |-> 0, marker |-> TRUE]
  /\ thinned = FALSE

-----------------------------------------------------------------------------
(* LocalTrack::rtp_event_loop *)

\* The step from the packet before; none when the clock wraps, or at 0, which
\* also stands for "no packet yet".
Step == IF last = 0 \/ at.time < last THEN 0 ELSE at.time - last
Counted == last + Step = at.time

\* The track goes on with the frame or with the next one, later by one tick or two.
NextPacket ==
  /\ last' = at.time
  /\ IF at.sid < Top THEN at' = [at EXCEPT !.sid = @ + 1]
     ELSE \E t \in Temporal, d \in {1, 2} :
            at' = [sid |-> 0, tid |-> t, time |-> (at.time + d) % Clock]

-----------------------------------------------------------------------------
(* Subscriber::rtp_event_loop *)

\* A loop takes over, perhaps in the middle of a frame and on a track with a
\* clock of its own.
Begin ==
  /\ ~active
  /\ active' = TRUE /\ wrote' = FALSE /\ thinned' = FALSE
  /\ number' = stored /\ time' = storedTime
  /\ \E s \in Spatial, t \in Temporal, c \in Times, l \in Times :
       /\ c = l \/ (s = 0 /\ c = (l + 1) % Clock)
       /\ at' = [sid |-> s, tid |-> t, time |-> c] /\ last' = l
  /\ UNCHANGED <<layers, kept, pending, out>>

Overflowing(n) == n + 1 \* mutation: += instead of wrapping_add
Successor(n) == (n + 1) % Numbers

Replaced(n, d) == d \* mutation: = instead of +=
Advanced(n, d) == (n + d) % Clock

Unmarked(p) == p \* mutation: the packet kept back is written as it is
Marked(p) == [p EXCEPT !.marker = TRUE]

NotStored == stored \* mutation: init_sequence is not written back
Stored == number

Write(p) ==
  IF pending = NoPacket THEN UNCHANGED <<out, wrote>>
  ELSE out' = p /\ wrote' = TRUE

Filtered == at.tid > tid \/ at.sid > sid
InFrame == at.sid < Top

\* A packet of a layer that is filtered out: when it ends the frame, the packet
\* kept back ends it instead.
DropPacket ==
  /\ active /\ Filtered
  /\ IF InFrame THEN UNCHANGED <<out, wrote, pending>>
     ELSE Write(Marked(pending)) /\ pending' = NoPacket
  /\ thinned' = TRUE
  /\ NextPacket
  /\ UNCHANGED <<active, layers, kept, counters>>

\* Any other packet gets its number and time and is kept back; the one before is
\* written.
ForwardPacket ==
  /\ active /\ ~Filtered
  /\ Write(pending)
  /\ number' = Successor(number) /\ time' = Advanced(time, Step)
  /\ pending' = [number |-> number', time |-> time', source |-> at.time,
                 marker |-> ~InFrame]
  /\ thinned' = (thinned \/ ~Counted)
  /\ NextPacket
  /\ UNCHANGED <<active, layers, kept>>

\* Before the client has answered there is no payload type, and nothing is
\* numbered; a loop that has one keeps it.
ForwardNothing ==
  /\ active /\ ~Filtered /\ pending = NoPacket /\ ~wrote
  /\ thinned' = TRUE
  /\ NextPacket
  /\ UNCHANGED <<active, wrote, layers, kept, counters, pending, out>>

\* replaced, closed, or the end of the track: what was kept back is written.
End ==
  /\ active
  /\ active' = FALSE
  /\ Write(pending) /\ pending' = NoPacket
  /\ stored' = Stored /\ storedTime' = time
  /\ UNCHANGED <<track, layers, counters, thinned>>

\* set_preferred_layer of a publisher that is not simulcast, at any moment.
SetPreferredLayer ==
  /\ sid' \in Spatial /\ tid' \in Temporal
  /\ UNCHANGED <<track, active, wrote, kept, counters, pending, out, thinned>>

-----------------------------------------------------------------------------
Next ==
  \/ Begin \/ DropPacket \/ ForwardPacket \/ ForwardNothing \/ End \/ SetPreferredLayer

Spec == Init /\ [][Next]_vars

-----------------------------------------------------------------------------
(* Properties *)

\* Numbers and times have their width, and between two loops nothing is kept back
\* and nothing of what the last one counted is lost.
TypeOK ==
  /\ at \in [sid : Spatial, tid : Temporal, time : Times] /\ last \in Times
  /\ sid \in Spatial /\ tid \in Temporal
  /\ stored \in 0 .. (Numbers - 1) /\ number \in 0 .. (Numbers - 1)
  /\ storedTime \in Times /\ time \in Times
  /\ ~active => pending = NoPacket /\ stored = out.number

\* The client gets what Forwarding promises, over filtered layers, changes of encoding
\* and loops that come and go: every sequence number once and in order, and
\* frames that end ("the decoder cannot detect frame boundaries correctly"
\* otherwise).
Client ==
  INSTANCE Forwarding WITH
    out <- [number |-> out.number, source |-> out.source, marker |-> out.marker],
    fresh <- ~wrote
Forwards == Client!Spec

\* The client's clock advances with the source's while nothing is filtered.  (A
\* frame that is dropped takes its step with it: from then on the client's clock
\* is behind.)
TimestampsFollow ==
  [][out' # out /\ wrote /\ ~thinned /\ out'.source >= out.source
       => (out'.time + Clock - out.time) % Clock = out'.source - out.source]_vars
=============================================================================
