----------------------------- MODULE LayerFilterProofs -----------------------------
(***************************************************************************)
(* For every number of layers and every width of numbers and clocks, what  *)
(* LayerFilter writes to the client is what Forwarding promises.           *)
(***************************************************************************)
EXTENDS LayerFilter, TLAPS

Sent == [number : 0 .. (Numbers - 1), time : Times, source : Times, marker : BOOLEAN]

\* The packets are packets.
PacketsOK ==
  /\ active \in BOOLEAN /\ wrote \in BOOLEAN
  /\ out \in Sent /\ pending \in Sent \cup {NoPacket}

\* What was numbered is what was written and, behind it, what is kept back.
Numbered ==
  IF pending = NoPacket THEN number = out.number
  ELSE active /\ number = pending.number /\ number = (out.number + 1) % Numbers

\* The rest of a frame whose last packet is not marked is still to come.
FrameGoesOn ==
  pending # NoPacket /\ ~pending.marker => at.time = pending.source

\* A frame begun by this loop is not left without its marker.
FrameIsKept ==
  active /\ wrote /\ ~out.marker => pending # NoPacket /\ pending.source = out.source

IInv == TypeOK /\ PacketsOK /\ Numbered /\ FrameGoesOn /\ FrameIsKept

\* Remainders are within the width of numbers and clocks.
LEMMA Remainder ==
  ASSUME NEW n \in Nat, NEW m \in Nat \ {0}
  PROVE  n % m \in 0 .. (m - 1)
OBVIOUS

\* The initial state satisfies the invariant.
LEMMA InitInv == Init => IInv
<1> SUFFICES ASSUME Init PROVE IInv
  OBVIOUS
<1>1. 0 \in 0 .. (Numbers - 1) /\ 0 \in Times /\ 0 \in Spatial /\ Top \in Spatial
  BY LayerFilterAssumption DEF Times, Spatial
<1>2. TypeOK
  BY <1>1 DEF Init, TypeOK, Temporal
<1>3. PacketsOK
  BY <1>1 DEF Init, PacketsOK, Sent
<1>4. Numbered /\ FrameGoesOn /\ FrameIsKept
  BY DEF Init, Numbered, FrameGoesOn, FrameIsKept
<1> QED BY <1>2, <1>3, <1>4 DEF IInv

\* The track's next packet is a packet, and of the same frame until the frame ends.
LEMMA TrackStep ==
  ASSUME TypeOK, NextPacket
  PROVE  /\ at' \in [sid : Spatial, tid : Temporal, time : Times] /\ last' \in Times
         /\ InFrame => at'.time = at.time
<1>1. CASE at.sid < Top
  BY <1>1, LayerFilterAssumption DEF TypeOK, NextPacket, Spatial, Temporal, Times, InFrame
<1>2. CASE ~(at.sid < Top)
  <2>1. PICK t \in Temporal, d \in {1, 2} :
          at' = [sid |-> 0, tid |-> t, time |-> (at.time + d) % Clock]
    BY <1>2 DEF NextPacket
  <2>2. (at.time + d) % Clock \in Times
    BY LayerFilterAssumption, Remainder, at.time + d \in Nat, Clock \in Nat \ {0}
       DEF TypeOK, Times
  <2> QED
    BY <1>2, <2>1, <2>2, LayerFilterAssumption
       DEF TypeOK, NextPacket, Spatial, Times, InFrame
<1> QED BY <1>1, <1>2

\* The step that a packet takes and the sums made of it are within their widths.
LEMMA Sums ==
  ASSUME TypeOK
  PROVE  /\ Successor(number) \in 0 .. (Numbers - 1)
         /\ Advanced(time, Step) \in Times
<1>1. Step \in Nat
  BY LayerFilterAssumption DEF TypeOK, Step, Times
<1>2. time + Step \in Nat /\ number + 1 \in Nat
  BY <1>1, LayerFilterAssumption DEF TypeOK, Times
<1>3. Numbers \in Nat \ {0} /\ Clock \in Nat \ {0}
  BY LayerFilterAssumption
<1>4. (number + 1) % Numbers \in 0 .. (Numbers - 1)
  BY <1>2, <1>3, Remainder
<1>5. (time + Step) % Clock \in 0 .. (Clock - 1)
  BY <1>2, <1>3, Remainder
<1> QED BY <1>4, <1>5 DEF Successor, Advanced, Times

\* The packet that ForwardPacket keeps back.
NextKept ==
  [number |-> Successor(number), time |-> Advanced(time, Step), source |-> at.time,
   marker |-> ~InFrame]

\* It is a packet, and none that stands for no packet.
LEMMA KeptBack ==
  ASSUME TypeOK
  PROVE  NextKept \in Sent /\ NextKept # NoPacket /\ NoPacket \notin Sent
<1>1. Successor(number) \in 0 .. (Numbers - 1) /\ Advanced(time, Step) \in Times
  BY Sums
<1>2. at.time \in Times
  BY DEF TypeOK
<1>3. (~InFrame) \in BOOLEAN
  OBVIOUS
<1>4. NextKept \in Sent
  BY <1>1, <1>2, <1>3 DEF NextKept, Sent
<1>5. NoPacket \notin Sent
  BY LayerFilterAssumption DEF NoPacket, Sent
<1> QED BY <1>4, <1>5

\* Every step keeps the types, and nothing of what a loop has counted is lost.
LEMMA StepTypes ==
  ASSUME IInv, [Next]_vars
  PROVE  TypeOK'
<1> USE DEF IInv
<1>1. CASE Begin
  BY <1>1 DEF Begin, TypeOK, layers, kept
<1>2. CASE DropPacket
  <2>1. at' \in [sid : Spatial, tid : Temporal, time : Times] /\ last' \in Times
    BY <1>2, TrackStep DEF DropPacket
  <2> QED BY <1>2, <2>1 DEF DropPacket, TypeOK, layers, kept, counters
<1>3. CASE ForwardPacket
  <2>1. at' \in [sid : Spatial, tid : Temporal, time : Times] /\ last' \in Times
    BY <1>3, TrackStep DEF ForwardPacket
  <2> QED BY <1>3, <2>1, Sums DEF ForwardPacket, TypeOK, layers, kept
<1>4. CASE ForwardNothing
  <2>1. at' \in [sid : Spatial, tid : Temporal, time : Times] /\ last' \in Times
    BY <1>4, TrackStep DEF ForwardNothing
  <2> QED BY <1>4, <2>1 DEF ForwardNothing, TypeOK, layers, kept, counters
<1>5. CASE End
  <2>1. number = IF pending = NoPacket THEN out.number ELSE pending.number
    BY DEF Numbered
  <2>2. out'.number = number
    BY <1>5, <2>1 DEF End, Write
  <2> QED BY <1>5, <2>2 DEF End, TypeOK, track, layers, counters, Stored
<1>6. CASE SetPreferredLayer
  BY <1>6 DEF SetPreferredLayer, TypeOK, track, kept, counters
<1>7. CASE UNCHANGED vars
  BY <1>7 DEF vars, TypeOK, track, layers, kept, counters
<1> QED BY <1>1, <1>2, <1>3, <1>4, <1>5, <1>6, <1>7 DEF Next

\* What a step does to the packets and their numbers.
LEMMA StepPackets ==
  ASSUME IInv, [Next]_vars
  PROVE  PacketsOK' /\ Numbered'
<1> USE DEF IInv
<1>1. CASE Begin
  <2>1. pending = NoPacket /\ number' = out.number
    BY <1>1 DEF Begin, TypeOK
  <2> QED BY <1>1, <2>1 DEF Begin, PacketsOK, Numbered, NoPacket
<1>2. CASE DropPacket
  <2>1. CASE InFrame
    BY <1>2, <2>1 DEF DropPacket, PacketsOK, Numbered, counters, NoPacket, Sent
  <2>2. CASE ~InFrame
    <3>1. pending' = NoPacket /\ NoPacket' = NoPacket
      BY <1>2, <2>2 DEF DropPacket, NoPacket
    <3>2. CASE pending = NoPacket
      <4>1. out' = out /\ wrote' = wrote /\ number' = number /\ active' = active
        BY <1>2, <2>2, <3>2 DEF DropPacket, Write, counters
      <4> QED BY <3>1, <3>2, <4>1 DEF PacketsOK, Numbered, Sent
    <3>3. CASE pending # NoPacket
      <4>1. /\ out' = Marked(pending) /\ wrote' = TRUE /\ number' = number /\ active' = active
        BY <1>2, <2>2, <3>3 DEF DropPacket, Write, counters
      <4>2. Marked(pending) \in Sent /\ Marked(pending).number = pending.number
        BY <3>3 DEF PacketsOK, Marked, Sent
      <4> QED BY <3>1, <3>3, <4>1, <4>2 DEF PacketsOK, Numbered, Sent
    <3> QED BY <3>2, <3>3
  <2> QED BY <2>1, <2>2
<1>3. CASE ForwardPacket
  <2>1. /\ number' = Successor(number) /\ time' = Advanced(time, Step)
        /\ active /\ active' = active
    BY <1>3 DEF ForwardPacket
  <2>2. pending' = NextKept
    BY <1>3, <2>1 DEF ForwardPacket, NextKept
  <2>3. pending' \in Sent /\ pending' # NoPacket'
    BY <2>2, KeptBack DEF NoPacket
  <2>4. pending'.number = Successor(number)
    BY <2>2 DEF NextKept
  <2>5. CASE pending = NoPacket
    <3>1. out' = out /\ wrote' = wrote
      BY <1>3, <2>5 DEF ForwardPacket, Write
    <3> QED BY <2>1, <2>3, <2>4, <2>5, <3>1 DEF PacketsOK, Numbered, Sent, Successor
  <2>6. CASE pending # NoPacket
    <3>1. out' = pending /\ wrote' = TRUE
      BY <1>3, <2>6 DEF ForwardPacket, Write
    <3> QED BY <2>1, <2>3, <2>4, <2>6, <3>1 DEF PacketsOK, Numbered, Sent, Successor
  <2> QED BY <2>5, <2>6
<1>4. CASE ForwardNothing
  BY <1>4 DEF ForwardNothing, PacketsOK, Numbered, counters, Sent, NoPacket
<1>5. CASE End
  <2>1. pending' = NoPacket /\ NoPacket' = NoPacket /\ number' = number /\ active' = FALSE
    BY <1>5 DEF End, NoPacket, counters
  <2>2. CASE pending = NoPacket
    <3>1. out' = out /\ wrote' = wrote
      BY <1>5, <2>2 DEF End, Write
    <3> QED BY <2>1, <2>2, <3>1 DEF PacketsOK, Numbered, Sent
  <2>3. CASE pending # NoPacket
    <3>1. out' = pending /\ wrote' = TRUE
      BY <1>5, <2>3 DEF End, Write
    <3> QED BY <2>1, <2>3, <3>1 DEF PacketsOK, Numbered, Sent
  <2> QED BY <2>2, <2>3
<1>6. CASE SetPreferredLayer
  BY <1>6 DEF SetPreferredLayer, PacketsOK, Numbered, counters, Sent, NoPacket
<1>7. CASE UNCHANGED vars
  BY <1>7 DEF vars, PacketsOK, Numbered, counters, Sent, NoPacket
<1> QED BY <1>1, <1>2, <1>3, <1>4, <1>5, <1>6, <1>7 DEF Next

\* What a step does to the frame that is being written.
LEMMA StepFrames ==
  ASSUME IInv, [Next]_vars
  PROVE  FrameGoesOn' /\ FrameIsKept'
<1> USE DEF IInv
<1>0. NoPacket' = NoPacket
  BY DEF NoPacket
<1>1. CASE Begin
  <2>1. pending' = NoPacket /\ wrote' = FALSE
    BY <1>1 DEF Begin, TypeOK
  <2> QED BY <1>0, <2>1 DEF FrameGoesOn, FrameIsKept
<1>2. CASE DropPacket
  <2>1. CASE InFrame
    <3>1. at'.time = at.time
      BY <1>2, <2>1, TrackStep DEF DropPacket
    <3>2. UNCHANGED <<out, wrote, pending, active>>
      BY <1>2, <2>1 DEF DropPacket
    <3> QED BY <1>0, <3>1, <3>2 DEF FrameGoesOn, FrameIsKept
  <2>2. CASE ~InFrame
    <3>1. pending' = NoPacket /\ active' = active /\ Write(Marked(pending))
      BY <1>2, <2>2 DEF DropPacket
    <3>2. pending # NoPacket => out'.marker
      BY <3>1 DEF Write, Marked, PacketsOK, Sent
    <3>3. pending = NoPacket => out' = out /\ wrote' = wrote
      BY <3>1 DEF Write
    <3> QED BY <1>0, <3>1, <3>2, <3>3 DEF FrameGoesOn, FrameIsKept
  <2> QED BY <2>1, <2>2
<1>3. CASE ForwardPacket
  <2>1. active /\ active' = active /\ Write(pending) /\ NextPacket
    BY <1>3 DEF ForwardPacket
  <2>2. pending' = NextKept
    BY <1>3 DEF ForwardPacket, NextKept
  <2>3. pending' # NoPacket /\ pending'.source = at.time /\ pending'.marker = ~InFrame
    BY <2>2, KeptBack DEF NextKept
  <2>4. InFrame => at'.time = at.time
    BY <2>1, TrackStep
  <2>5. CASE pending = NoPacket
    BY <1>0, <2>1, <2>3, <2>4, <2>5 DEF FrameGoesOn, FrameIsKept, Write
  <2>6. CASE pending # NoPacket
    <3>1. out' = pending
      BY <2>1, <2>6 DEF Write
    <3> QED BY <1>0, <2>3, <2>4, <2>6, <3>1 DEF FrameGoesOn, FrameIsKept
  <2> QED BY <2>5, <2>6
<1>4. CASE ForwardNothing
  BY <1>0, <1>4 DEF ForwardNothing, FrameGoesOn, FrameIsKept
<1>5. CASE End
  BY <1>0, <1>5 DEF End, FrameGoesOn, FrameIsKept
<1>6. CASE SetPreferredLayer
  BY <1>0, <1>6 DEF SetPreferredLayer, FrameGoesOn, FrameIsKept, track
<1>7. CASE UNCHANGED vars
  BY <1>0, <1>7 DEF vars, FrameGoesOn, FrameIsKept, track
<1> QED BY <1>1, <1>2, <1>3, <1>4, <1>5, <1>6, <1>7 DEF Next

\* Numbers and times have their width, and between two loops of a Subscriber nothing
\* is kept back and no number is lost, for every number of layers and every width.
THEOREM TypeCorrect == Spec => []TypeOK
<1>1. Init => IInv
  BY InitInv
<1>2. IInv /\ [Next]_vars => IInv'
  BY StepTypes, StepPackets, StepFrames DEF IInv
<1>3. IInv => TypeOK
  BY DEF IInv
<1> QED BY <1>1, <1>2, <1>3, PTL DEF Spec

\* A packet that is written is the next one Forwarding expects: it has the next
\* number, and unless forwarding began anew the packet before it is of the same
\* frame or the last of its own.
LEMMA WriteIsNext ==
  ASSUME IInv, active, pending # NoPacket,
         NEW p \in {pending, Marked(pending)}, out' = p, wrote' = TRUE
  PROVE  Client!Write
<1> USE DEF IInv
<1>1. pending \in Sent /\ p \in Sent /\ p.number = pending.number /\ p.source = pending.source
  BY DEF PacketsOK, Marked, Sent
<1>2. pending.number = (out.number + 1) % Numbers
  BY DEF Numbered
<1>3. out'.source # out.source => out.marker \/ ~wrote
  BY <1>1 DEF FrameIsKept, PacketsOK, Sent
<1>4. [number |-> out.number, source |-> out.source, marker |-> out.marker]'
        \in Client!Packets
  BY <1>1 DEF Client!Packets, Sent
<1> QED BY <1>1, <1>2, <1>3, <1>4 DEF Client!Write

\* Each step is one of Forwarding's or changes nothing there.
LEMMA StepForwards ==
  ASSUME IInv, [Next]_vars
  PROVE  [Client!Next]_<<[number |-> out.number, source |-> out.source,
                          marker |-> out.marker], ~wrote>>
<1> USE DEF IInv
<1>1. CASE Begin
  BY <1>1 DEF Begin, Client!Next, Client!BeginAnew
<1>2. CASE DropPacket
  <2>1. active /\ \/ UNCHANGED <<out, wrote>>
                  \/ pending # NoPacket /\ out' = Marked(pending) /\ wrote' = TRUE
    BY <1>2 DEF DropPacket, Write
  <2>2. CASE UNCHANGED <<out, wrote>>
    BY <2>2
  <2>3. CASE pending # NoPacket /\ out' = Marked(pending) /\ wrote' = TRUE
    <3>1. Marked(pending) \in {pending, Marked(pending)} /\ active
      BY <2>1
    <3>2. Client!Write
      BY <2>3, <3>1, WriteIsNext
    <3> QED BY <3>2 DEF Client!Next
  <2> QED BY <2>1, <2>2, <2>3
<1>3. CASE ForwardPacket
  <2>1. active /\ \/ UNCHANGED <<out, wrote>>
                  \/ pending # NoPacket /\ out' = pending /\ wrote' = TRUE
    BY <1>3 DEF ForwardPacket, Write
  <2>2. CASE UNCHANGED <<out, wrote>>
    BY <2>2
  <2>3. CASE pending # NoPacket /\ out' = pending /\ wrote' = TRUE
    <3>1. pending \in {pending, Marked(pending)} /\ active
      BY <2>1
    <3>2. Client!Write
      BY <2>3, <3>1, WriteIsNext
    <3> QED BY <3>2 DEF Client!Next
  <2> QED BY <2>1, <2>2, <2>3
<1>4. CASE ForwardNothing
  BY <1>4 DEF ForwardNothing
<1>5. CASE End
  <2>1. active /\ \/ UNCHANGED <<out, wrote>>
                  \/ pending # NoPacket /\ out' = pending /\ wrote' = TRUE
    BY <1>5 DEF End, Write
  <2>2. CASE UNCHANGED <<out, wrote>>
    BY <2>2
  <2>3. CASE pending # NoPacket /\ out' = pending /\ wrote' = TRUE
    <3>1. pending \in {pending, Marked(pending)} /\ active
      BY <2>1
    <3>2. Client!Write
      BY <2>3, <3>1, WriteIsNext
    <3> QED BY <3>2 DEF Client!Next
  <2> QED BY <2>1, <2>2, <2>3
<1>6. CASE SetPreferredLayer
  BY <1>6 DEF SetPreferredLayer
<1>7. CASE UNCHANGED vars
  BY <1>7 DEF vars
<1> QED BY <1>1, <1>2, <1>3, <1>4, <1>5, <1>6, <1>7 DEF Next

\* A Subscriber's loops, the layers they filter and the encodings they are replaced
\* for, give the client one stream: every sequence number once and in order, and
\* frames that end with a marker, for every number of layers and every width.
THEOREM ForwardsAlways == Spec => Forwards
<1>1. Init => IInv
  BY InitInv
<1>2. IInv /\ [Next]_vars => IInv'
  BY StepTypes, StepPackets, StepFrames DEF IInv
<1>3. Init => Client!Init
  <2> SUFFICES ASSUME Init PROVE Client!Init
    OBVIOUS
  <2>1. 0 \in 0 .. (Numbers - 1) /\ 0 \in Times
    BY LayerFilterAssumption DEF Times
  <2> QED BY <2>1 DEF Init, Client!Init, Client!Packets
<1>4. IInv /\ [Next]_vars
        => [Client!Next]_<<[number |-> out.number, source |-> out.source,
                            marker |-> out.marker], ~wrote>>
  BY StepForwards
<1> QED BY <1>1, <1>2, <1>3, <1>4, PTL DEF Spec, Forwards, Client!Spec

-----------------------------------------------------------------------------
(* TimestampsFollow *)

\* While a loop has forwarded all there was and counted every step, the packet kept back
\* is the track's last, and as far from the packet before it as its source says.
Synced ==
  active /\ ~thinned =>
    /\ wrote => pending # NoPacket
    /\ pending # NoPacket =>
         /\ pending.source = last /\ pending.time = time
         /\ wrote => /\ pending.source >= out.source
                     /\ pending.time = (out.time + (pending.source - out.source)) % Clock

\* Sums that wrap once.
LEMMA Wraps ==
  ASSUME NEW m \in Nat \ {0}, NEW n \in Nat, n < m + m
  PROVE  n % m = IF n < m THEN n ELSE n - m
OBVIOUS

\* What was added to a clock is the distance it then has from where it was.
LEMMA Distance ==
  ASSUME NEW a \in Times, NEW k \in Times
  PROVE  (((a + k) % Clock) + Clock - a) % Clock = k
<1>1. Clock \in Nat \ {0} /\ a \in Nat /\ k \in Nat /\ a < Clock /\ k < Clock
  BY LayerFilterAssumption DEF Times
<1>2. CASE a + k < Clock
  <2>1. PICK n \in Nat : n = a + k
    BY <1>1
  <2>2. n < Clock + Clock /\ n < Clock
    BY <1>1, <1>2, <2>1
  <2>3. n % Clock = n
    BY <1>1, <2>2, Wraps
  <2>4. PICK o \in Nat : o = k + Clock
    BY <1>1
  <2>5. o < Clock + Clock /\ ~(o < Clock) /\ o - Clock = k /\ n + Clock - a = o
    BY <1>1, <2>1, <2>4
  <2>6. o % Clock = o - Clock
    BY <1>1, <2>5, Wraps
  <2> QED BY <2>1, <2>3, <2>5, <2>6
<1>3. CASE ~(a + k < Clock)
  <2>1. PICK n \in Nat : n = a + k
    BY <1>1
  <2>2. n < Clock + Clock /\ ~(n < Clock)
    BY <1>1, <1>3, <2>1
  <2>3. n % Clock = n - Clock
    BY <1>1, <2>2, Wraps
  <2>4. k % Clock = k
    BY <1>1, k < Clock + Clock, Wraps
  <2>5. (n - Clock) + Clock - a = k
    BY <1>1, <2>1
  <2> QED BY <2>1, <2>3, <2>4, <2>5
<1> QED BY <1>2, <1>3

LEMMA StepSynced ==
  ASSUME IInv, Synced, [Next]_vars
  PROVE  Synced'
<1>0. NoPacket' = NoPacket
  BY DEF NoPacket
<1>1. CASE Begin
  BY <1>0, <1>1 DEF IInv, TypeOK, Begin, Synced
<1>2. CASE DropPacket \/ ForwardNothing
  BY <1>2 DEF DropPacket, ForwardNothing, Synced
<1>3. CASE End
  BY <1>3 DEF End, Synced
<1>4. CASE SetPreferredLayer \/ UNCHANGED vars
  BY <1>0, <1>4 DEF SetPreferredLayer, Synced, vars, track, counters
<1>5. CASE ForwardPacket
  <2> SUFFICES ASSUME ~thinned'
               PROVE  /\ wrote' => pending' # NoPacket
                      /\ pending'.source = last' /\ pending'.time = time'
                      /\ wrote' => /\ pending'.source >= out'.source
                                   /\ pending'.time
                                        = (out'.time + (pending'.source - out'.source)) % Clock
    BY <1>0 DEF Synced
  <2>1. /\ active /\ ~thinned /\ Counted /\ last' = at.time /\ time' = (time + Step) % Clock
        /\ Write(pending) /\ pending' = NextKept
    BY <1>5 DEF ForwardPacket, NextPacket, Advanced, NextKept
  <2>2. pending' # NoPacket /\ pending'.source = at.time /\ pending'.time = time'
    BY <2>1, KeptBack DEF NextKept, IInv, Advanced
  <2>3. last \in Nat /\ at.time \in Nat /\ last + Step = at.time /\ Step \in Nat
    BY <2>1, LayerFilterAssumption DEF IInv, TypeOK, Times, Counted, Step
  <2>4. CASE pending = NoPacket
    <3>1. ~wrote'
      BY <2>1, <2>4 DEF Write, Synced, IInv, PacketsOK
    <3> QED BY <2>1, <2>2, <3>1
  <2>5. CASE pending # NoPacket
    <3>1. out' = pending /\ pending.source = last /\ pending.time = time
      BY <2>1, <2>5 DEF Write, Synced
    <3>2. at.time >= last /\ at.time - last = Step
      BY <2>3
    <3> QED BY <2>1, <2>2, <3>1, <3>2
  <2> QED BY <2>4, <2>5
<1> QED BY <1>1, <1>2, <1>3, <1>4, <1>5 DEF Next

\* While a loop filters nothing, the packet that is written is as far from the one before
\* on the client's clock as on the source's, whatever the clock's width and whenever it
\* wraps.
THEOREM TimestampsAlwaysFollow == Spec => TimestampsFollow
<1>1. Init => IInv /\ Synced
  BY InitInv DEF Init, Synced
<1>2. IInv /\ Synced /\ [Next]_vars => IInv' /\ Synced'
  BY StepTypes, StepPackets, StepFrames, StepSynced DEF IInv
<1>3. IInv /\ Synced /\ [Next]_vars =>
        [out' # out /\ wrote /\ ~thinned /\ out'.source >= out.source
           => (out'.time + Clock - out.time) % Clock = out'.source - out.source]_vars
  <2> SUFFICES ASSUME IInv, Synced, [Next]_vars, out' # out, wrote, ~thinned
               PROVE  (out'.time + Clock - out.time) % Clock = out'.source - out.source
    OBVIOUS
  <2>1. active /\ pending # NoPacket /\ out' \in {pending, Marked(pending)}
    BY DEF Next, Begin, DropPacket, ForwardPacket, ForwardNothing, End, SetPreferredLayer, Write,
           vars
  <2>2. pending \in Sent /\ out \in Sent
    BY <2>1 DEF IInv, PacketsOK
  <2>3. out'.time = pending.time /\ out'.source = pending.source
    BY <2>1, <2>2 DEF Marked, Sent
  <2>4. /\ pending.source >= out.source
        /\ pending.time = (out.time + (pending.source - out.source)) % Clock
    BY <2>1 DEF Synced
  <2>5. out.time \in Times /\ pending.source - out.source \in Times
    BY <2>2, <2>4, LayerFilterAssumption DEF Sent, Times
  <2> QED BY <2>3, <2>4, <2>5, Distance
<1> QED BY <1>1, <1>2, <1>3, PTL DEF Spec, TimestampsFollow

=============================================================================
