-------------------------------- MODULE Datagrams --------------------------------
(***************************************************************************)
(* The datagrams in which relayed packets and data channel messages travel *)
(* between servers (src/sfu/src/relay/data.rs, src/sfu/src/rtp/layer.rs),  *)
(* as operators on sequences of bytes.  A length occupies one byte, and a  *)
(* receiver reads at most Buffer bytes of a datagram: the rest is cut off. *)
(*                                                                         *)
(* A decoder of the code that would read past its input panics, and so     *)
(* ends the task that runs it: Decodes... says when it does not.           *)
(***************************************************************************)
EXTENDS Integers, Sequences

CONSTANT Buffer

Bytes == 0 .. 255

\* What recv_from leaves of a datagram in `buf`.
Received(bytes) == IF Len(bytes) > Buffer THEN SubSeq(bytes, 1, Buffer) ELSE bytes

-----------------------------------------------------------------------------
(* MessageData: length of the id, id, is_string, data *)

MessageData == [id : Seq(Bytes), isString : BOOLEAN, data : Seq(Bytes)]

Flag(isString) == IF isString THEN 1 ELSE 0
IdLength(id) == Len(id) % 256

MarshalMessage(m) == <<IdLength(m.id)>> \o m.id \o <<Flag(m.isString)>> \o m.data

DecodesMessage(bytes) == Len(bytes) > 0 /\ Len(bytes) >= bytes[1] + 2

\* mutation: the id is taken to end one byte early
ShortId(bytes) ==
  [id |-> SubSeq(bytes, 2, bytes[1]),
   isString |-> bytes[bytes[1] + 2] # 0,
   data |-> SubSeq(bytes, bytes[1] + 3, Len(bytes))]

UnmarshalMessage(bytes) ==
  [id |-> SubSeq(bytes, 2, bytes[1] + 1),
   isString |-> bytes[bytes[1] + 2] # 0,
   data |-> SubSeq(bytes, bytes[1] + 3, Len(bytes))]

-----------------------------------------------------------------------------
(* PacketData: RTP packet, layer, ssrc, id of the track, length of that id.
   The packet's own encoding and that of the ssrc belong to libraries: a packet
   is the sequence of its bytes, a ssrc the sequence of its SsrcSize bytes. *)

SsrcSize == 4

Ssrc == {s \in Seq(Bytes) : Len(s) = SsrcSize}
Layer == [spatial : Bytes, temporal : Bytes]
PacketData == [packet : Seq(Bytes), layer : Layer, ssrc : Ssrc, track : Seq(Bytes)]

MarshalLayer(l) == <<l.spatial, l.temporal>>
UnmarshalLayer(bytes) == [spatial |-> bytes[1], temporal |-> bytes[2]]

MarshalPacket(p) ==
  p.packet \o MarshalLayer(p.layer) \o p.ssrc \o p.track \o <<IdLength(p.track)>>

\* layer_start_position
LayerStart(bytes) == Len(bytes) - 1 - bytes[Len(bytes)] - 2 - SsrcSize

DecodesPacket(bytes) == Len(bytes) > 0 /\ LayerStart(bytes) >= 0

UnmarshalPacket(bytes) ==
  LET start == LayerStart(bytes)
      trackAt == start + 2 + SsrcSize
  IN [packet |-> SubSeq(bytes, 1, start),
      layer |-> UnmarshalLayer(SubSeq(bytes, start + 1, start + 2)),
      ssrc |-> SubSeq(bytes, start + 3, trackAt),
      track |-> SubSeq(bytes, trackAt + 1, Len(bytes) - 1)]
=============================================================================
