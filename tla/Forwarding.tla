------------------------------- MODULE Forwarding -------------------------------
(***************************************************************************)
(* What a Subscriber promises its client about the packets of a track,     *)
(* whatever layers are filtered out and however often the encoding is      *)
(* changed: sequence numbers without gaps or repetitions, and a marker on  *)
(* the last packet of a frame before the first of another, except where    *)
(* forwarding begins anew and a frame may have been left unfinished.  What *)
(* packets have the same source time are of the same frame.                *)
(***************************************************************************)
EXTENDS Naturals

CONSTANTS Numbers, Times

VARIABLES
  out,    \* the last packet written
  fresh   \* forwarding has begun anew and has written nothing yet

Packets == [number : 0 .. (Numbers - 1), source : Times, marker : BOOLEAN]

Init ==
  /\ out \in Packets /\ out.marker
  /\ fresh = TRUE

Write ==
  /\ out' \in Packets
  /\ out'.number = (out.number + 1) % Numbers
  /\ out'.source # out.source => out.marker \/ fresh
  /\ fresh' = FALSE

BeginAnew ==
  /\ fresh' = TRUE
  /\ UNCHANGED out

Next == Write \/ BeginAnew

Spec == Init /\ [][Next]_<<out, fresh>>
=============================================================================
