-------------------------------- MODULE MCRelay --------------------------------
(* Instances of Relay.  Publishers are interchangeable: no action and no         *)
(* invariant tells one from another.                                            *)
EXTENDS Relay

PublisherSymmetry == Permutations(Publishers)
=============================================================================
