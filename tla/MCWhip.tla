--------------------------------- MODULE MCWhip ---------------------------------
(* Four requests for one session id; which is which does not matter. *)
EXTENDS Whip, TLC

AnyOrder == Permutations(Requests)
=============================================================================
