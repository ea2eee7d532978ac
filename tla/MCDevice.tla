------------------------------ MODULE MCDevice ------------------------------
(***************************************************************************)
(* Device for TLC.  Two scanners: the one on display and one that has gone *)
(* but is still held by a block.  Three sessions: the service's, its       *)
(* layer's, and a new one.  Three cards, one of which has no picture.  Two *)
(* requests for the permission to notify at once: the switch turned off    *)
(* and on again before the first is answered.                              *)
(***************************************************************************)
EXTENDS Device, TLC

Symmetry == Permutations(Scanners) \cup Permutations(Sessions)
=============================================================================
