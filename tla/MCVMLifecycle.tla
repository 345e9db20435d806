---------------------------- MODULE MCVMLifecycle ----------------------------
(***************************************************************************)
(* VMLifecycle for TLC.  Session ids, ports and requests are interchangeable: *)
(* no action or safety property tells two of a kind apart.                 *)
(***************************************************************************)
EXTENDS VMLifecycle, TLC

Symmetry == Permutations(Sessions) \union Permutations(Ports) \union Permutations(Handlers)
=============================================================================
