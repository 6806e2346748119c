-------------------------- MODULE MCDynamicContext --------------------------
(***************************************************************************)
(* DynamicContext on an instance small enough for TLC.  Requests are       *)
(* interchangeable, hence the symmetry.                                    *)
(***************************************************************************)
EXTENDS DynamicContext, TLC

RequestSymmetry == Permutations(Requests)
=============================================================================
