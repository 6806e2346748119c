------------------------ MODULE MCCompletionScheduler ------------------------
(***************************************************************************)
(* CompletionScheduler on small instances: requests are interchangeable    *)
(* where Streams, Throttled and MayClose treat them alike.                 *)
(***************************************************************************)
EXTENDS SchedulerRefinement, TLC

TaskSymmetry == Permutations(Tasks)

(* max_tokens -1 asks for as much as the context allows. *)
UnlimitedOrTwo == {-1, 2}
=============================================================================
