------------------------- MODULE SchedulerRefinement -------------------------
(***************************************************************************)
(* CompletionScheduler implements DynamicContext when context is allocated *)
(* dynamically and no request is abandoned: the admitted requests are the  *)
(* registered tasks, and a position is a task's pos, as the quota module   *)
(* takes it (a pos below zero counts as zero).                             *)
(***************************************************************************)
EXTENDS CompletionScheduler

admitted_positions == [t \in Registered |-> position_for_budget(task[t].pos)]

Promise == INSTANCE DynamicContext WITH
    Requests     <- Tasks,
    TotalContext <- CtxSize,
    MaxParallel  <- NThreads,
    Overshoot    <- 1 + DraftMax,
    position     <- admitted_positions

(***************************************************************************)
(* The scheduler, with its batches, drafts, shifts, failures and           *)
(* disconnections, does nothing to the admitted requests that              *)
(* DynamicContext does not allow.                                          *)
(***************************************************************************)
KeepsPromise == Promise!Spec
=============================================================================
