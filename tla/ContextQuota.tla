---------------------------- MODULE ContextQuota ----------------------------
(***************************************************************************)
(* The arithmetic of llama-box/dynamic_context_quota.hpp: how the context  *)
(* of a server with a unified KV cache is divided among the completion     *)
(* requests it is serving.  Operators keep the names of the C++ functions. *)
(* A vector of positions is the set of its elements: the code only asks    *)
(* whether all of them are within a quota.                                 *)
(***************************************************************************)
EXTENDS Integers

INT32_MAX == 2147483647

min(a, b) == IF a <= b THEN a ELSE b
max(a, b) == IF a >= b THEN a ELSE b

for_active_requests(total_context, active_requests) ==
    IF total_context <= 0 THEN 0 ELSE total_context \div max(1, active_requests)

position_for_budget(current_position) == max(0, current_position)

positions_fit(positions, quota) ==
    /\ quota > 0
    /\ \A position \in positions : position <= quota

can_admit(total_context, max_parallel, active_requests, positions, prompt_tokens) ==
    /\ total_context > 0
    /\ max_parallel > 0
    /\ 0 <= active_requests
    /\ active_requests < max_parallel
    /\ prompt_tokens >= 0
    /\ LET quota == for_active_requests(total_context, active_requests + 1)
       IN  positions_fit(positions, quota) /\ prompt_tokens <= quota

remaining_output_budget(context_limit, current_position, requested_output_tokens, generated_tokens) ==
    min(max(0, context_limit - current_position),
        IF requested_output_tokens < 0
        THEN INT32_MAX
        ELSE max(0, requested_output_tokens - generated_tokens))
=============================================================================
