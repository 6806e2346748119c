--------------------------- MODULE DynamicContext ---------------------------
(***************************************************************************)
(* What dynamic context allocation promises, with no scheduler in it.      *)
(*                                                                         *)
(* A server with TotalContext tokens of KV cache serves at most            *)
(* MaxParallel completion requests.  Every request being served has a      *)
(* position, the number of tokens of KV cache it holds, and the same       *)
(* limit: the total divided by the number of requests being served.  A     *)
(* request is admitted only if it and everyone already admitted fit the    *)
(* limit that results; nobody is ever shrunk to make room.  A request that *)
(* is within its limit may take one more step of at most Overshoot tokens, *)
(* and a request past its limit may only give tokens back or leave.        *)
(*                                                                         *)
(* CompletionScheduler implements this specification.                      *)
(***************************************************************************)
EXTENDS ContextQuota, FiniteSets

CONSTANTS
    Requests,      \* the requests that may be served
    TotalContext,  \* llm_ctx_size
    MaxParallel,   \* n_threads_http
    Overshoot      \* tokens one decode step can add: 1 and the drafted tokens

ASSUME DynamicContextAssumption ==
    /\ IsFiniteSet(Requests)
    /\ TotalContext \in Nat \ {0}
    /\ MaxParallel \in Nat \ {0}
    /\ Overshoot \in Nat

VARIABLE position  \* the admitted requests, each with its position

Admitted == DOMAIN position

Limit == for_active_requests(TotalContext, Cardinality(Admitted))

Positions == {position[r] : r \in Admitted}

TypeOK ==
    /\ Admitted \subseteq Requests
    /\ position \in [Admitted -> Nat]

Init == position = [r \in {} |-> 0]

(* Mutant: the limit is taken before the newcomer is counted.              *)
Admit_BeforeCounting(r, prompt, p) ==
    /\ r \notin Admitted
    /\ Cardinality(Admitted) < MaxParallel
    /\ positions_fit(Positions, Limit) /\ prompt <= Limit
    /\ p <= prompt
    /\ position' = [q \in Admitted \cup {r} |-> IF q = r THEN p ELSE position[q]]

(* Mutant: a newcomer may find everyone in any position.                   *)
Admit_Overcommitting(r, prompt, p) ==
    /\ r \notin Admitted
    /\ Cardinality(Admitted) < MaxParallel
    /\ prompt <= for_active_requests(TotalContext, Cardinality(Admitted) + 1)
    /\ p <= prompt
    /\ position' = [q \in Admitted \cup {r} |-> IF q = r THEN p ELSE position[q]]

(* A request whose prompt is partly in a prompt cache may hold less than   *)
(* its prompt, but is admitted for all of it.                              *)
Admit(r, prompt, p) ==
    /\ r \notin Admitted
    /\ can_admit(TotalContext, MaxParallel, Cardinality(Admitted), Positions, prompt)
    /\ p <= prompt
    /\ position' = [q \in Admitted \cup {r} |-> IF q = r THEN p ELSE position[q]]

Advance(r, p) ==
    /\ r \in Admitted
    /\ \/ p <= position[r]
       \/ position[r] <= Limit /\ p <= position[r] + Overshoot
    /\ position' = [position EXCEPT ![r] = p]

Release(r) ==
    /\ r \in Admitted
    /\ position' = [q \in Admitted \ {r} |-> position[q]]

Next ==
    \E r \in Requests :
        \/ \E prompt \in 0 .. TotalContext, p \in 0 .. TotalContext : Admit(r, prompt, p)
        \/ \E p \in 0 .. TotalContext + Overshoot : Advance(r, p)
        \/ Release(r)

Spec == Init /\ [][Next]_position

-----------------------------------------------------------------------------
(***************************************************************************)
(* Everyone admitted is within the common limit, up to one decode step:    *)
(* the limit never drops below a position that somebody already holds, at  *)
(* admission (check_completion_admission) or in any other way.             *)
(***************************************************************************)
WithinLimit == \A r \in Admitted : position[r] <= Limit + Overshoot

(***************************************************************************)
(* A step that lowers the limit (somebody was admitted) leaves every       *)
(* request admitted before with the tokens it held and within the lower    *)
(* limit: history is never truncated because a request arrived.            *)
(***************************************************************************)
AdmissionKeepsHistory ==
    [][Limit' < Limit =>
         \A r \in Admitted \cap Admitted' :
             position'[r] = position[r] /\ position[r] <= Limit']_position
=============================================================================
