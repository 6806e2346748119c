---------------------------- MODULE TokenBucket ----------------------------
(***************************************************************************)
(* RatelimitTokenBucket of llama-box/z_utils.hpp, and how a handler makes  *)
(* one.  Time is counted in halves of a second.  As capacity and rate are  *)
(* always the same number, a second fills the bucket, and how much more    *)
(* than a second has passed does not matter: ages stop at Second.          *)
(***************************************************************************)
EXTENDS Integers, FiniteSetsExt

CONSTANT n_tps   \* params.n_tps, 0 disables the limit

ASSUME TpsAssumption == n_tps \in Nat

Second == 2

(* What the header X-Request-Tokens-Per-Second asks for: <<>> without one, *)
(* <<0>> if it is no positive number.                                      *)
Gone(asked) == n_tps > 0 /\ asked # <<>> /\ asked[1] > n_tps

(* No header, no bucket, whatever the server's limit is: rate 0.           *)
TpsFor(asked) ==
    CASE n_tps = 0 \/ asked = <<>> -> 0
      [] asked # <<>> /\ asked[1] <= 0 -> n_tps
      [] OTHER -> asked[1]

NewBucket(tps) == [rate |-> tps, tokens_remain |-> tps, age |-> 0]

(* Mutant: the time of the last refill is not kept.                        *)
Refilled_Ageless(bucket) ==
    IF bucket.age < Second THEN bucket
    ELSE [bucket EXCEPT !.tokens_remain = Min({bucket.rate, @ + bucket.rate})]

(* refill(): whole seconds only, what is left over is forgotten.           *)
Refilled(bucket) ==
    IF bucket.age < Second THEN bucket
    ELSE [bucket EXCEPT !.tokens_remain = Min({bucket.rate, @ + bucket.rate}), !.age = 0]

(* try_acquire() refills an empty bucket only.                             *)
Ready(bucket) ==
    IF bucket.tokens_remain < 1 THEN Refilled(bucket) ELSE bucket

CanAcquire(bucket) == bucket.rate = 0 \/ Ready(bucket).tokens_remain >= 1

Acquired(bucket) ==
    IF bucket.rate = 0 THEN bucket ELSE [Ready(bucket) EXCEPT !.tokens_remain = @ - 1]

Aged(bucket) == [bucket EXCEPT !.age = Min({Second, @ + 1})]
=============================================================================
