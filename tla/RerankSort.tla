----------------------------- MODULE RerankSort -----------------------------
(***************************************************************************)
(* The order of rerank results: sort_rerank_results of                     *)
(* llama-box/httpserver.hpp, a quicksort in place, and what                *)
(* embeddings_task::to_json makes of it.  A result is the index of its     *)
(* document and its score; scores are integers here, so that ties happen.  *)
(***************************************************************************)
EXTENDS Integers, Sequences, FiniteSets, FiniteSetsExt

CONSTANTS
    Scores,       \* relevance scores of the model
    MaxDocuments  \* bound on the documents of a request

ASSUME RerankAssumption == Scores \subseteq Int /\ MaxDocuments \in Nat

Result == [index : Nat, relevance_score : Int]

Swapped(s, i, j) == [s EXCEPT ![i] = s[j], ![j] = s[i]]

(* The two cursors of one pass: j stops at a score above the pivot, then   *)
(* i stops at one below it, or they meet.                                  *)
LastAbove(s, base, i, j)  == Max({i} \cup {k \in i .. j : s[k].relevance_score > base})
FirstBelow(s, base, i, j) == Min({j} \cup {k \in i .. j : s[k].relevance_score < base})

(* The results and the cursors after n passes of the loop.                 *)
Passes(results, low, high) ==
    LET base == results[low].relevance_score
        pass[n \in Nat] ==
            IF n = 0 THEN [s |-> results, i |-> low, j |-> high]
            ELSE LET last  == pass[n - 1]
                     right == LastAbove(last.s, base, last.i, last.j)
                     left  == FirstBelow(last.s, base, last.i, right)
                 IN  [s |-> Swapped(last.s, left, right), i |-> left, j |-> right]
    IN  pass

(* Every pass brings the cursors closer, and none moves once they met.     *)
partition(results, low, high) == Passes(results, low, high)[high - low]

(* Results of which those from low to high are to be sorted.               *)
Parts == {p \in [s : Seq(Result), low : Nat \ {0}, high : Nat] : p.high <= Len(p.s)}

Part(s, low, high) == [s |-> s, low |-> low, high |-> high]

sort_rerank_results[p \in Parts] ==
    IF p.low >= p.high THEN p.s
    ELSE LET split == partition(p.s, p.low, p.high)
             base  == Swapped(split.s, p.low, split.i)
             lower == sort_rerank_results[Part(base, p.low, split.i - 1)]
         IN  sort_rerank_results[Part(lower, split.i + 1, p.high)]

(* Mutant: results are cut to top_n before they are sorted.                *)
Ranked_CutFirst(scores, top_n) ==
    LET results == [i \in 1 .. top_n |-> [index |-> i, relevance_score |-> scores[i]]]
    IN  sort_rerank_results[Part(results, 1, top_n)]

(* The scores of the documents, ranked and cut to top_n.                   *)
Ranked(scores, top_n) ==
    LET results == [i \in DOMAIN scores |-> [index |-> i, relevance_score |-> scores[i]]]
    IN  SubSeq(sort_rerank_results[Part(results, 1, Len(scores))], 1, top_n)

(* results ranks the documents by their scores: in order, no document      *)
(* twice, each under its own score, nothing cut off above what was kept.   *)
Ranks(results, scores) ==
    LET kept == {results[i].index : i \in DOMAIN results}
    IN  /\ Cardinality(kept) = Len(results)
        /\ \A i \in DOMAIN results : results[i].relevance_score = scores[results[i].index]
        /\ \A i, j \in DOMAIN results :
               i < j => results[i].relevance_score >= results[j].relevance_score
        /\ \A i \in DOMAIN results, k \in DOMAIN scores \ kept :
               results[i].relevance_score >= scores[k]

(* Whether every list of n documents is ranked, for every top_n.           *)
RankingOf == [n \in 1 .. MaxDocuments |->
    \A scores \in [1 .. n -> Scores], top_n \in 1 .. n :
        LET results == Ranked(scores, top_n)
        IN  Len(results) = top_n /\ Ranks(results, scores)]
=============================================================================
