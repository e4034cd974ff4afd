---------------------------- MODULE MCHttpCache ----------------------------
(* Instances of HttpCache for TLC. *)
EXTENDS HttpCache, TLC

IdSymmetry == Permutations(Ids)

Want(usage, maxage, fallback) ==
  [page |-> "p", usage |-> usage, maxage |-> maxage, fallback |-> fallback]

\* Pages, to be kept for a second or for ever.
PageWants == {Want("v", maxage, FALSE) : maxage \in {1, MaxNow + 1}}
\* A page and, at another address, prompts: nothing is both.
MixedWants == {Want("v", 1, FALSE)} \cup
              {[w EXCEPT !.page = "q"] :
                 w \in {Want("a", MaxNow + 1, TRUE), Want("a", 0, FALSE)}}
=============================================================================
