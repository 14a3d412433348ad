----------------------------- MODULE MCCatalog -----------------------------
(* Small instance of the catalog service for TLC. *)
EXTENDS CatalogService, TLC

CONSTANTS a, b, home, index, list

\* The detail of a recommends b, which has no episodes yet.
MCRec == [i \in Id |-> IF i = a THEN b ELSE NoId]
Answer(c, d, r) == [cover |-> c, dates |-> d, rec |-> r]
MCPartial == [i \in Id |-> {Answer("mal", IF i = a THEN "some" ELSE "empty", "mal")}]
MCWhole == [i \in Id |-> {Answer("own", IF i = a THEN "all" ELSE "empty", "mal")}]

(* Every site of the seed and two more pages, an episode on each. *)
Pages == 0..2
MCSites == [start : [eps : {{9}}, links : SUBSET {1, 2}], eps : {[n \in Pages |-> {n}]},
            links : [Pages -> SUBSET {1, 2}], up : SUBSET Pages]

Alike == Permutations(Caller)
===========================================================================
