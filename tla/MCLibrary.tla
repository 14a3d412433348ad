----------------------------- MODULE MCLibrary -----------------------------
(* Small instance of the client API for TLC. *)
EXTENDS Library

CONSTANTS c1, c2, x1

MCRef == {[kind |-> "catalog", name |-> c1], [kind |-> "episode", name |-> x1]}
MCMeta == {[pos |-> 1, title |-> ""], [pos |-> 2, title |-> "t"]}

(* Every history and watchlist of up to two rows, and every answer. *)
Row(src) == [cat : {c1, c2}, title : {"", src}, cover : {"", src}]
UpTo2(S) == UNION {[1..n -> S] : n \in 0..2}
MCHistories == UpTo2(Row("h"))
MCWatchlists == UpTo2(Row("w"))
MCDetails == UNION {[D -> [title : {"", "p"}, cover : {"", "p"}]] : D \in SUBSET {c1, c2}}

Alike == Permutations(Worker) \cup Permutations(Uuid)
===========================================================================
