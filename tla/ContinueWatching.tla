-------------------------- MODULE ContinueWatching --------------------------
(***************************************************************************)
(* ContinueWatching of internal/service/library: titles and covers of the  *)
(* history's rows, newest first, completed from the watchlist and, for     *)
(* what is missing there too, from the provider.  A row is [cat, title,    *)
(* cover] with "" for blank; details[cat] is what the provider answers,    *)
(* for the catalogs it answers for.                                        *)
(***************************************************************************)
EXTENDS Naturals, Sequences, SequencesExt

CONSTANTS Histories, Watchlists, Details    \* what the tables and the provider may hold

Full(m) == m.title # "" /\ m.cover # ""
NoMeta == [title |-> "", cover |-> ""]

\* The map keeps the last of several rows for a catalog.
lookup(watchlist, cat) ==
    LET n == SelectLastInSeq(watchlist, LAMBDA r : r.cat = cat)
    IN  IF n = 0 THEN NoMeta ELSE [title |-> watchlist[n].title, cover |-> watchlist[n].cover]

\* The newest row of its catalog.
IsFirst(history, i) == \A j \in 1..(i - 1) : history[j].cat # history[i].cat

\* Variant that is content with a title or a cover.
collectMissingLax(history, watchlist) ==
    {history[i].cat : i \in {j \in DOMAIN history :
        /\ IsFirst(history, j)
        /\ history[j].title = "" /\ history[j].cover = ""
        /\ ~Full(lookup(watchlist, history[j].cat))}}

collectMissing(history, watchlist) ==
    {history[i].cat : i \in {j \in DOMAIN history :
        /\ IsFirst(history, j)
        /\ ~Full(history[j])
        /\ ~Full(lookup(watchlist, history[j].cat))}}

FirstNonBlank(s) == IF s[1] # "" THEN s[1] ELSE IF s[2] # "" THEN s[2] ELSE s[3]

buildItems(history, watchlist, fallback) ==
    [i \in DOMAIN history |->
        LET r == history[i]
            w == lookup(watchlist, r.cat)
            f == IF r.cat \in DOMAIN fallback THEN fallback[r.cat] ELSE NoMeta
        IN  [cat |-> r.cat, title |-> FirstNonBlank(<<r.title, w.title, f.title>>),
             cover |-> FirstNonBlank(<<r.cover, w.cover, f.cover>>)]]

items(history, watchlist, details) ==
    buildItems(history, watchlist,
        [c \in collectMissing(history, watchlist) \cap DOMAIN details |-> details[c]])

\* The newest row of a catalog gets the first title and the first cover that
\* the row, the watchlist and the provider have, in this order, although the
\* provider is not asked for every row ("expected watchlist title to win",
\* library/service_test.go).
Completed(history, watchlist, details) ==
    \A i \in DOMAIN history : IsFirst(history, i) =>
        LET r == history[i]
            w == lookup(watchlist, r.cat)
            d == IF r.cat \in DOMAIN details THEN details[r.cat] ELSE NoMeta
            x == items(history, watchlist, details)[i]
        IN  /\ x.title = FirstNonBlank(<<r.title, w.title, d.title>>)
            /\ x.cover = FirstNonBlank(<<r.cover, w.cover, d.cover>>)

EveryListCompleted ==
    \A h \in Histories, wl \in Watchlists, d \in Details : Completed(h, wl, d)
===========================================================================
