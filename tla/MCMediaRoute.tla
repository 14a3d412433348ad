--------------------------- MODULE MCMediaRoute ---------------------------
(* Small instance of the media and stream routes for TLC. *)
EXTENDS MediaRoute

CONSTANTS e1, p1, p2, r1, t1, f1, f2, none, Lives

Link(f, life) == [file |-> f, exp |-> life, local |-> FALSE]

\* The page has one mp4, its link signed for one of these lives, in ticks.
MCOffer == [e \in Episode |->
    {ExtractStreamCandidates(<<[url |-> Link(f1, n), num |-> 720]>>) : n \in Lives}]

Header(k, a, b) == [kind |-> k, a |-> a, b |-> b]
\* p1 plays an episode; p2 fetches the same and other ranges of the link.
Ask(e, h) == [e |-> e, url |-> Link(f1, 3), range |-> h]
MCAsked == [p \in Player |->
    IF p = p1 THEN {Ask(e1, Header("bounded", 0, 1))}
    ELSE {Ask(none, Header("bounded", 0, 1)), Ask(none, Header("bounded", 1, 2)),
          Ask(none, Header("open", 0, 0))}]

(* Every page of at most three links, for the selection. *)
MCUrl == {Link(f1, n) : n \in Lives} \cup {Link(f2, 0)}
Pages(L) == UNION {[1..n -> L] : n \in 1..3}
\* The container is in the quality, in the link, in neither or in both.
MCOtakuPages == Pages({l \in
    [url : {Link(f2, 0)}, host : {"pixeldrain", "mp4", "other"},
     name : {"", "mp4", "mkv"}, text : {"", "mp4", "mkv"}, num : {480, 720}] :
    l.host = "mp4" => l.name = "mp4"})
MCKuraPages == Pages([url : MCUrl, num : {0, 480, 720, 1080}])
===========================================================================
