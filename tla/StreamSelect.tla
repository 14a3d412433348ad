--------------------------- MODULE StreamSelect ---------------------------
(***************************************************************************)
(* From the links on an episode page to the stream that is preferred: the  *)
(* candidates each provider makes of the links, normalizeCandidates and    *)
(* pickPreferredStream of internal/service/stream, and the moment a result *)
(* stops being usable.  Everything here is a pure operator.                *)
(*                                                                         *)
(* A URL is [file, exp, local]: exp is the moment its signature ends, 0    *)
(* for an unsigned URL, and local marks a URL of this server's own media   *)
(* route.  A quality is <<text, number>>: <<"", 720>> is exactly "720p",   *)
(* <<"mp4", 720>> is "Mp4 720p".  sort.Slice is an insertion sort, hence   *)
(* stable, on lists as short (at most 12) as these pages have.             *)
(***************************************************************************)
EXTENDS Integers, Sequences, FiniteSetsExt, Orders

CONSTANTS
    Margin,      \* the five minutes resultExpiresAt takes off, in ticks
    Url,         \* what the providers' pages link to
    OtakuPages,  \* the lists of links otakudesu may read from a page
    KuraPages    \* the lists of sources kuramanime may read from a page

\* The elements of s at the indices I, in their order.
Keep(s, I) == LET at == Ascending(I) IN [i \in 1..Cardinality(I) |-> s[at[i]]]

\* The elements of s by descending key[i], equal ones in their order.
SortDesc(s, key) ==
    LET before == {p \in (DOMAIN s) \X (DOMAIN s) :
                      key[p[1]] > key[p[2]] \/ (key[p[1]] = key[p[2]] /\ p[1] < p[2])}
        at == InOrder(DOMAIN s, before)
    IN  [i \in DOMAIN s |-> s[at[i]]]

\* The first element of s for every key[i].
Dedupe(s, key) == Keep(s, {i \in DOMAIN s : \A j \in 1..(i - 1) : key[j] # key[i]})

SortByPriority(s) == SortDesc(s, [i \in DOMAIN s |-> s[i].prio])
---------------------------------------------------------------------------
(***************************************************************************)
(* Providers.  A kuramanime source is [url, num] with num 0 when neither   *)
(* the size attribute nor the URL has a number.  An otakudesu link is      *)
(* [url, host, name, text, num]; host is "pixeldrain", "mp4" for any URL   *)
(* that ends in .mp4, or "other", and name is the container the URL        *)
(* mentions anywhere, "" for none.                                         *)
(***************************************************************************)
KuraSource == [url : Url, num : Nat]
OtakuLink == [url : Url, host : STRING, name : STRING, text : STRING, num : Nat]

\* Links of the providers lead elsewhere; a signature ends at some time.
ASSUME PagesAssumption ==
    /\ \A u \in Url : /\ u = [file |-> u.file, exp |-> u.exp, local |-> u.local]
                     /\ u.exp \in Nat /\ ~u.local
    /\ OtakuPages \subseteq Seq(OtakuLink) /\ KuraPages \subseteq Seq(KuraSource)

kuramanimePriority(num) ==
    100 + CASE num = 720 -> 70 [] num = 480 -> 60 [] num = 360 -> 50 [] OTHER -> 10

ExtractStreamCandidates(sources) ==
    LET candidate(s) == [url |-> s.url, container |-> "mp4",
                         quality |-> <<"", s.num>>, direct |-> TRUE,
                         playable |-> TRUE, prio |-> kuramanimePriority(s.num)]
        sorted == SortByPriority([i \in DOMAIN sources |-> candidate(sources[i])])
        unique == Dedupe(sorted, [i \in DOMAIN sorted |-> <<sorted[i].quality, sorted[i].url>>])
    IN  SortDesc(unique, [i \in DOMAIN unique |-> unique[i].quality[2]])

containerFrom(l) ==
    CASE "mp4" \in {l.text, l.name, l.host} -> "mp4"
      [] "mkv" \in {l.text, l.name} -> "mkv"
      [] OTHER -> "unknown"

\* normalizeDownloadURL: only these two hosts give a direct link.
isDirect(l) == l.host \in {"pixeldrain", "mp4"}

\* Variant that does not rank a direct link above one that is not.
streamPriorityFlat(l) ==
    (IF containerFrom(l) = "mp4" THEN 50 ELSE 0)
    + CASE l.num = 720 -> 40 [] l.num = 480 -> 35 [] l.num = 1080 -> 30
        [] l.num = 360 -> 20 [] OTHER -> 10

streamPriority(l) ==
    (IF isDirect(l) THEN 100 ELSE 0)
    + (IF containerFrom(l) = "mp4" THEN 50 ELSE 0)
    + CASE l.num = 720 -> 40 [] l.num = 480 -> 35 [] l.num = 1080 -> 30
        [] l.num = 360 -> 20 [] OTHER -> 10

otakudesuCandidates(links) ==
    [i \in DOMAIN links |->
        [url |-> links[i].url, container |-> containerFrom(links[i]),
         quality |-> <<links[i].text, links[i].num>>,
         direct |-> isDirect(links[i]), playable |-> isDirect(links[i]),
         prio |-> streamPriority(links[i])]]
---------------------------------------------------------------------------
Playable(c) == c.direct /\ c.playable
IsMp4(c) == c.container = "mp4"
Is720p(c) == c.quality = <<"", 720>>

\* Both providers always name a container, so the key is never blank.
streamKey(c) == <<c.container, c.quality>>

normalizeCandidates(candidates) ==
    LET sorted  == SortByPriority(candidates)
        deduped == Dedupe(sorted, [i \in DOMAIN sorted |-> streamKey(sorted[i])])
        direct  == {i \in DOMAIN deduped : Playable(deduped[i])}
        mp4     == {i \in direct : IsMp4(deduped[i])}
    IN  IF direct = {} THEN deduped
        ELSE Keep(deduped, IF mp4 # {} THEN mp4 ELSE direct)

\* Position of the preferred candidate, 0 when there is none at all.
preferredIndex(cs) ==
    LET mp4    == {i \in DOMAIN cs : Playable(cs[i]) /\ IsMp4(cs[i])}
        best   == {i \in mp4 : Is720p(cs[i])}
        direct == {i \in DOMAIN cs : cs[i].direct}
    IN  IF best # {} THEN Min(best) ELSE IF mp4 # {} THEN Min(mp4)
        ELSE IF direct # {} THEN Min(direct) ELSE IF cs # << >> THEN 1 ELSE 0

\* The StreamResult that resolve makes of what the provider returned.
resolved(candidates) ==
    LET cs == SortByPriority(normalizeCandidates(candidates))
    IN  [cands |-> cs, preferred |-> preferredIndex(cs)]

Signed(result) == {i \in DOMAIN result.cands : result.cands[i].url.exp # 0}

\* Variant that trusts a signature to its last moment.
resultExpiresAtExact(result) ==
    Min({result.cands[i].url.exp : i \in Signed(result)})

\* The preferred stream is one of the candidates.
resultExpiresAt(result) ==
    Min({result.cands[i].url.exp : i \in Signed(result)}) - Margin

\* Without a signature the result is good for ten years.
resultIsExpired(at, result) ==
    Signed(result) # {} /\ resultExpiresAt(result) <= at
---------------------------------------------------------------------------
(***************************************************************************)
(* A candidate list is served well when nothing that could be played is    *)
(* hidden: sorting, the two deduplications and the two filters together    *)
(* keep a direct link for every quality that had a direct mp4, and prefer  *)
(* one that is playable, mp4 and 720p as far as the page has such a link   *)
(* ("preferred_720p_direct_mp4", stream/service_test.go).                  *)
(***************************************************************************)
WellServed(candidates) ==
    LET r       == resolved(candidates)
        chosen  == r.cands[r.preferred]
        offered == {candidates[i] : i \in DOMAIN candidates}
        Has(S)  == S # {}
        play    == {c \in offered : Playable(c)}
        mp4     == {c \in play : IsMp4(c)}
        hd      == {c \in mp4 : Is720p(c)}
    IN  /\ Has(offered) => r.preferred \in DOMAIN r.cands
        /\ Has(play) => Playable(chosen)
        /\ Has(mp4) => IsMp4(chosen)
        /\ Has(hd) => chosen \in hd
        /\ \A c \in mp4 : \E i \in DOMAIN r.cands :
              Playable(r.cands[i]) /\ streamKey(r.cands[i]) = streamKey(c)
        /\ \A i, j \in DOMAIN r.cands :
              i < j => /\ r.cands[i].prio >= r.cands[j].prio
                       /\ streamKey(r.cands[i]) # streamKey(r.cands[j])

EveryPageServed ==
    /\ \A page \in OtakuPages : WellServed(otakudesuCandidates(page))
    /\ \A page \in KuraPages : WellServed(ExtractStreamCandidates(page))
===========================================================================
