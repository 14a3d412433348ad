---------------------------- MODULE MediaFetch ----------------------------
(***************************************************************************)
(* The media fetcher (internal/httpserver/media_fetch.go) over the media   *)
(* proxy (internal/mediaproxy): small explicit ranges are fetched once for *)
(* all who ask at the same time and kept for a moment.                     *)
(*                                                                         *)
(* A Range header is [kind, a, b] as in MediaRange, with kind "none" when  *)
(* there is no header.  A response is the pair <<url, header>> of the      *)
(* request that it answers; whether its length is right is the business of *)
(* the upstream.                                                           *)
(***************************************************************************)
EXTENDS Integers

CONSTANTS
    Player,          \* requests in mediaRoute
    MaxBuffered      \* startupCoalesceMaxBytes

VARIABLES
    buf,     \* buf[key]: the response buffered for a key
    flight,  \* flight[key]: the requests in singleflight's call for the key
    fetch    \* fetch[p]: [pc, url, range, got] of the request
fetchVars == <<buf, flight, fetch>>

Put(f, k, v) == [x \in DOMAIN f \cup {k} |-> IF x = k THEN v ELSE f[x]]
Drop(f, k) == [x \in DOMAIN f \ {k} |-> f[x]]

\* What a fetch may end with besides a response.
Failed == <<"error">>
TooBig == <<"response not bufferable">>
NoFetch(u, h) == [pc |-> "none", url |-> u, range |-> h, got |-> Failed]

\* A bounded range of at most MaxBuffered bytes has a coalescing key.
coalesces(h) == h.kind = "bounded" /\ h.a >= 0 /\ h.a <= h.b
                /\ h.b - h.a + 1 <= MaxBuffered

\* Variant that coalesces all ranges of a URL.
coalescingUrlKey(u, h) == <<u>>

coalescingRangeKey(u, h) == <<u, h>>

isStartupRange(h) ==
    \/ h.kind = "none"
    \/ h.kind \in {"bounded", "open"} /\ h.a = 0

Key(p) == coalescingRangeKey(fetch[p].url, fetch[p].range)
FetchAt(p, label) == fetch[p].pc = label
FetchGoto(p, label) == fetch' = [fetch EXCEPT ![p].pc = label]
Got(p, label, x) == fetch' = [fetch EXCEPT ![p].pc = label, ![p].got = x]

Fetch(p, u, h) ==
    /\ fetch' = [fetch EXCEPT ![p] =
                    [NoFetch(u, h) EXCEPT !.pc = IF coalesces(h) THEN "lookup"
                                                 ELSE "direct"]]
    /\ UNCHANGED <<buf, flight>>

cachedBuffered(p) ==
    /\ FetchAt(p, "lookup")
    /\ IF Key(p) \in DOMAIN buf THEN Got(p, "done", buf[Key(p)])
       ELSE FetchGoto(p, "do")
    /\ UNCHANGED <<buf, flight>>

\* singleflight: the first becomes the leader, the others wait for it.
groupDo(p) ==
    /\ FetchAt(p, "do")
    /\ IF Key(p) \in DOMAIN flight
       THEN /\ flight' = [flight EXCEPT ![Key(p)] = @ \cup {p}]
            /\ FetchGoto(p, "wait")
       ELSE /\ flight' = Put(flight, Key(p), {p})
            /\ FetchGoto(p, "again")
    /\ UNCHANGED buf

\* Variant without the second look at the buffer.
cachedAgainSkipped(p) ==
    /\ FetchAt(p, "again")
    /\ FetchGoto(p, "upstream")
    /\ UNCHANGED <<buf, flight>>

cachedAgain(p) ==
    /\ FetchAt(p, "again")
    /\ IF Key(p) \in DOMAIN buf THEN Got(p, "settle", buf[Key(p)])
       ELSE FetchGoto(p, "upstream")
    /\ UNCHANGED <<buf, flight>>

\* The proxy answers the request, or fails: a transport error, a status from
\* 400 on, an expired signature.  readBufferedResponse then takes a response
\* of known small length, and refuses any other.
UpstreamBuffered(p, ok) ==
    /\ FetchAt(p, "upstream")
    /\ \/ ok /\ Got(p, "keep", <<fetch[p].url, fetch[p].range>>)
       \/ ok /\ Got(p, "settle", TooBig)
       \/ Got(p, "settle", Failed)
    /\ UNCHANGED <<buf, flight>>

KeepBuffered(p) ==
    /\ FetchAt(p, "keep")
    /\ buf' = Put(buf, Key(p), fetch[p].got)
    /\ FetchGoto(p, "settle")
    /\ UNCHANGED flight

\* Variant that lets the leader go without its followers.
groupSettleAlone(p) ==
    /\ FetchAt(p, "settle")
    /\ flight' = Drop(flight, Key(p))
    /\ Got(p, IF fetch[p].got = TooBig THEN "direct" ELSE "done", fetch[p].got)
    /\ UNCHANGED buf

\* The leader's outcome is everyone's; who cannot have a buffer fetches alone.
groupSettle(p) ==
    /\ FetchAt(p, "settle")
    /\ flight' = Drop(flight, Key(p))
    /\ fetch' = [q \in Player |->
                    IF q \in flight[Key(p)]
                    THEN [fetch[q] EXCEPT
                             !.pc = IF fetch[p].got = TooBig THEN "direct" ELSE "done",
                             !.got = fetch[p].got]
                    ELSE fetch[q]]
    /\ UNCHANGED buf

UpstreamDirect(p, ok) ==
    /\ FetchAt(p, "direct")
    /\ \/ ok /\ Got(p, "done", <<fetch[p].url, fetch[p].range>>)
       \/ Got(p, "done", Failed)
    /\ UNCHANGED <<buf, flight>>

FetchStep(p, ok) ==
    \/ cachedBuffered(p) \/ groupDo(p) \/ cachedAgain(p)
    \/ UpstreamBuffered(p, ok) \/ KeepBuffered(p) \/ groupSettle(p)
    \/ UpstreamDirect(p, ok)

\* The short time to live of a buffered response ends.
BufferExpires ==
    /\ \E k \in DOMAIN buf : buf' = Drop(buf, k)
    /\ UNCHANGED <<flight, fetch>>
===========================================================================
