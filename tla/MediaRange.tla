---------------------------- MODULE MediaRange ----------------------------
(***************************************************************************)
(* The byte arithmetic of the startup media cache                          *)
(* (internal/mediacache/service.go): how a Range header is resolved, which *)
(* cached chunk answers it, which slice of that chunk is sent, and which   *)
(* tail range Prewarm asks for.  Everything here is a pure operator.       *)
(*                                                                         *)
(* A byte is the pair <<file, position>>; a body is a sequence of bytes.   *)
(* A Range header is a record [kind, a, b]: "bytes=a-b" is "bounded",      *)
(* "bytes=a-" is "open", "bytes=-b" is "suffix", and every header the      *)
(* parser rejects (another unit, no dash, not a number) is "other".        *)
(***************************************************************************)
EXTENDS Integers, Sequences

\* Bytes a..b of a file, empty when b < a.
Bytes(file, a, b) == [i \in 1..(b - a + 1) |-> <<file, a + i - 1>>]

max(left, right) == IF left > right THEN left ELSE right

RangeKinds == {"bounded", "open", "suffix", "other"}

NoRange == [ok |-> FALSE, start |-> 0, end |-> 0, open |-> FALSE]

parseRange(h, total) ==
    CASE h.kind = "suffix" /\ h.b > 0 /\ h.b <= total ->
             [ok |-> TRUE, start |-> total - h.b, end |-> total - 1, open |-> FALSE]
      [] h.kind = "open" /\ h.a >= 0 /\ h.a < total ->
             [ok |-> TRUE, start |-> h.a, end |-> total - 1, open |-> TRUE]
      [] h.kind = "bounded" /\ h.a >= 0 /\ h.b >= h.a /\ h.b < total ->
             [ok |-> TRUE, start |-> h.a, end |-> h.b, open |-> FALSE]
      [] OTHER -> NoRange

(***************************************************************************)
(* What TryServeRange decides from a metadata entry, before it reads any   *)
(* blob: the chunk to read ("head", "tail" or "none"), the first and last  *)
(* file position it will announce, and the file position it believes the   *)
(* chunk starts at.  An open range that starts inside the head is answered *)
(* with the rest of the head only.                                         *)
(***************************************************************************)
Miss == [part |-> "none", start |-> 0, end |-> 0, base |-> 0]

\* Variant with an off-by-one at the start of the tail.
tailStartEarly(entry) == entry.total - entry.tailBytes - 1

tailStart(entry) == entry.total - entry.tailBytes

Decide(entry, h) ==
    LET r   == parseRange(h, entry.total)
        end == IF r.open /\ r.start < entry.headBytes
               THEN entry.headBytes - 1 ELSE r.end
    IN  CASE entry.total <= 0 \/ ~r.ok -> Miss
          [] entry.total > 0 /\ r.ok /\ end < entry.headBytes ->
                 [part |-> "head", start |-> r.start, end |-> end, base |-> 0]
          [] /\ entry.total > 0 /\ r.ok /\ end >= entry.headBytes
             /\ entry.hasTail /\ entry.tailBytes > 0
             /\ r.start >= tailStart(entry) /\ end < entry.total ->
                 [part |-> "tail", start |-> r.start, end |-> end,
                  base |-> tailStart(entry)]
          [] OTHER -> Miss

\* blob[localStart:localEnd] of buildCachedPartialResponse stays inside the blob.
InBounds(blob, d) == d.start >= d.base /\ d.end - d.base + 1 <= Len(blob)

buildCachedPartialResponse(blob, d) ==
    [i \in 1..(d.end - d.start + 1) |-> blob[d.start - d.base + i]]

\* Prewarm asks for a tail only when it is disjoint from the head it got.
prewarmTailStart(total, tailBytes) == max(0, total - tailBytes)

wantsTail(total, headLen, tailBytes) ==
    /\ tailBytes > 0
    /\ total > 0
    /\ prewarmTailStart(total, tailBytes) > 0
    /\ prewarmTailStart(total, tailBytes) >= headLen
===========================================================================
