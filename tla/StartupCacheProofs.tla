------------------------ MODULE StartupCacheProofs ------------------------
(***************************************************************************)
(* For every file length, chunk size, number of goroutines and URLs: under *)
(* one configuration, and servers that never cut a tail short, a metadata  *)
(* row is always backed by the object store and a hit carries exactly the  *)
(* bytes that were asked for.                                              *)
(***************************************************************************)
EXTENDS StartupCacheInv, TLAPS

---------------------------------------------------------------------------
(***************************************************************************)
(* Byte arithmetic.                                                        *)
(***************************************************************************)

\* What Bytes returns: n bytes from position a on, in order.
LEMMA BytesFacts ==
    ASSUME NEW f \in File, NEW a \in Nat, NEW b \in Int, NEW n \in Nat,
           n = b - a + 1
    PROVE  /\ Bytes(f, a, b) \in Seq(Byte)
           /\ Len(Bytes(f, a, b)) = n
           /\ \A i \in 1..n : Bytes(f, a, b)[i] = <<f, a + i - 1>>
BY DEF Bytes, Byte

\* The sizes of a configuration are natural numbers.
LEMMA Sizes ==
    ASSUME UniformConfig
    PROVE  /\ headSize \in Nat /\ tailSize \in Nat
           /\ \A w \in Worker : HeadBytes[w] = headSize /\ TailBytes[w] = tailSize
BY ConfigAssumption, ProcAssumption DEF UniformConfig, headSize, tailSize

\* The head chunk is a prefix of the file.
LEMMA HeadFacts ==
    ASSUME TailsFit, headSize \in Nat, NEW u \in Url
    PROVE  /\ FileLen(u) \in Nat /\ SourceKey[u] \in File
           /\ HeadBody(u) \in Seq(Byte)
           /\ Len(HeadBody(u)) \in 0..FileLen(u)
           /\ \A i \in 1..Len(HeadBody(u)) : HeadBody(u)[i] = <<SourceKey[u], i - 1>>
<1> DEFINE f == SourceKey[u]
           b == max(0, headSize - 1)
           last == IF b < Length[f] THEN b ELSE Length[f] - 1
<1>1. /\ f \in File /\ Length[f] \in Nat /\ b \in Nat /\ Cap \in Nat \ {0}
      /\ Answer[u] \in {"exact", "whole", "capped"}
  BY FileAssumption DEF max
<1>2. CASE Answer[u] = "exact"
  <2>1. HeadBody(u) = Bytes(f, 0, last)
    BY <1>2 DEF HeadBody, FetchBody
  <2>2. last \in Int /\ last >= -1 /\ last + 1 <= Length[f]
    BY <1>1
  <2> HIDE DEF last, b, f
  <2>3. 0 \in Nat /\ last + 1 \in Nat /\ last + 1 = last - 0 + 1
    BY <2>2
  <2>4. /\ Bytes(f, 0, last) \in Seq(Byte)
        /\ Len(Bytes(f, 0, last)) = last + 1
        /\ \A i \in 1..(last + 1) : Bytes(f, 0, last)[i] = <<f, 0 + i - 1>>
    BY ONLY <1>1, <2>2, <2>3, BytesFacts
  <2> QED
    BY <1>1, <2>1, <2>2, <2>4 DEF FileLen, f
<1>3. CASE Answer[u] = "whole"
  <2>1. HeadBody(u) = Bytes(f, 0, Length[f] - 1)
    BY <1>3 DEF HeadBody, FetchBody
  <2> HIDE DEF f
  <2>2. 0 \in Nat /\ Length[f] - 1 \in Int /\ Length[f] = Length[f] - 1 - 0 + 1
    BY <1>1
  <2>3. /\ Bytes(f, 0, Length[f] - 1) \in Seq(Byte)
        /\ Len(Bytes(f, 0, Length[f] - 1)) = Length[f]
        /\ \A i \in 1..Length[f] :
               Bytes(f, 0, Length[f] - 1)[i] = <<f, 0 + i - 1>>
    BY ONLY <1>1, <2>2, BytesFacts
  <2> QED
    BY <1>1, <2>1, <2>3 DEF FileLen, f
<1>4. CASE Answer[u] = "capped"
  <2> DEFINE cut == IF last < 0 + Cap THEN last ELSE 0 + Cap - 1
  <2>1. HeadBody(u) = Bytes(f, 0, cut)
    BY <1>4 DEF HeadBody, FetchBody
  <2>2. cut \in Int /\ cut >= -1 /\ cut + 1 <= Length[f]
    BY <1>1
  <2> HIDE DEF cut, last, b, f
  <2>3. 0 \in Nat /\ cut + 1 \in Nat /\ cut + 1 = cut - 0 + 1
    BY <2>2
  <2>4. /\ Bytes(f, 0, cut) \in Seq(Byte)
        /\ Len(Bytes(f, 0, cut)) = cut + 1
        /\ \A i \in 1..(cut + 1) : Bytes(f, 0, cut)[i] = <<f, 0 + i - 1>>
    BY ONLY <1>1, <2>2, <2>3, BytesFacts
  <2> QED
    BY <1>1, <2>1, <2>2, <2>4 DEF FileLen, f
<1> QED
  BY <1>1, <1>2, <1>3, <1>4

\* The tail chunk, when Prewarm wants one, is the last tailSize bytes.
LEMMA TailFacts ==
    ASSUME TailsFit, headSize \in Nat, tailSize \in Nat, NEW u \in Url,
           HasTail(u)
    PROVE  /\ TailBody(u) \in Seq(Byte)
           /\ Len(TailBody(u)) = tailSize
           /\ tailSize > 0 /\ tailSize <= FileLen(u) - Len(HeadBody(u))
           /\ \A i \in 1..tailSize :
                  TailBody(u)[i] = <<SourceKey[u], FileLen(u) - tailSize + i - 1>>
<1> DEFINE f == SourceKey[u]
           L == FileLen(u)
           a == prewarmTailStart(L, tailSize)
<1>1. /\ f \in File /\ L \in Nat /\ Len(HeadBody(u)) \in 0..L
      /\ Answer[u] \in {"exact", "whole", "capped"}
      /\ Cap \in Nat /\ (Answer[u] = "capped" => Cap >= tailSize)
  BY HeadFacts, FileAssumption DEF TailsFit
<1>2. /\ tailSize > 0 /\ a = L - tailSize /\ a \in Nat
      /\ a >= Len(HeadBody(u))
  BY <1>1 DEF HasTail, wantsTail, prewarmTailStart, max
<1>3. Answer[u] # "whole"
  <2>1. SUFFICES ASSUME Answer[u] = "whole" PROVE FALSE
    BY <1>1
  <2>2. HeadBody(u) = Bytes(f, 0, L - 1)
    BY <2>1 DEF HeadBody, FetchBody, FileLen
  <2>3. Len(HeadBody(u)) = L
    BY <1>1, <2>2, BytesFacts
  <2> QED
    BY <1>1, <1>2, <2>3
<1>4. TailBody(u) = Bytes(f, a, L - 1)
  <2>1. Answer[u] = "capped" => L - 1 < a + Cap
    BY <1>1, <1>2
  <2>2. L - 1 < L
    BY <1>1
  <2> QED
    BY <1>1, <1>3, <2>1, <2>2 DEF TailBody, FetchBody, FileLen
<1> HIDE DEF a, L, f
<1>5. L - 1 \in Int /\ tailSize = L - 1 - a + 1
  BY <1>1, <1>2
<1>6. /\ Bytes(f, a, L - 1) \in Seq(Byte)
      /\ Len(Bytes(f, a, L - 1)) = tailSize
      /\ \A i \in 1..tailSize : Bytes(f, a, L - 1)[i] = <<f, a + i - 1>>
  <2>1. tailSize \in Nat
    OBVIOUS
  <2> QED
    BY ONLY <1>1, <1>2, <1>5, <2>1, BytesFacts
<1>7. /\ TailBody(u) \in Seq(Byte)
      /\ Len(TailBody(u)) = tailSize
  BY ONLY <1>4, <1>6
<1>8. tailSize > 0 /\ tailSize <= L - Len(HeadBody(u))
  BY ONLY <1>1, <1>2, tailSize \in Nat
<1>9. \A i \in 1..tailSize : TailBody(u)[i] = <<f, L - tailSize + i - 1>>
  BY ONLY <1>2, <1>4, <1>6
<1> QED
  BY <1>7, <1>8, <1>9 DEF L, f

\* Both chunks of an entry's URL that the entry records are bodies.
LEMMA BlobFacts ==
    ASSUME TailsFit, headSize \in Nat, tailSize \in Nat,
           NEW e \in Episode, NEW u \in Url, NEW s \in Parts,
           s = "tail" => HasTail(u)
    PROVE  Blob(blobKey(e, u, s)) \in Seq(Byte)
BY HeadFacts, TailFacts DEF Blob, blobKey, Parts

(***************************************************************************)
(* Serving: what TryServeRange decides lies inside the chunk the row       *)
(* records, and the slice of any long enough prefix of that chunk is what  *)
(* was asked for.                                                          *)
(***************************************************************************)

\* Headers of jobs are headers.
LEMMA HeaderTyped ==
    ASSUME NEW h \in Header \cup {NoHeader}
    PROVE  h.kind \in RangeKinds /\ h.a \in Int /\ h.b \in Int
BY HeaderAssumption DEF NoHeader, RangeKinds

\* A decision to serve names a non-empty range inside the chunk it picks; the
\* range is the one asked for, or the rest of the head for an open range.
LEMMA DecideFacts ==
    ASSUME NEW x \in Entry, NEW h \in Header \cup {NoHeader},
           x.headBytes <= x.total, x.hasTail => x.tailBytes <= x.total,
           Decide(x, h).part # "none"
    PROVE  LET d == Decide(x, h) IN
           /\ d.start \in Nat /\ d.end \in Nat /\ d.start <= d.end
           /\ d.end < x.total
           /\ d.start = FirstAsked(h, x.total)
           /\ h.kind \in {"bounded", "suffix"} => d.end = LastAsked(h, x.total)
           /\ h.kind \in {"bounded", "suffix", "open"}
           /\ d.part = "head" => d.base = 0 /\ d.end < x.headBytes
           /\ d.part = "tail" => /\ x.hasTail
                                 /\ d.base = x.total - x.tailBytes
                                 /\ d.start >= d.base
           /\ d.part \in Parts
<1> DEFINE d == Decide(x, h)
           r == parseRange(h, x.total)
<1>1. h.kind \in RangeKinds /\ h.a \in Int /\ h.b \in Int
  BY HeaderTyped
<1>2. /\ x.total \in Nat /\ x.headBytes \in Nat /\ x.tailBytes \in Nat
      /\ x.hasTail \in BOOLEAN
  BY DEF Entry
<1>3. r.ok => /\ r.start \in Nat /\ r.end \in Nat /\ r.start <= r.end
              /\ r.end < x.total
              /\ r.start = FirstAsked(h, x.total)
              /\ r.end = LastAsked(h, x.total)
              /\ r.open <=> h.kind = "open"
              /\ h.kind \in {"bounded", "suffix", "open"}
  BY <1>1, <1>2 DEF parseRange, NoRange, FirstAsked, LastAsked, RangeKinds
<1>4. r.ok
  BY DEF Decide, Miss
<1> HIDE DEF r
<1> QED
  BY <1>1, <1>2, <1>3, <1>4 DEF Decide, Miss, tailStart, Parts, r

\* The chunk of an entry that is right: its length, and where it starts.
LEMMA ChunkFacts ==
    ASSUME TailsFit, headSize \in Nat, tailSize \in Nat,
           NEW e \in Episode, NEW x \in Entry, EntryRight(x), NEW s \in Parts,
           s = "tail" => x.hasTail
    PROVE  LET c    == Blob(blobKey(e, x.url, s))
               base == IF s = "head" THEN 0 ELSE x.total - x.tailBytes
               n    == IF s = "head" THEN x.headBytes ELSE x.tailBytes
           IN  /\ SourceKey[x.url] \in File
               /\ x.headBytes <= x.total /\ (x.hasTail => x.tailBytes <= x.total)
               /\ x.total = Length[SourceKey[x.url]]
               /\ c \in Seq(Byte) /\ Len(c) = n
               /\ \A i \in 1..n : c[i] = <<SourceKey[x.url], base + i - 1>>
<1>1. x.url \in Url /\ x.total \in Nat /\ x.tailBytes \in Nat /\ x.headBytes \in Nat
  BY DEF Entry
<1>2. /\ FileLen(x.url) \in Nat /\ SourceKey[x.url] \in File
      /\ HeadBody(x.url) \in Seq(Byte)
      /\ Len(HeadBody(x.url)) \in 0..FileLen(x.url)
      /\ \A i \in 1..Len(HeadBody(x.url)) :
             HeadBody(x.url)[i] = <<SourceKey[x.url], i - 1>>
  BY <1>1, HeadFacts
<1>3. x.hasTail =>
         /\ TailBody(x.url) \in Seq(Byte)
         /\ Len(TailBody(x.url)) = tailSize
         /\ tailSize > 0 /\ tailSize <= FileLen(x.url) - Len(HeadBody(x.url))
         /\ \A i \in 1..tailSize :
                TailBody(x.url)[i]
                    = <<SourceKey[x.url], FileLen(x.url) - tailSize + i - 1>>
  BY <1>1, TailFacts DEF EntryRight
<1>4. CASE s = "head"
  BY <1>1, <1>2, <1>3, <1>4 DEF EntryRight, Blob, blobKey, FileLen
<1>5. CASE s = "tail"
  <2>1. Blob(blobKey(e, x.url, s)) = TailBody(x.url)
    BY <1>5 DEF Blob, blobKey
  <2>2. /\ x.total = FileLen(x.url) /\ x.headBytes = Len(HeadBody(x.url))
        /\ x.hasTail /\ x.tailBytes = tailSize
    BY <1>3, <1>5 DEF EntryRight
  <2>3. x.headBytes <= x.total /\ x.tailBytes <= x.total
    BY <1>1, <1>2, <1>3, <2>2
  <2>4. /\ TailBody(x.url) \in Seq(Byte) /\ Len(TailBody(x.url)) = x.tailBytes
        /\ \A i \in 1..x.tailBytes :
               TailBody(x.url)[i]
                   = <<SourceKey[x.url], x.total - x.tailBytes + i - 1>>
    BY <1>3, <2>2
  <2>5. x.total = Length[SourceKey[x.url]]
    BY <2>2 DEF FileLen
  <2> QED
    BY <1>2, <1>5, <2>1, <2>3, <2>4, <2>5
<1> QED
  BY <1>4, <1>5 DEF Parts

\* buildCachedPartialResponse cuts exactly the bytes asked for out of any
\* prefix of the chunk that is long enough: no off-by-one at either end.
LEMMA SliceRight ==
    ASSUME TailsFit, headSize \in Nat, tailSize \in Nat,
           NEW e \in Episode, NEW x \in Entry, EntryRight(x),
           NEW h \in Header \cup {NoHeader}, Decide(x, h).part # "none",
           NEW b \in Seq(Byte),
           IsPrefix(b, Blob(blobKey(e, x.url, Decide(x, h).part))),
           InBounds(b, Decide(x, h))
    PROVE  /\ buildCachedPartialResponse(b, Decide(x, h)) \in Seq(Byte)
           /\ RightBytes(SourceKey[x.url], h,
                         buildCachedPartialResponse(b, Decide(x, h)))
<1> DEFINE d == Decide(x, h)
           f == SourceKey[x.url]
           c == Blob(blobKey(e, x.url, d.part))
           resp == buildCachedPartialResponse(b, d)
           n == d.end - d.start + 1
<1>1. /\ x.headBytes <= x.total /\ (x.hasTail => x.tailBytes <= x.total)
      /\ f \in File /\ x.total = Length[f]
  BY ChunkFacts DEF Parts
<1>2. /\ d.start \in Nat /\ d.end \in Nat /\ d.start <= d.end
      /\ d.end < x.total
      /\ d.start = FirstAsked(h, x.total)
      /\ h.kind \in {"bounded", "suffix"} => d.end = LastAsked(h, x.total)
      /\ h.kind \in {"bounded", "suffix", "open"}
      /\ d.part = "head" => d.base = 0
      /\ d.part = "tail" => x.hasTail /\ d.base = x.total - x.tailBytes
      /\ d.part \in Parts
  BY <1>1, DecideFacts
<1>3. /\ d.base \in Int
      /\ \A i \in 1..Len(c) : c[i] = <<f, d.base + i - 1>>
  <2>1. x.total \in Nat /\ x.tailBytes \in Nat /\ x.headBytes \in Nat
    BY DEF Entry
  <2>2. d.part \in Parts /\ (d.part = "tail" => x.hasTail)
    BY <1>2
  <2> DEFINE base == IF d.part = "head" THEN 0 ELSE x.total - x.tailBytes
             m == IF d.part = "head" THEN x.headBytes ELSE x.tailBytes
  <2>3. Len(c) = m /\ \A i \in 1..m : c[i] = <<f, base + i - 1>>
    <3> HIDE DEF d
    <3> QED
      BY <2>2, ChunkFacts
  <2>4. d.base = base
    BY <1>2 DEF Parts
  <2> HIDE DEF c, f, m, d
  <2> QED
    BY <2>1, <2>3, <2>4
<1> HIDE DEF d, f, c
<1>4. \A i \in 1..Len(b) : b[i] = <<f, d.base + i - 1>> /\ b[i] \in Byte
  BY <1>3 DEF IsPrefix, c, d
<1>5. d.start >= d.base /\ d.end - d.base + 1 <= Len(b) /\ Len(b) \in Nat
  BY DEF InBounds, d
<1>6. n \in Nat /\ n > 0
  BY <1>2
<1>7. \A i \in 1..n : d.start - d.base + i \in 1..Len(b)
  BY <1>2, <1>3, <1>5
<1>8. resp = [i \in 1..n |-> b[d.start - d.base + i]]
  BY DEF buildCachedPartialResponse
<1>9. \A i \in 1..n : b[d.start - d.base + i] = <<f, d.start + i - 1>>
  <2> SUFFICES ASSUME NEW i \in 1..n
               PROVE  b[d.start - d.base + i] = <<f, d.start + i - 1>>
    OBVIOUS
  <2> DEFINE j == d.start - d.base + i
  <2>1. j \in 1..Len(b) /\ i \in Int
    BY <1>6, <1>7
  <2>2. d.base + j - 1 = d.start + i - 1
    BY ONLY <1>2, <1>3, <2>1
  <2> HIDE DEF j
  <2>3. b[j] = <<f, d.base + j - 1>>
    BY ONLY <1>4, <2>1
  <2>4. b[j] = <<f, d.start + i - 1>>
    BY ONLY <2>2, <2>3
  <2> QED
    BY <2>4 DEF j
<1> HIDE DEF n, resp
<1>10. resp \in Seq(Byte) /\ Len(resp) = n
  BY <1>4, <1>6, <1>7, <1>8
<1>11. resp = [i \in 1..n |-> <<f, d.start + i - 1>>]
  BY <1>8, <1>9
<1>12. resp = Bytes(f, d.start, d.start + n - 1)
  <2>1. (d.start + n - 1) - d.start + 1 = n
    BY <1>2, <1>6
  <2> QED
    BY <1>11, <2>1 DEF Bytes
<1>13. resp # << >>
  BY <1>6, <1>10
<1>14. d.start + n - 1 = d.end
  BY <1>2 DEF n
<1>15. x.total - 1 >= d.end
  BY <1>2 DEF Entry
<1> QED
  BY <1>1, <1>2, <1>10, <1>12, <1>13, <1>14, <1>15
     DEF RightBytes, LastAsked, d, f, resp

\* A slice decided from a right entry lies inside the whole chunk.
LEMMA WholeChunkInBounds ==
    ASSUME TailsFit, headSize \in Nat, tailSize \in Nat,
           NEW e \in Episode, NEW x \in Entry, EntryRight(x),
           NEW h \in Header \cup {NoHeader}, Decide(x, h).part # "none"
    PROVE  InBounds(Blob(blobKey(e, x.url, Decide(x, h).part)), Decide(x, h))
<1> DEFINE d == Decide(x, h)
<1>1. x.headBytes <= x.total /\ (x.hasTail => x.tailBytes <= x.total)
  BY ChunkFacts DEF Parts
<1>2. /\ d.start \in Nat /\ d.end \in Nat
      /\ d.end < x.total
      /\ d.part = "head" => d.base = 0 /\ d.end < x.headBytes
      /\ d.part = "tail" => /\ x.hasTail /\ d.base = x.total - x.tailBytes
                            /\ d.start >= d.base
      /\ d.part \in Parts
  BY <1>1, DecideFacts
<1> HIDE DEF d
<1>3. Len(Blob(blobKey(e, x.url, d.part)))
         = IF d.part = "head" THEN x.headBytes ELSE x.tailBytes
  BY <1>2, ChunkFacts DEF Parts
<1> QED
  BY <1>2, <1>3 DEF InBounds, Entry, Parts, d
---------------------------------------------------------------------------
(***************************************************************************)
(* Files, and what one goroutine's step leaves alone.                      *)
(***************************************************************************)

\* Writing one prefix of a chunk over another leaves a prefix of the chunk.
LEMMA OverlayFacts ==
    ASSUME NEW b \in Seq(Byte), NEW cur \in Seq(Byte), NEW c \in Seq(Byte),
           IsPrefix(b, c), IsPrefix(cur, c)
    PROVE  Overlay(b, cur) \in Seq(Byte) /\ IsPrefix(Overlay(b, cur), c)
<1> DEFINE n == max(Len(b), Len(cur))
<1>1. n \in Nat /\ n <= Len(c) /\ Len(c) \in Nat
  BY DEF max, IsPrefix
<1>2. Overlay(b, cur) = [i \in 1..n |-> c[i]]
  BY DEF max, IsPrefix, Overlay
<1>3. \A i \in 1..n : c[i] \in Byte
  BY <1>1
<1> HIDE DEF n
<1> QED
  BY <1>1, <1>2, <1>3 DEF IsPrefix

\* The first n bytes of a chunk are a prefix of it.
LEMMA PrefixFacts ==
    ASSUME NEW c \in Seq(Byte), NEW n \in Nat, n <= Len(c)
    PROVE  Prefix(c, n) \in Seq(Byte) /\ IsPrefix(Prefix(c, n), c)
<1>1. \A i \in 1..n : c[i] \in Byte
  OBVIOUS
<1> QED
  BY <1>1 DEF Prefix, IsPrefix

\* Values of the locals of a goroutine that is not running.
LEMMA IdleTyped ==
    /\ NoJob \in Job
    /\ \A u \in Url : NoEntry(u) \in Entry
    /\ NoEntry(SomeUrl) \in Entry
    /\ << >> \in Seq(Byte)
BY NameAssumption DEF NoJob, Job, NoEntry, Entry, SomeEpisode, SomeUrl

SameLocals(q) ==
    /\ pc'[q] = pc[q] /\ job'[q] = job[q] /\ ent'[q] = ent[q]
    /\ part'[q] = part[q] /\ body'[q] = body[q]
OthersSame(p) == \A q \in Proc : q # p => SameLocals(q)

\* No file and, while nobody purges, no object disappears.
Grows ==
    /\ DOMAIN local \subseteq DOMAIN local'
    /\ Tiered /\ ~Purging => DOMAIN remote \subseteq DOMAIN remote'

\* A goroutine that does not move stays right.
LEMMA Frame ==
    ASSUME NEW q \in Proc, ProcRight(q), SameLocals(q), Grows
    PROVE  ProcRight(q)'
<1>1. /\ \A e, x : Kept(e, x) => Kept(e, x)'
      /\ \A e, u, s : InStore(e, u, s) => InStore(e, u, s)'
  BY DEF Grows, Kept, InStore
<1>2. getKey(q)' = getKey(q)
  BY DEF SameLocals, getKey
<1>3. GetRight(q)'
  BY <1>1, <1>2 DEF ProcRight, GetRight, SameLocals, Grows
<1>4. q \in Worker => PutRight(q)'
  BY <1>1, <1>2 DEF ProcRight, PutRight, SameLocals, Grows
<1>5. q \in Reader => ReadRight(q)' /\ HitRight(q)'
  BY DEF ProcRight, ReadRight, HitRight, SameLocals
<1> QED
  BY <1>3, <1>4, <1>5 DEF ProcRight

\* So a step of p is safe when the stores stay right and p does.
LEMMA Move ==
    ASSUME IInv, NEW p \in Proc, OthersSame(p), Grows,
           TypeStores', TypeLocals', StoresRight', ProcRight(p)'
    PROVE  IInv'
<1>1. \A q \in Proc : ProcRight(q)'
  BY Frame DEF IInv, OthersSame
<1> QED
  BY <1>1 DEF IInv, TypeOK

\* At these calls a goroutine has promised nothing yet, or is done.
Free == {"idle", "miss", "fail", "outOfBounds", "fetchHead"}

LEMMA FreeRight ==
    ASSUME NEW p \in Proc, pc'[p] \in Free
    PROVE  ProcRight(p)'
BY DEF Free, ProcRight, GetRight, PutRight, ReadRight, HitRight, GetPc, PutPc

\* Goto moves p and keeps its locals, or drops them when p is done.
LEMMA GotoFacts ==
    ASSUME TypeLocals, NEW p \in Proc, NEW l, Goto(p, l),
           p \in Worker => l \in WorkerPc, p \in Reader => l \in ReaderPc
    PROVE  /\ TypeLocals' /\ OthersSame(p) /\ pc'[p] = l
           /\ l # "idle" => /\ job'[p] = job[p] /\ ent'[p] = ent[p]
                            /\ part'[p] = part[p] /\ body'[p] = body[p]
<1>1. l \in WorkerPc \cup ReaderPc
  BY DEF Proc
<1>2. CASE l = "idle"
  BY <1>1, <1>2, IdleTyped DEF TypeLocals, Goto, OthersSame, SameLocals, Parts, Proc
<1>3. CASE l # "idle"
  BY <1>1, <1>3 DEF TypeLocals, Goto, OthersSame, SameLocals, Proc
<1> QED
  BY <1>2, <1>3
---------------------------------------------------------------------------
(***************************************************************************)
(* BlobStore.Get and what its callers do with the body.                    *)
(***************************************************************************)

\* The key a goroutine inside Get or Put works on, and its chunk.
LEMMA KeyFacts ==
    ASSUME UniformConfig, TailsFit, IInv, NEW p \in Proc,
           \/ pc[p] \in GetPc
           \/ p \in Worker /\ pc[p] \in PutPc
    PROVE  /\ getKey(p) \in Key
           /\ EntryRight(ent[p]) /\ ent[p] \in Entry
           /\ Blob(getKey(p)) \in Seq(Byte)
           /\ job[p] \in Job /\ part[p] \in Parts
<1>1. job[p] \in Job /\ part[p] \in Parts /\ ent[p] \in Entry
  BY DEF IInv, TypeOK, TypeLocals
<1>2. ProcRight(p)
  BY DEF IInv
<1>3. EntryRight(ent[p]) /\ (part[p] = "tail" => HasTail(ent[p].url))
  BY <1>2 DEF ProcRight, GetRight, PutRight, Kept, EntryRight
<1>4. getKey(p) \in Key
  BY <1>1 DEF getKey, blobKey, Key, Job, Entry, Parts
<1>5. Blob(getKey(p)) \in Seq(Byte)
  BY <1>1, <1>3, Sizes, BlobFacts DEF getKey, Job, Entry
<1> QED
  BY <1>1, <1>3, <1>4, <1>5

\* With a prefix of the right chunk, a reader answers with the right bytes or
\* runs out of bounds, and Prewarm's check goes on to the tail or a fetch.
LEMMA GotRight ==
    ASSUME UniformConfig, TailsFit, IInv, NEW p \in Proc, pc[p] \in GetPc,
           NEW b \in Seq(Byte), IsPrefix(b, Blob(getKey(p))), Got(p, b), Grows
    PROVE  TypeLocals' /\ OthersSame(p) /\ ProcRight(p)'
<1>1. ProcRight(p) /\ TypeLocals
  BY DEF IInv, TypeOK
<1>2. CASE p \in Worker
  <2>1. Checked(p) /\ p \notin Reader
    BY <1>2, ProcAssumption DEF Got
  <2>2. CASE afterCheck(p) = "tailCheck"
    <3>1. /\ pc' = [pc EXCEPT ![p] = "getLocal"]
          /\ part' = [part EXCEPT ![p] = "tail"]
          /\ body' = [body EXCEPT ![p] = << >>]
          /\ UNCHANGED <<job, ent>>
      BY <2>1, <2>2 DEF Checked
    <3>2. TypeLocals' /\ OthersSame(p)
      BY <1>1, <1>2, <2>1, <3>1, IdleTyped
         DEF TypeLocals, OthersSame, SameLocals, WorkerPc, Parts, Proc
    <3>3. ent[p].hasTail
      BY <2>2 DEF afterCheck, tailRecorded
    <3>4. Kept(job[p].ep, ent[p])'
      BY <1>1, <3>1 DEF ProcRight, GetRight, Kept, InStore, Grows
    <3>5. pc'[p] = "getLocal"
      BY <1>1, <3>1 DEF TypeLocals
    <3>6. GetRight(p)'
      BY <3>1, <3>3, <3>4, <3>5 DEF GetRight
    <3>7. PutRight(p)'
      BY <3>5 DEF PutRight, PutPc
    <3> QED
      BY <2>1, <3>2, <3>6, <3>7 DEF ProcRight
  <2>3. CASE afterCheck(p) = "fetchHead"
    <3>1. /\ pc' = [pc EXCEPT ![p] = "fetchHead"]
          /\ body' = [body EXCEPT ![p] = << >>]
          /\ UNCHANGED <<job, ent, part>>
      BY <2>1, <2>3 DEF Checked
    <3>2. TypeLocals' /\ OthersSame(p) /\ pc'[p] = "fetchHead"
      BY <1>1, <1>2, <2>1, <3>1, IdleTyped
         DEF TypeLocals, OthersSame, SameLocals, WorkerPc, Proc
    <3> QED
      BY <3>2, FreeRight DEF Free
  <2>4. CASE afterCheck(p) = "idle"
    <3>1. Goto(p, "idle")
      BY <2>1, <2>4 DEF Checked
    <3>2. TypeLocals' /\ OthersSame(p) /\ pc'[p] = "idle"
      BY <1>1, <3>1, GotoFacts DEF WorkerPc, ReaderPc
    <3> QED
      BY <3>2, FreeRight DEF Free
  <2> QED
    BY <2>2, <2>3, <2>4 DEF afterCheck
<1>3. CASE p \notin Worker
  <2> DEFINE d == Decide(ent[p], job[p].hdr)
  <2>1. p \in Reader /\ Answered(p, b)
    BY <1>3 DEF Got, Proc
  <2>2. /\ d.part = part[p] /\ part[p] \in Parts
        /\ SourceKey[ent[p].url] = SourceKey[job[p].url]
        /\ job[p] \in Job /\ ent[p] \in Entry /\ EntryRight(ent[p])
    BY <1>1, <2>1, KeyFacts DEF ProcRight, ReadRight
  <2>3. CASE InBounds(b, d)
    <3>1. /\ pc' = [pc EXCEPT ![p] = "hit"]
          /\ body' = [body EXCEPT ![p] = buildCachedPartialResponse(b, d)]
          /\ UNCHANGED <<job, ent, part>>
      BY <2>1, <2>3 DEF Answered
    <3>2. d.part # "none" /\ job[p].ep \in Episode
          /\ job[p].hdr \in Header \cup {NoHeader}
      BY <2>2 DEF Parts, Job
    <3>3. IsPrefix(b, Blob(blobKey(job[p].ep, ent[p].url, d.part)))
      BY <2>2 DEF getKey
    <3>4. /\ buildCachedPartialResponse(b, d) \in Seq(Byte)
          /\ RightBytes(SourceKey[ent[p].url], job[p].hdr,
                        buildCachedPartialResponse(b, d))
      BY <2>2, <2>3, <3>2, <3>3, Sizes, SliceRight
    <3> HIDE DEF d
    <3>5. TypeLocals' /\ OthersSame(p) /\ pc'[p] = "hit"
          /\ body'[p] = buildCachedPartialResponse(b, d)
      BY <1>1, <1>3, <2>1, <3>1, <3>4
         DEF TypeLocals, OthersSame, SameLocals, ReaderPc, Proc
    <3>6. HitRight(p)'
      BY <2>2, <3>1, <3>4, <3>5 DEF HitRight
    <3> QED
      BY <1>3, <3>5, <3>6 DEF ProcRight, GetRight, ReadRight, GetPc
  <2>4. CASE ~InBounds(b, d)
    <3>1. /\ pc' = [pc EXCEPT ![p] = "outOfBounds"]
          /\ body' = [body EXCEPT ![p] = << >>]
          /\ UNCHANGED <<job, ent, part>>
      BY <2>1, <2>4 DEF Answered
    <3>2. TypeLocals' /\ OthersSame(p) /\ pc'[p] = "outOfBounds"
      BY <1>1, <1>3, <2>1, <3>1, IdleTyped
         DEF TypeLocals, OthersSame, SameLocals, ReaderPc, Proc
    <3> QED
      BY <3>2, FreeRight DEF Free
  <2> QED
    BY <2>3, <2>4
<1> QED
  BY <1>2, <1>3

\* An error of Get sends Prewarm to its fetch and a reader to upstream.
LEMMA GetFailedRight ==
    ASSUME IInv, NEW p \in Proc, GetFailed(p)
    PROVE  TypeLocals' /\ OthersSame(p) /\ ProcRight(p)'
<1> DEFINE l == IF p \in Worker THEN "fetchHead" ELSE "fail"
<1>1. /\ TypeLocals /\ Goto(p, l)
      /\ (p \in Worker => l \in WorkerPc) /\ (p \in Reader => l \in ReaderPc)
  BY ProcAssumption DEF IInv, TypeOK, GetFailed, WorkerPc, ReaderPc
<1>2. l \in Free
  BY DEF Free
<1> HIDE DEF l
<1>3. TypeLocals' /\ OthersSame(p) /\ pc'[p] = l
  BY <1>1, GotoFacts
<1> QED
  BY <1>2, <1>3, FreeRight
---------------------------------------------------------------------------
(***************************************************************************)
(* What the calls do to the stores.                                        *)
(***************************************************************************)

\* A call that touches no store keeps the stores right.
LEMMA StayRight ==
    ASSUME IInv, UNCHANGED <<meta, local, remote>>
    PROVE  TypeStores' /\ StoresRight' /\ Grows
<1>1. TypeStores /\ StoresRight
  BY DEF IInv, TypeOK
<1>2. Grows
  BY DEF Grows
<1>3. TypeStores'
  BY <1>1 DEF TypeStores
<1>4. StoresRight'
  BY <1>1 DEF StoresRight, Kept, InStore
<1> QED
  BY <1>2, <1>3, <1>4

\* A local file that becomes another prefix of its chunk.
LEMMA FileRight ==
    ASSUME IInv, NEW k \in Key, NEW b \in Seq(Byte), IsPrefix(b, Blob(k)),
           local' = Store(local, k, b), UNCHANGED <<meta, remote>>
    PROVE  TypeStores' /\ StoresRight' /\ Grows /\ k \in DOMAIN local'
<1>1. TypeStores /\ StoresRight
  BY DEF IInv, TypeOK
<1>2. /\ DOMAIN local' = DOMAIN local \cup {k}
      /\ \A x \in DOMAIN local' : local'[x] = IF x = k THEN b ELSE local[x]
      /\ local' = [x \in DOMAIN local' |-> local'[x]]
  BY DEF Store
<1>3. Grows
  BY <1>2 DEF Grows
<1>4. TypeStores'
  <2>1. \A x \in DOMAIN local' : local'[x] \in Seq(Byte)
    BY <1>1, <1>2 DEF TypeStores
  <2>2. local' \in [DOMAIN local' -> Seq(Byte)]
    BY <1>2, <2>1
  <2>3. DOMAIN local' \subseteq Key
    BY <1>1, <1>2 DEF TypeStores
  <2> QED
    BY <1>1, <2>2, <2>3 DEF TypeStores
<1>5. StoresRight'
  <2>1. \A x \in DOMAIN local' : IsPrefix(local'[x], Blob(x))
    BY <1>1, <1>2 DEF StoresRight
  <2> QED
    BY <1>1, <2>1 DEF StoresRight, Kept, InStore
<1> QED
  BY <1>2, <1>3, <1>4, <1>5

\* O_TRUNC leaves the empty prefix.
LEMMA OpenRight ==
    ASSUME IInv, NEW k \in Key, Blob(k) \in Seq(Byte),
           OpenLocal(k), UNCHANGED <<meta, remote>>
    PROVE  TypeStores' /\ StoresRight' /\ Grows /\ k \in DOMAIN local'
<1>1. << >> \in Seq(Byte) /\ IsPrefix(<< >>, Blob(k))
  BY DEF IsPrefix
<1> QED
  BY <1>1, FileRight DEF OpenLocal

\* A write of a prefix over a prefix, by whichever goroutine.
LEMMA WriteRight ==
    ASSUME IInv, NEW k \in Key, Blob(k) \in Seq(Byte), k \in DOMAIN local,
           NEW b \in Seq(Byte), IsPrefix(b, Blob(k)),
           WriteLocal(k, b), UNCHANGED <<meta, remote>>
    PROVE  TypeStores' /\ StoresRight' /\ Grows /\ k \in DOMAIN local'
<1>1. local[k] \in Seq(Byte) /\ IsPrefix(local[k], Blob(k))
  BY DEF IInv, TypeOK, TypeStores, StoresRight
<1>2. Overlay(b, local[k]) \in Seq(Byte) /\ IsPrefix(Overlay(b, local[k]), Blob(k))
  BY <1>1, OverlayFacts
<1>3. local' = Store(local, k, Overlay(b, local[k]))
  BY DEF WriteLocal
<1> QED
  BY <1>2, <1>3, FileRight

\* A chunk is a prefix of itself.
LEMMA PrefixSelf ==
    ASSUME NEW c \in Seq(Byte)
    PROVE  IsPrefix(c, c)
BY DEF IsPrefix
---------------------------------------------------------------------------
(***************************************************************************)
(* One lemma per action.                                                   *)
(***************************************************************************)

\* BlobStore.Get finds the local file, or goes to the object store.
LEMMA GetLocalRight ==
    ASSUME UniformConfig, TailsFit, IInv, NEW p \in Proc, GetLocal(p)
    PROVE  IInv'
<1>1. /\ pc[p] = "getLocal" /\ pc[p] \in GetPc
      /\ UNCHANGED <<meta, local, remote>>
  BY DEF GetLocal, Stay, GetPc
<1>2. TypeStores' /\ StoresRight' /\ Grows
  BY <1>1, StayRight
<1>3. TypeLocals' /\ OthersSame(p) /\ ProcRight(p)'
  <2>1. CASE getKey(p) \in DOMAIN local
    <3>1. Got(p, local[getKey(p)])
      BY <2>1 DEF GetLocal
    <3>2. local[getKey(p)] \in Seq(Byte) /\ IsPrefix(local[getKey(p)], Blob(getKey(p)))
      BY <2>1 DEF IInv, TypeOK, TypeStores, StoresRight
    <3> QED
      BY <1>1, <1>2, <3>1, <3>2, GotRight
  <2>2. CASE getKey(p) \notin DOMAIN local /\ Tiered
    <3>1. Goto(p, "getRemote")
      BY <2>2 DEF GetLocal
    <3>2. TypeLocals /\ "getRemote" \in WorkerPc /\ "getRemote" \in ReaderPc
      BY DEF IInv, TypeOK, WorkerPc, ReaderPc
    <3>3. /\ TypeLocals' /\ OthersSame(p) /\ pc'[p] = "getRemote"
          /\ job'[p] = job[p] /\ ent'[p] = ent[p]
          /\ part'[p] = part[p] /\ body'[p] = body[p]
      BY <3>1, <3>2, GotoFacts
    <3>4. ProcRight(p) /\ remote' = remote
      BY <1>1 DEF IInv
    <3> QED
      BY <1>1, <3>3, <3>4
         DEF ProcRight, GetRight, PutRight, ReadRight, HitRight, GetPc, PutPc,
             Kept, InStore
  <2>3. CASE getKey(p) \notin DOMAIN local /\ ~Tiered
    <3>1. GetFailed(p)
      BY <2>3 DEF GetLocal
    <3> QED
      BY <3>1, GetFailedRight
  <2> QED
    BY <2>1, <2>2, <2>3
<1> QED
  BY <1>2, <1>3, Move

\* TieredStore.Get: the object is the whole chunk.
LEMMA GetRemoteRight ==
    ASSUME UniformConfig, TailsFit, IInv, NEW p \in Proc, GetRemote(p)
    PROVE  IInv'
<1>1. /\ pc[p] = "getRemote" /\ pc[p] \in GetPc
      /\ UNCHANGED <<meta, local, remote>>
  BY DEF GetRemote, Stay, GetPc
<1>2. TypeStores' /\ StoresRight' /\ Grows
  BY <1>1, StayRight
<1>3. CASE GetFailed(p)
  BY <1>2, <1>3, GetFailedRight, Move
<1>4. CASE ~GetFailed(p)
  <2>1. /\ getKey(p) \in DOMAIN remote
        /\ body' = [body EXCEPT ![p] = remote[getKey(p)]]
        /\ pc' = [pc EXCEPT ![p] = "fillOpen"]
        /\ UNCHANGED <<job, ent, part>>
    BY <1>4 DEF GetRemote
  <2>2. remote[getKey(p)] = Blob(getKey(p)) /\ remote[getKey(p)] \in Seq(Byte)
    BY <2>1 DEF IInv, TypeOK, TypeStores, StoresRight
  <2>3. TypeLocals /\ ProcRight(p)
    BY DEF IInv, TypeOK
  <2>4. /\ TypeLocals' /\ OthersSame(p) /\ pc'[p] = "fillOpen"
        /\ body'[p] = remote[getKey(p)]
    BY <2>1, <2>2, <2>3
       DEF TypeLocals, OthersSame, SameLocals, WorkerPc, ReaderPc, Proc
  <2>5. getKey(p)' = getKey(p)
    BY <2>1 DEF getKey
  <2>6. ProcRight(p)'
    BY <1>1, <2>1, <2>2, <2>3, <2>4, <2>5
       DEF ProcRight, GetRight, PutRight, ReadRight, HitRight, GetPc, PutPc,
           Kept, InStore
  <2> QED
    BY <1>2, <2>4, <2>6, Move
<1> QED
  BY <1>3, <1>4

\* The write-back of a restored chunk starts, or fails silently.
LEMMA FillOpenRight ==
    ASSUME UniformConfig, TailsFit, IInv, NEW p \in Proc, FillOpen(p)
    PROVE  IInv'
<1>1. pc[p] = "fillOpen" /\ pc[p] \in GetPc /\ UNCHANGED <<meta, remote>>
  BY DEF FillOpen, GetPc
<1>2. /\ getKey(p) \in Key /\ Blob(getKey(p)) \in Seq(Byte)
      /\ ProcRight(p) /\ TypeLocals
  BY <1>1, KeyFacts DEF IInv, TypeOK
<1>3. body[p] = Blob(getKey(p))
  BY <1>1, <1>2 DEF ProcRight, GetRight
<1>4. CASE OpenLocal(getKey(p)) /\ Goto(p, "fillWrite")
  <2>1. TypeStores' /\ StoresRight' /\ Grows /\ getKey(p) \in DOMAIN local'
    BY <1>1, <1>2, <1>4, OpenRight
  <2>2. "fillWrite" \in WorkerPc /\ "fillWrite" \in ReaderPc
    BY DEF WorkerPc, ReaderPc
  <2>3. /\ TypeLocals' /\ OthersSame(p) /\ pc'[p] = "fillWrite"
        /\ job'[p] = job[p] /\ ent'[p] = ent[p]
        /\ part'[p] = part[p] /\ body'[p] = body[p]
    BY <1>2, <1>4, <2>2, GotoFacts
  <2>4. getKey(p)' = getKey(p)
    BY <2>3 DEF getKey
  <2>5. ProcRight(p)'
    BY <1>1, <1>2, <1>3, <2>1, <2>3, <2>4
       DEF ProcRight, GetRight, PutRight, ReadRight, HitRight, GetPc, PutPc,
           Kept, InStore
  <2> QED
    BY <2>1, <2>3, <2>5, Move
<1>5. CASE UNCHANGED local /\ Got(p, body[p])
  <2>1. TypeStores' /\ StoresRight' /\ Grows
    BY <1>1, <1>5, StayRight
  <2>2. body[p] \in Seq(Byte) /\ IsPrefix(body[p], Blob(getKey(p)))
    BY <1>2, <1>3, PrefixSelf
  <2>3. TypeLocals' /\ OthersSame(p) /\ ProcRight(p)'
    BY <1>1, <1>5, <2>1, <2>2, GotRight
  <2> QED
    BY <2>1, <2>3, Move
<1> QED
  BY <1>4, <1>5 DEF FillOpen

\* The write-back ends; the caller gets the object's bytes either way.
LEMMA FillWriteRight ==
    ASSUME UniformConfig, TailsFit, IInv, NEW p \in Proc, FillWrite(p)
    PROVE  IInv'
<1>1. /\ pc[p] = "fillWrite" /\ pc[p] \in GetPc /\ UNCHANGED <<meta, remote>>
      /\ Got(p, body[p])
  BY DEF FillWrite, GetPc
<1>2. getKey(p) \in Key /\ Blob(getKey(p)) \in Seq(Byte) /\ ProcRight(p)
  BY <1>1, KeyFacts DEF IInv
<1>3. body[p] = Blob(getKey(p)) /\ getKey(p) \in DOMAIN local
  BY <1>1, <1>2 DEF ProcRight, GetRight
<1>4. body[p] \in Seq(Byte) /\ IsPrefix(body[p], Blob(getKey(p)))
  BY <1>2, <1>3, PrefixSelf
<1>5. TypeStores' /\ StoresRight' /\ Grows
  <2>1. CASE WriteLocal(getKey(p), body[p])
    BY <1>1, <1>2, <1>3, <1>4, <2>1, WriteRight
  <2>2. CASE UNCHANGED local
    BY <1>1, <2>2, StayRight
  <2> QED
    BY <2>1, <2>2 DEF FillWrite
<1>6. TypeLocals' /\ OthersSame(p) /\ ProcRight(p)'
  BY <1>1, <1>4, <1>5, GotRight
<1> QED
  BY <1>5, <1>6, Move

\* Prewarm's head fetch starts the put of the key's head chunk.
LEMMA FetchHeadRight ==
    ASSUME UniformConfig, TailsFit, IInv, NEW w \in Worker, FetchHead(w)
    PROVE  IInv'
<1> DEFINE u == job[w].url
           b == FetchBody(u, 0, max(0, HeadBytes[w] - 1))
           x == [url |-> u, total |-> Length[SourceKey[u]],
                 headBytes |-> Len(b), hasTail |-> FALSE, tailBytes |-> 0]
<1>1. w \in Proc /\ w \notin Reader /\ TypeLocals /\ UNCHANGED <<meta, local, remote>>
  BY ProcAssumption DEF Proc, IInv, TypeOK, FetchHead, Stay
<1>2. TypeStores' /\ StoresRight' /\ Grows
  BY <1>1, StayRight
<1>3. u \in Url
  BY <1>1 DEF TypeLocals, Job
<1>4. b = HeadBody(u)
  BY Sizes DEF HeadBody
<1>5. b \in Seq(Byte) /\ Length[SourceKey[u]] = FileLen(u) /\ FileLen(u) \in Nat
      /\ Len(b) \in Nat
  BY <1>3, <1>4, Sizes, HeadFacts DEF FileLen
<1>6. x \in Entry /\ EntryRight(x)
  BY <1>3, <1>4, <1>5 DEF Entry, EntryRight
<1>7. CASE Goto(w, "idle")
  <2>1. TypeLocals' /\ OthersSame(w) /\ pc'[w] = "idle"
    BY <1>1, <1>7, GotoFacts DEF WorkerPc
  <2> QED
    BY <1>1, <1>2, <2>1, FreeRight, Move DEF Free
<1>8. CASE /\ StartPut(w, "head", b)
           /\ ent' = [ent EXCEPT ![w] = x]
  <2> HIDE DEF b, x
  <2>1. /\ body' = [body EXCEPT ![w] = b] /\ part' = [part EXCEPT ![w] = "head"]
        /\ pc' = [pc EXCEPT ![w] = IF Tiered THEN "putRemote" ELSE "putOpen"]
        /\ UNCHANGED job
    BY <1>8 DEF StartPut
  <2>2. TypeLocals' /\ OthersSame(w)
    BY <1>1, <1>5, <1>6, <1>8, <2>1
       DEF TypeLocals, OthersSame, SameLocals, WorkerPc, Parts, Proc
  <2>3. /\ body'[w] = b /\ part'[w] = "head" /\ ent'[w] = x /\ job'[w] = job[w]
        /\ pc'[w] = IF Tiered THEN "putRemote" ELSE "putOpen"
    BY <1>1, <1>8, <2>1 DEF TypeLocals
  <2>4. x.url = u /\ ~x.hasTail
    BY DEF x
  <2>5. Blob(getKey(w))' = b
    BY <1>4, <2>3, <2>4 DEF Blob, getKey, blobKey
  <2>6. PutRight(w)'
    BY <1>6, <2>3, <2>4, <2>5 DEF PutRight, PutPc, InStore
  <2>7. GetRight(w)'
    BY <2>3 DEF GetRight, GetPc
  <2> QED
    BY <1>1, <1>2, <2>2, <2>6, <2>7, Move DEF ProcRight
<1> QED
  BY <1>7, <1>8 DEF FetchHead

\* A worker reaches its upsert with a right and backed entry.
LEMMA AtUpsert ==
    ASSUME NEW w \in Worker, pc'[w] = "upsert", EntryRight(ent'[w]),
           ent'[w].url = job'[w].url, Kept(job[w].ep, ent[w])'
    PROVE  ProcRight(w)'
<1>1. w \notin Reader
  BY ProcAssumption
<1> QED
  BY <1>1 DEF ProcRight, GetRight, PutRight, GetPc, PutPc

\* What a worker inside Put has established.
LEMMA PutFacts ==
    ASSUME UniformConfig, TailsFit, IInv, NEW w \in Worker, pc[w] \in PutPc
    PROVE  /\ w \in Proc /\ w \notin Reader /\ TypeLocals
           /\ getKey(w) \in Key /\ getKey(w) = blobKey(job[w].ep, ent[w].url, part[w])
           /\ Blob(getKey(w)) \in Seq(Byte) /\ body[w] = Blob(getKey(w))
           /\ part[w] \in Parts /\ ent[w] \in Entry /\ job[w] \in Job
           /\ EntryRight(ent[w]) /\ ent[w].url = job[w].url /\ ~ent[w].hasTail
           /\ part[w] = "tail" => /\ HasTail(ent[w].url)
                                  /\ InStore(job[w].ep, ent[w].url, "head")
           /\ pc[w] # "putRemote" => InStore(job[w].ep, ent[w].url, part[w])
           /\ pc[w] = "putWrite" => getKey(w) \in DOMAIN local
<1>1. w \in Proc /\ w \notin Reader
  BY ProcAssumption DEF Proc
<1>2. PutRight(w) /\ TypeLocals
  BY <1>1 DEF IInv, ProcRight, TypeOK
<1>3. pc[w] # "upsert"
  BY DEF PutPc
<1> QED
  BY <1>1, <1>2, <1>3, KeyFacts DEF PutRight, getKey

\* A failed put gives up the head, or only the tail.
LEMMA AbandonRight ==
    ASSUME UniformConfig, TailsFit, IInv, NEW w \in Worker,
           pc[w] \in PutPc, Abandon(w), Grows
    PROVE  TypeLocals' /\ OthersSame(w) /\ ProcRight(w)'
<1>1. CASE part[w] = "head"
  <2>1. TypeLocals' /\ OthersSame(w) /\ pc'[w] = "idle"
    BY <1>1, PutFacts, GotoFacts DEF Abandon, WorkerPc
  <2> QED
    BY <2>1, PutFacts, FreeRight DEF Free
<1>2. CASE part[w] # "head"
  <2>1. /\ TypeLocals' /\ OthersSame(w) /\ pc'[w] = "upsert"
        /\ job'[w] = job[w] /\ ent'[w] = ent[w]
    BY <1>2, PutFacts, GotoFacts DEF Abandon, WorkerPc
  <2>2. /\ EntryRight(ent[w]) /\ ent[w].url = job[w].url /\ ~ent[w].hasTail
        /\ InStore(job[w].ep, ent[w].url, "head")
    BY <1>2, PutFacts DEF Parts
  <2>3. Kept(job[w].ep, ent[w])'
    BY <2>1, <2>2 DEF Kept, InStore, Grows
  <2> QED
    BY <2>1, <2>2, <2>3, AtUpsert
<1> QED
  BY <1>1, <1>2

\* A put that returned without error: on to the tail, or to the upsert.
LEMMA PutDoneRight ==
    ASSUME UniformConfig, TailsFit, IInv, NEW w \in Worker,
           pc[w] \in {"putOpen", "putWrite"}, PutDone(w), Grows
    PROVE  TypeLocals' /\ OthersSame(w) /\ ProcRight(w)'
<1>1. /\ pc[w] \in PutPc /\ pc[w] # "putRemote"
  BY DEF PutPc
<1>2. /\ w \in Proc /\ w \notin Reader /\ TypeLocals
      /\ body[w] = Blob(getKey(w)) /\ Blob(getKey(w)) \in Seq(Byte)
      /\ getKey(w) = blobKey(job[w].ep, ent[w].url, part[w])
      /\ EntryRight(ent[w]) /\ ent[w].url = job[w].url /\ ~ent[w].hasTail
      /\ InStore(job[w].ep, ent[w].url, part[w])
      /\ part[w] \in Parts /\ ent[w] \in Entry
      /\ part[w] = "tail" => /\ HasTail(ent[w].url)
                             /\ InStore(job[w].ep, ent[w].url, "head")
  BY <1>1, PutFacts
<1>3. \A e, y, s : InStore(e, y, s) => InStore(e, y, s)'
  BY DEF InStore, Grows
<1>4. CASE part[w] = "head"
  <2> DEFINE c == wantsTail(ent[w].total, ent[w].headBytes, TailBytes[w])
             l == IF c THEN "fetchTail" ELSE "upsert"
  <2>1. Goto(w, l) /\ l \in WorkerPc /\ l # "idle"
    BY <1>4 DEF PutDone, WorkerPc
  <2>2. c => HasTail(ent[w].url)
    BY <1>2, Sizes DEF HasTail, EntryRight
  <2> HIDE DEF c
  <2>3. /\ TypeLocals' /\ OthersSame(w) /\ pc'[w] = l
        /\ job'[w] = job[w] /\ ent'[w] = ent[w]
    BY <1>2, <2>1, GotoFacts
  <2>4. CASE c
    <3>1. pc'[w] = "fetchTail"
      BY <2>3, <2>4
    <3>2. PutRight(w)'
      BY <1>2, <1>3, <1>4, <2>2, <2>3, <2>4, <3>1 DEF PutRight, PutPc
    <3> QED
      BY <1>2, <2>3, <3>1, <3>2 DEF ProcRight, GetRight, GetPc
  <2>5. CASE ~c
    <3>1. Kept(job[w].ep, ent[w])'
      BY <1>2, <1>3, <1>4, <2>3 DEF Kept
    <3> QED
      BY <1>2, <2>3, <2>5, <3>1, AtUpsert
  <2> QED
    BY <2>4, <2>5
<1>5. CASE part[w] = "tail"
  <2>1. /\ ent' = [ent EXCEPT ![w].hasTail = TRUE, ![w].tailBytes = Len(body[w])]
        /\ pc' = [pc EXCEPT ![w] = "upsert"]
        /\ UNCHANGED <<job, part, body>>
    BY <1>5 DEF PutDone
  <2>2. Len(body[w]) \in Nat /\ body[w] = TailBody(ent[w].url)
    BY <1>2, <1>5 DEF Blob, blobKey
  <2> DEFINE x == [ent[w] EXCEPT !.hasTail = TRUE, !.tailBytes = Len(body[w])]
  <2>3. /\ x \in Entry /\ x.url = ent[w].url /\ x.total = ent[w].total
        /\ x.headBytes = ent[w].headBytes /\ x.hasTail
        /\ x.tailBytes = Len(body[w])
    BY <1>2, <2>2 DEF Entry
  <2>4. ent' = [ent EXCEPT ![w] = x]
    BY <1>2, <2>1 DEF TypeLocals
  <2> HIDE DEF x
  <2>5. TypeLocals' /\ OthersSame(w) /\ pc'[w] = "upsert" /\ ent'[w] = x
        /\ job'[w] = job[w]
    BY <1>2, <2>1, <2>3, <2>4
       DEF TypeLocals, OthersSame, SameLocals, WorkerPc, Proc
  <2>6. EntryRight(x)
    BY <1>2, <1>5, <2>2, <2>3 DEF EntryRight
  <2>7. Kept(job[w].ep, ent[w])'
    BY <1>2, <1>3, <1>5, <2>3, <2>5, <2>6 DEF Kept
  <2> QED
    BY <1>2, <2>3, <2>5, <2>6, <2>7, AtUpsert
<1> QED
  BY <1>2, <1>4, <1>5 DEF Parts

\* The object put: the object is the key's chunk, or it stays as it was.
LEMMA PutRemoteRight ==
    ASSUME UniformConfig, TailsFit, IInv, NEW w \in Worker, PutRemote(w)
    PROVE  IInv'
<1>1. pc[w] = "putRemote" /\ pc[w] \in PutPc /\ UNCHANGED <<meta, local>>
  BY DEF PutRemote, PutPc
<1>2. /\ w \in Proc /\ w \notin Reader /\ TypeLocals
      /\ getKey(w) \in Key /\ getKey(w) = blobKey(job[w].ep, ent[w].url, part[w])
      /\ body[w] = Blob(getKey(w)) /\ Blob(getKey(w)) \in Seq(Byte)
      /\ EntryRight(ent[w]) /\ ent[w].url = job[w].url /\ ~ent[w].hasTail
      /\ part[w] = "tail" => /\ HasTail(ent[w].url)
                             /\ InStore(job[w].ep, ent[w].url, "head")
  BY <1>1, PutFacts
<1>3. CASE UNCHANGED remote /\ Abandon(w)
  <2>1. TypeStores' /\ StoresRight' /\ Grows
    BY <1>1, <1>3, StayRight
  <2> QED
    BY <1>1, <1>2, <1>3, <2>1, AbandonRight, Move
<1>5. ASSUME remote' = Store(remote, getKey(w), body[w])
      PROVE  /\ DOMAIN remote' = DOMAIN remote \cup {getKey(w)}
             /\ TypeStores' /\ StoresRight' /\ Grows
  <2>1. /\ DOMAIN remote' = DOMAIN remote \cup {getKey(w)}
        /\ \A x \in DOMAIN remote' :
               remote'[x] = IF x = getKey(w) THEN body[w] ELSE remote[x]
        /\ remote' = [x \in DOMAIN remote' |-> remote'[x]]
    BY <1>5 DEF Store
  <2>2. Grows
    BY <1>1, <2>1 DEF Grows
  <2>3. TypeStores'
    <3>1. TypeStores
      BY DEF IInv, TypeOK
    <3>2. \A x \in DOMAIN remote' : remote'[x] \in Seq(Byte)
      BY <1>2, <2>1, <3>1 DEF TypeStores
    <3>3. remote' \in [DOMAIN remote' -> Seq(Byte)] /\ DOMAIN remote' \subseteq Key
      BY <1>2, <2>1, <3>1, <3>2 DEF TypeStores
    <3> QED
      BY <1>1, <3>1, <3>3 DEF TypeStores
  <2>4. StoresRight'
    <3>1. StoresRight
      BY DEF IInv
    <3>2. \A x \in DOMAIN remote' : remote'[x] = Blob(x)
      BY <1>2, <2>1, <3>1 DEF StoresRight
    <3>3. \A e \in DOMAIN meta : Kept(e, meta[e])'
      BY <1>1, <2>2, <3>1 DEF StoresRight, Kept, InStore, Grows
    <3> QED
      BY <1>1, <3>1, <3>2, <3>3 DEF StoresRight
  <2> QED
    BY <2>1, <2>2, <2>3, <2>4
<1>4. CASE remote' = Store(remote, getKey(w), body[w]) /\ Goto(w, "putOpen")
  <2>1. /\ DOMAIN remote' = DOMAIN remote \cup {getKey(w)}
        /\ TypeStores' /\ StoresRight' /\ Grows
    BY <1>4, <1>5
  <2>5. /\ TypeLocals' /\ OthersSame(w) /\ pc'[w] = "putOpen"
        /\ job'[w] = job[w] /\ ent'[w] = ent[w]
        /\ part'[w] = part[w] /\ body'[w] = body[w]
    BY <1>2, <1>4, GotoFacts DEF WorkerPc
  <2>6. getKey(w)' = getKey(w) /\ InStore(job[w].ep, ent[w].url, part[w])'
    BY <1>2, <2>1, <2>5 DEF getKey, InStore
  <2>7. InStore(job[w].ep, ent[w].url, "head") => InStore(job[w].ep, ent[w].url, "head")'
    BY <2>1, <2>5 DEF InStore, Grows
  <2>8. PutRight(w)'
    BY <1>2, <2>5, <2>6, <2>7 DEF PutRight, PutPc
  <2>9. ProcRight(w)'
    BY <1>2, <2>5, <2>8 DEF ProcRight, GetRight, GetPc
  <2> QED
    BY <1>2, <2>1, <2>5, <2>9, Move
<1>6. CASE remote' = Store(remote, getKey(w), body[w]) /\ Abandon(w)
  BY <1>1, <1>2, <1>5, <1>6, AbandonRight, Move
<1> QED
  BY <1>3, <1>4, <1>6 DEF PutRemote

\* The local put opens its file, or fails: ignored behind an object store.
LEMMA PutOpenRight ==
    ASSUME UniformConfig, TailsFit, IInv, NEW w \in Worker, PutOpen(w)
    PROVE  IInv'
<1>1. pc[w] = "putOpen" /\ pc[w] \in PutPc /\ UNCHANGED <<meta, remote>>
  BY DEF PutOpen, PutPc
<1>2. /\ w \in Proc /\ w \notin Reader /\ TypeLocals
      /\ getKey(w) \in Key /\ Blob(getKey(w)) \in Seq(Byte)
  BY <1>1, PutFacts
<1>3. CASE OpenLocal(getKey(w)) /\ Goto(w, "putWrite")
  <2>1. TypeStores' /\ StoresRight' /\ Grows /\ getKey(w) \in DOMAIN local'
    BY <1>1, <1>2, <1>3, OpenRight
  <2>2. /\ TypeLocals' /\ OthersSame(w) /\ pc'[w] = "putWrite"
        /\ job'[w] = job[w] /\ ent'[w] = ent[w]
        /\ part'[w] = part[w] /\ body'[w] = body[w]
    BY <1>2, <1>3, GotoFacts DEF WorkerPc
  <2>3. getKey(w)' = getKey(w)
    BY <2>2 DEF getKey
  <2>4. PutRight(w)
    BY <1>2 DEF IInv, ProcRight
  <2>5. PutRight(w)'
    BY <1>1, <2>1, <2>2, <2>3, <2>4 DEF PutRight, PutPc, InStore
  <2>6. ProcRight(w)'
    BY <1>2, <2>2, <2>5 DEF ProcRight, GetRight, GetPc
  <2> QED
    BY <1>2, <2>1, <2>2, <2>6, Move
<1>4. CASE UNCHANGED local /\ IF Tiered THEN PutDone(w) ELSE Abandon(w)
  <2>1. TypeStores' /\ StoresRight' /\ Grows
    BY <1>1, <1>4, StayRight
  <2>2. TypeLocals' /\ OthersSame(w) /\ ProcRight(w)'
    BY <1>1, <1>4, <2>1, PutDoneRight, AbandonRight
  <2> QED
    BY <1>2, <2>1, <2>2, Move
<1> QED
  BY <1>3, <1>4 DEF PutOpen

\* The local put writes its file, or fails half way.
LEMMA PutWriteRight ==
    ASSUME UniformConfig, TailsFit, IInv, NEW w \in Worker, PutWrite(w)
    PROVE  IInv'
<1>1. pc[w] = "putWrite" /\ pc[w] \in PutPc /\ UNCHANGED <<meta, remote>>
  BY DEF PutWrite, PutPc
<1>2. /\ w \in Proc /\ getKey(w) \in Key /\ Blob(getKey(w)) \in Seq(Byte)
      /\ body[w] = Blob(getKey(w)) /\ getKey(w) \in DOMAIN local
  BY <1>1, PutFacts
<1>3. CASE WriteLocal(getKey(w), body[w]) /\ PutDone(w)
  <2>1. body[w] \in Seq(Byte) /\ IsPrefix(body[w], Blob(getKey(w)))
    BY <1>2, PrefixSelf
  <2>2. TypeStores' /\ StoresRight' /\ Grows
    BY <1>1, <1>2, <1>3, <2>1, WriteRight
  <2>3. TypeLocals' /\ OthersSame(w) /\ ProcRight(w)'
    BY <1>1, <1>3, <2>2, PutDoneRight
  <2> QED
    BY <1>2, <2>2, <2>3, Move
<1>4. CASE UNCHANGED local /\ IF Tiered THEN PutDone(w) ELSE Abandon(w)
  <2>1. TypeStores' /\ StoresRight' /\ Grows
    BY <1>1, <1>4, StayRight
  <2>2. TypeLocals' /\ OthersSame(w) /\ ProcRight(w)'
    BY <1>1, <1>4, <2>1, PutDoneRight, AbandonRight
  <2> QED
    BY <1>2, <2>1, <2>2, Move
<1> QED
  BY <1>3, <1>4 DEF PutWrite

\* Prewarm's tail fetch starts the put of the key's tail chunk.
LEMMA FetchTailRight ==
    ASSUME UniformConfig, TailsFit, IInv, NEW w \in Worker, FetchTail(w)
    PROVE  IInv'
<1> DEFINE u == job[w].url
           a == prewarmTailStart(ent[w].total, TailBytes[w])
           b == FetchBody(u, a, ent[w].total - 1)
<1>1. /\ w \in Proc /\ w \notin Reader /\ TypeLocals
      /\ UNCHANGED <<meta, local, remote>> /\ pc[w] = "fetchTail"
  BY ProcAssumption DEF Proc, IInv, TypeOK, FetchTail, Stay
<1>2. TypeStores' /\ StoresRight' /\ Grows
  BY <1>1, StayRight
<1>3. /\ EntryRight(ent[w]) /\ ent[w].url = u /\ ~ent[w].hasTail
      /\ HasTail(ent[w].url) /\ InStore(job[w].ep, ent[w].url, "head")
  BY <1>1 DEF IInv, ProcRight, PutRight
<1>4. CASE Goto(w, "upsert")
  <2>1. /\ TypeLocals' /\ OthersSame(w) /\ pc'[w] = "upsert"
        /\ job'[w] = job[w] /\ ent'[w] = ent[w]
    BY <1>1, <1>4, GotoFacts DEF WorkerPc
  <2>2. Kept(job[w].ep, ent[w])'
    BY <1>1, <1>3, <2>1 DEF Kept, InStore
  <2> QED
    BY <1>1, <1>2, <1>3, <2>1, <2>2, AtUpsert, Move
<1>5. CASE StartPut(w, "tail", b) /\ UNCHANGED ent
  <2>1. u \in Url /\ ent[w].total = FileLen(u)
    BY <1>1, <1>3 DEF TypeLocals, Job, EntryRight
  <2>2. b = TailBody(u)
    BY <2>1, Sizes DEF TailBody
  <2>3. b \in Seq(Byte)
    BY <1>3, <2>1, <2>2, Sizes, TailFacts
  <2> HIDE DEF b
  <2>4. /\ body' = [body EXCEPT ![w] = b] /\ part' = [part EXCEPT ![w] = "tail"]
        /\ pc' = [pc EXCEPT ![w] = IF Tiered THEN "putRemote" ELSE "putOpen"]
        /\ UNCHANGED <<job, ent>>
    BY <1>5 DEF StartPut
  <2>5. TypeLocals' /\ OthersSame(w)
    BY <1>1, <2>3, <2>4
       DEF TypeLocals, OthersSame, SameLocals, WorkerPc, Parts, Proc
  <2>6. /\ body'[w] = b /\ part'[w] = "tail"
        /\ pc'[w] = IF Tiered THEN "putRemote" ELSE "putOpen"
    BY <1>1, <2>4 DEF TypeLocals
  <2>7. Blob(getKey(w))' = b
    BY <1>3, <2>2, <2>4, <2>6 DEF Blob, getKey, blobKey
  <2>8. PutRight(w)'
    BY <1>1, <1>3, <2>4, <2>6, <2>7 DEF PutRight, PutPc, InStore
  <2>9. GetRight(w)'
    BY <2>6 DEF GetRight, GetPc
  <2> QED
    BY <1>1, <1>2, <2>5, <2>8, <2>9, Move DEF ProcRight
<1> QED
  BY <1>4, <1>5 DEF FetchTail

\* The row is written only after its chunks.
LEMMA UpsertRight ==
    ASSUME UniformConfig, TailsFit, IInv, NEW w \in Worker,
           UpsertStartupMediaCache(w)
    PROVE  IInv'
<1>1. /\ w \in Proc /\ TypeLocals /\ TypeStores /\ StoresRight
      /\ UNCHANGED <<local, remote>> /\ pc[w] = "upsert" /\ Goto(w, "idle")
  BY DEF Proc, IInv, TypeOK, UpsertStartupMediaCache
<1>2. job[w].ep \in Episode /\ ent[w] \in Entry /\ Kept(job[w].ep, ent[w])
  BY <1>1 DEF TypeLocals, Job, IInv, ProcRight, PutRight
<1>3. TypeLocals' /\ OthersSame(w) /\ ProcRight(w)'
  <2>1. TypeLocals' /\ OthersSame(w) /\ pc'[w] = "idle"
    BY <1>1, GotoFacts DEF WorkerPc, ReaderPc
  <2> QED
    BY <1>1, <2>1, FreeRight DEF Free
<1>4. TypeStores' /\ StoresRight' /\ Grows
  <2>1. CASE UNCHANGED meta
    BY <1>1, <2>1, StayRight
  <2>2. CASE meta' = Store(meta, job[w].ep, ent[w])
    <3> DEFINE ep == job[w].ep
    <3>1. /\ DOMAIN meta' = DOMAIN meta \cup {ep}
          /\ \A x \in DOMAIN meta' : meta'[x] = IF x = ep THEN ent[w] ELSE meta[x]
          /\ meta' = [x \in DOMAIN meta' |-> meta'[x]]
      BY <2>2 DEF Store
    <3> HIDE DEF ep
    <3>2. \A x \in DOMAIN meta' : meta'[x] \in Entry
      BY <1>1, <1>2, <3>1 DEF TypeStores
    <3>3. meta' \in [DOMAIN meta' -> Entry] /\ DOMAIN meta' \subseteq Episode
      BY <1>1, <1>2, <3>1, <3>2 DEF TypeStores, ep
    <3>4. TypeStores'
      BY <1>1, <3>3 DEF TypeStores
    <3>5. \A e, x : Kept(e, x) => Kept(e, x)'
      BY <1>1 DEF Kept, InStore
    <3>6. \A e \in DOMAIN meta' : Kept(e, meta'[e])
      BY <1>1, <1>2, <3>1 DEF StoresRight, ep
    <3>7. StoresRight'
      BY <1>1, <3>5, <3>6 DEF StoresRight, Kept, InStore
    <3> QED
      BY <1>1, <3>4, <3>7 DEF Grows
  <2> QED
    BY <2>1, <2>2 DEF UpsertStartupMediaCache
<1> QED
  BY <1>1, <1>3, <1>4, Move

\* Prewarm starts from a row that is right, or from nothing.
LEMMA PrewarmRight ==
    ASSUME UniformConfig, TailsFit, IInv, NEW w \in Worker,
           NEW e \in Episode, NEW u \in Url, Prewarm(w, e, u)
    PROVE  IInv'
<1> DEFINE j == [ep |-> e, url |-> u, hdr |-> NoHeader]
<1>1. /\ w \in Proc /\ w \notin Reader /\ TypeLocals /\ TypeStores /\ StoresRight
      /\ UNCHANGED <<meta, local, remote>> /\ UNCHANGED body
      /\ part' = [part EXCEPT ![w] = "head"]
      /\ job' = [job EXCEPT ![w] = j]
  BY ProcAssumption DEF Proc, IInv, TypeOK, Prewarm, Stay
<1>2. TypeStores' /\ StoresRight' /\ Grows
  BY <1>1, StayRight
<1>3. j \in Job /\ j.ep = e
  BY DEF Job
<1> HIDE DEF j
<1>4. CASE /\ e \in DOMAIN meta
           /\ ent' = [ent EXCEPT ![w] = meta[e]]
           /\ pc' = [pc EXCEPT ![w] = "getLocal"]
  <2>1. meta[e] \in Entry /\ Kept(e, meta[e])
    BY <1>1, <1>4 DEF TypeStores, StoresRight
  <2>2. TypeLocals' /\ OthersSame(w)
    BY <1>1, <1>3, <1>4, <2>1
       DEF TypeLocals, OthersSame, SameLocals, WorkerPc, Parts, Proc
  <2>3. /\ pc'[w] = "getLocal" /\ ent'[w] = meta[e] /\ job'[w].ep = e
        /\ part'[w] = "head"
    BY <1>1, <1>3, <1>4 DEF TypeLocals
  <2> QED
    BY <1>1, <1>2, <2>1, <2>2, <2>3, Move
       DEF ProcRight, GetRight, PutRight, GetPc, PutPc, Kept, InStore
<1>5. CASE /\ ent' = [ent EXCEPT ![w] = NoEntry(u)]
           /\ pc' = [pc EXCEPT ![w] = "fetchHead"]
  <2>1. TypeLocals' /\ OthersSame(w) /\ pc'[w] = "fetchHead"
    BY <1>1, <1>3, <1>5, IdleTyped
       DEF TypeLocals, OthersSame, SameLocals, WorkerPc, Parts, Proc
  <2> QED
    BY <1>1, <1>2, <2>1, FreeRight, Move DEF Free
<1> QED
  BY <1>4, <1>5 DEF Prewarm

\* A reader starts from a row that is right, or misses.
LEMMA TryServeRangeRight ==
    ASSUME UniformConfig, TailsFit, IInv, NEW r \in Reader,
           NEW e \in Episode, NEW u \in Url, NEW h \in Header,
           TryServeRange(r, e, u, h)
    PROVE  IInv'
<1> DEFINE j == [ep |-> e, url |-> u, hdr |-> h]
<1>1. /\ r \in Proc /\ r \notin Worker /\ TypeLocals /\ TypeStores /\ StoresRight
      /\ UNCHANGED <<meta, local, remote>> /\ UNCHANGED body
      /\ job' = [job EXCEPT ![r] = j]
  BY ProcAssumption DEF Proc, IInv, TypeOK, TryServeRange, Stay
<1>2. TypeStores' /\ StoresRight' /\ Grows
  BY <1>1, StayRight
<1>3. j \in Job /\ j.ep = e /\ j.url = u /\ j.hdr = h
  BY DEF Job
<1> HIDE DEF j
<1>4. CASE /\ served(e, u, h)
           /\ ent' = [ent EXCEPT ![r] = meta[e]]
           /\ part' = [part EXCEPT ![r] = Decide(meta[e], h).part]
           /\ pc' = [pc EXCEPT ![r] = "getLocal"]
  <2>1. /\ meta[e] \in Entry /\ Kept(e, meta[e])
        /\ SourceKey[meta[e].url] = SourceKey[u]
        /\ Decide(meta[e], h).part # "none"
    BY <1>1, <1>4 DEF TypeStores, StoresRight, served
  <2> DEFINE x == meta[e]
             d == Decide(x, h)
  <2>2. x.headBytes <= x.total /\ (x.hasTail => x.tailBytes <= x.total)
    <3>1. EntryRight(x)
      BY <2>1 DEF Kept
    <3> QED
      BY <2>1, <3>1, Sizes, ChunkFacts DEF Parts
  <2>3. d.part \in Parts /\ (d.part = "tail" => x.hasTail)
    BY <2>1, <2>2, DecideFacts
  <2> HIDE DEF d
  <2>4. TypeLocals' /\ OthersSame(r)
    BY <1>1, <1>3, <1>4, <2>1, <2>3
       DEF TypeLocals, OthersSame, SameLocals, ReaderPc, Proc, d
  <2>5. /\ pc'[r] = "getLocal" /\ ent'[r] = x /\ part'[r] = d.part
        /\ job'[r].ep = e /\ job'[r].url = u /\ job'[r].hdr = h
    BY <1>1, <1>3, <1>4 DEF TypeLocals, d
  <2>6. Kept(e, x)'
    BY <1>1, <2>1 DEF Kept, InStore
  <2>7. GetRight(r)'
    BY <2>3, <2>5, <2>6, <1>1 DEF GetRight
  <2>8. ReadRight(r)' /\ HitRight(r)'
    BY <2>1, <2>5 DEF ReadRight, HitRight, d
  <2> QED
    BY <1>1, <1>2, <2>4, <2>7, <2>8, Move DEF ProcRight
<1>5. CASE /\ \/ pc' = [pc EXCEPT ![r] = "miss"]
              \/ pc' = [pc EXCEPT ![r] = "fail"]
           /\ UNCHANGED <<ent, part>>
  <2>1. TypeLocals' /\ OthersSame(r) /\ pc'[r] \in {"miss", "fail"}
    BY <1>1, <1>3, <1>5 DEF TypeLocals, OthersSame, SameLocals, ReaderPc, Proc
  <2> QED
    BY <1>1, <1>2, <2>1, FreeRight, Move DEF Free
<1> QED
  BY <1>4, <1>5 DEF TryServeRange

\* The end of a request.
LEMMA RepliedRight ==
    ASSUME IInv, NEW r \in Reader, Replied(r)
    PROVE  IInv'
<1>1. /\ r \in Proc /\ TypeLocals /\ Goto(r, "idle")
      /\ UNCHANGED <<meta, local, remote>>
  BY DEF Proc, IInv, TypeOK, Replied, Stay
<1>2. TypeStores' /\ StoresRight' /\ Grows
  BY <1>1, StayRight
<1>3. TypeLocals' /\ OthersSame(r) /\ pc'[r] = "idle"
  BY <1>1, GotoFacts DEF WorkerPc, ReaderPc
<1> QED
  BY <1>1, <1>2, <1>3, FreeRight, Move DEF Free

\* A write in progress shows a prefix.
LEMMA WriteSomeRight ==
    ASSUME UniformConfig, TailsFit, IInv, NEW p \in Proc, WriteSome(p)
    PROVE  IInv'
<1>1. /\ pc[p] \in {"putWrite", "fillWrite"} /\ UNCHANGED <<meta, remote>>
      /\ UNCHANGED <<pc, job, ent, part, body>>
  BY DEF WriteSome
<1>2. \/ p \in Worker /\ pc[p] \in PutPc
      \/ pc[p] \in GetPc
  BY <1>1 DEF PutPc, GetPc, Proc, IInv, TypeOK, TypeLocals, ReaderPc
<1>3. getKey(p) \in Key /\ Blob(getKey(p)) \in Seq(Byte)
  BY <1>2, KeyFacts
<1>4. body[p] = Blob(getKey(p)) /\ getKey(p) \in DOMAIN local
  BY <1>1, <1>2 DEF PutPc, GetPc, IInv, ProcRight, GetRight, PutRight
<1>5. local[getKey(p)] \in Seq(Byte)
  BY <1>4 DEF IInv, TypeOK, TypeStores
<1>6. PICK n \in (Len(local[getKey(p)]) + 1)..(Len(body[p]) - 1) :
          WriteLocal(getKey(p), Prefix(body[p], n))
  BY DEF WriteSome
<1>7. n \in Nat /\ n <= Len(body[p])
  BY <1>3, <1>4, <1>5, <1>6
<1>8. Prefix(body[p], n) \in Seq(Byte) /\ IsPrefix(Prefix(body[p], n), Blob(getKey(p)))
  BY <1>3, <1>4, <1>7, PrefixFacts
<1>9. TypeStores' /\ StoresRight' /\ Grows
  BY <1>1, <1>3, <1>4, <1>6, <1>8, WriteRight
<1>10. \A q \in Proc : SameLocals(q)
  BY <1>1 DEF SameLocals
<1>11. TypeLocals'
  BY <1>1 DEF IInv, TypeOK, TypeLocals
<1>12. ProcRight(p)'
  BY <1>9, <1>10, Frame DEF IInv
<1> QED
  BY <1>9, <1>10, <1>11, <1>12, Move DEF OthersSame

\* A goroutine whose process dies holds nothing; the others are as before.
LEMMA HaltRight ==
    ASSUME TypeLocals, NEW S \in SUBSET Proc, Halt(S)
    PROVE  /\ TypeLocals'
           /\ \A q \in S : pc'[q] = "idle"
           /\ \A q \in Proc \ S : SameLocals(q)
<1>1. /\ \A q \in S : pc'[q] = "idle"
      /\ \A q \in Proc \ S : SameLocals(q)
  BY DEF Halt, SameLocals
<1>2. "idle" \in WorkerPc /\ "idle" \in ReaderPc /\ "head" \in Parts
  BY DEF WorkerPc, ReaderPc, Parts
<1>3. /\ pc' \in [Proc -> WorkerPc \cup ReaderPc]
      /\ \A w \in Worker : pc'[w] \in WorkerPc
      /\ \A r \in Reader : pc'[r] \in ReaderPc
  BY <1>2 DEF Halt, TypeLocals, Proc
<1>4. /\ job' \in [Proc -> Job] /\ ent' \in [Proc -> Entry]
      /\ part' \in [Proc -> Parts] /\ body' \in [Proc -> Seq(Byte)]
  BY <1>2, IdleTyped DEF Halt, TypeLocals
<1> QED
  BY <1>1, <1>3, <1>4 DEF TypeLocals

\* A crash of one process between any two of its calls.
LEMMA CrashRight ==
    ASSUME IInv, Crash
    PROVE  IInv'
<1>1. UNCHANGED <<meta, local, remote>> /\ TypeLocals
  BY DEF Crash, Stay, IInv, TypeOK
<1>2. PICK S \in {{w} : w \in Worker} \cup {Reader} : Halt(S)
  BY DEF Crash
<1>3. S \in SUBSET Proc
  BY DEF Proc
<1>4. TypeStores' /\ StoresRight' /\ Grows
  BY <1>1, StayRight
<1>5. TypeLocals' /\ \A q \in Proc : pc'[q] = "idle" \/ SameLocals(q)
  BY <1>1, <1>2, <1>3, HaltRight
<1>6. \A q \in Proc : ProcRight(q)'
  BY <1>4, <1>5, Frame, FreeRight DEF IInv, Free
<1> QED
  BY <1>4, <1>5, <1>6 DEF IInv, TypeOK

\* A redeployment with an empty directory: rows and objects survive.
LEMMA RedeployRight ==
    ASSUME IInv, Redeploy
    PROVE  IInv'
<1>1. local' = << >> /\ UNCHANGED <<meta, remote>> /\ Halt(Proc) /\ TypeLocals
  BY DEF Redeploy, IInv, TypeOK
<1>2. TypeLocals' /\ \A q \in Proc : pc'[q] = "idle"
  BY <1>1, HaltRight
<1>3. \A q \in Proc : ProcRight(q)'
  BY <1>2, FreeRight DEF Free
<1>4. DOMAIN local' = {} /\ local' \in [DOMAIN local' -> Seq(Byte)]
  BY <1>1
<1>5. TypeStores'
  BY <1>1, <1>4 DEF IInv, TypeOK, TypeStores
<1>6. StoresRight'
  BY <1>1, <1>4 DEF IInv, StoresRight, Kept, InStore
<1> QED
  BY <1>2, <1>3, <1>5, <1>6 DEF IInv, TypeOK

\* Emptying the bucket breaks only what is promised without purges.
LEMMA PurgeRight ==
    ASSUME IInv, Purge
    PROVE  IInv'
<1>1. /\ Purging /\ UNCHANGED <<meta, local, pc, job, ent, part, body>>
      /\ \E page \in SUBSET DOMAIN remote :
             remote' = [k \in DOMAIN remote \ page |-> remote[k]]
  BY DEF Purge
<1>2. /\ DOMAIN remote' \subseteq DOMAIN remote
      /\ \A k \in DOMAIN remote' : remote'[k] = remote[k]
      /\ remote' = [k \in DOMAIN remote' |-> remote'[k]]
  BY <1>1
<1>3. TypeStores'
  <2>1. TypeStores
    BY DEF IInv, TypeOK
  <2>2. remote' \in [DOMAIN remote' -> Seq(Byte)]
    BY <1>2, <2>1 DEF TypeStores
  <2> QED
    BY <1>1, <1>2, <2>1, <2>2 DEF TypeStores
<1>4. StoresRight'
  BY <1>1, <1>2 DEF IInv, StoresRight, Kept, InStore
<1>5. TypeLocals' /\ \A q \in Proc : SameLocals(q)
  BY <1>1 DEF IInv, TypeOK, TypeLocals, SameLocals
<1>6. \A q \in Proc : ProcRight(q)'
  BY <1>1, <1>5, Frame DEF IInv, Grows
<1> QED
  BY <1>3, <1>4, <1>5, <1>6 DEF IInv, TypeOK
---------------------------------------------------------------------------
(***************************************************************************)
(* The theorems.                                                           *)
(***************************************************************************)

\* Empty stores and idle goroutines satisfy the invariant.
LEMMA InvInit ==
    ASSUME Init
    PROVE  IInv
<1>1. DOMAIN << >> = {} /\ << >> \in [DOMAIN << >> -> Seq(Byte)]
      /\ << >> \in [DOMAIN << >> -> Entry]
  OBVIOUS
<1>2. TypeStores /\ StoresRight
  BY <1>1 DEF Init, TypeStores, StoresRight
<1>3. TypeLocals
  BY IdleTyped DEF Init, TypeLocals, WorkerPc, ReaderPc, Parts, Proc
<1>4. \A p \in Proc : pc[p] = "idle"
  BY DEF Init
<1>5. \A p \in Proc : ProcRight(p)
  BY <1>4 DEF ProcRight, GetRight, PutRight, ReadRight, HitRight, GetPc, PutPc
<1> QED
  BY <1>2, <1>3, <1>5 DEF IInv, TypeOK

\* Every step of every goroutine, crash, redeployment and purge keeps it.
LEMMA InvNext ==
    ASSUME UniformConfig, TailsFit, IInv, [Next]_vars
    PROVE  IInv'
<1>1. CASE UNCHANGED vars
  BY <1>1 DEF vars, IInv, TypeOK, TypeStores, TypeLocals, StoresRight, Kept,
              InStore, ProcRight, GetRight, PutRight, ReadRight, HitRight, getKey
<1>2. CASE Start
  BY <1>2, PrewarmRight, TryServeRangeRight DEF Start
<1>3. ASSUME NEW p \in Proc, Step(p) PROVE IInv'
  BY <1>3, GetLocalRight, GetRemoteRight, FillOpenRight, FillWriteRight,
     FetchHeadRight, PutRemoteRight, PutOpenRight, PutWriteRight,
     FetchTailRight, UpsertRight, RepliedRight DEF Step
<1>4. ASSUME NEW p \in Proc, WriteSome(p) PROVE IInv'
  BY <1>4, WriteSomeRight
<1>5. CASE Crash
  BY <1>5, CrashRight
<1>6. CASE Redeploy
  BY <1>6, RedeployRight
<1>7. CASE Purge
  BY <1>7, PurgeRight
<1> QED
  BY <1>1, <1>2, <1>3, <1>4, <1>5, <1>6, <1>7 DEF Next

\* The stores and every goroutine's view of them stay right: files are
\* prefixes of their key's chunk, objects whole chunks, rows truthful.
THEOREM CacheRight ==
    ASSUME UniformConfig, TailsFit
    PROVE  Spec => []IInv
<1>1. Init => IInv
  BY InvInit
<1>2. IInv /\ [Next]_vars => IInv'
  BY InvNext
<1> QED
  BY <1>1, <1>2, PTL DEF Spec

\* TypeOK for every number of goroutines, URLs, episodes and sizes.
THEOREM TypeCorrect ==
    ASSUME UniformConfig, TailsFit
    PROVE  Spec => []TypeOK
<1>1. IInv => TypeOK
  BY DEF IInv
<1> QED
  BY <1>1, CacheRight, PTL

\* Whatever crashes between a put and its upsert, however many prewarms of one
\* episode overlap: no row without its objects (Prewarm, TieredStore.Put).
THEOREM RowsAreBacked ==
    ASSUME UniformConfig, TailsFit
    PROVE  Spec => []EntryBacked
<1>1. ASSUME IInv PROVE EntryBacked
  <2>1. SUFFICES ASSUME Tiered, ~Purging,
                        NEW e \in DOMAIN meta, NEW s \in Parts,
                        s = "head" \/ meta[e].hasTail
                 PROVE  /\ blobKey(e, meta[e].url, s) \in DOMAIN remote
                        /\ Len(remote[blobKey(e, meta[e].url, s)])
                              >= IF s = "head" THEN meta[e].headBytes
                                               ELSE meta[e].tailBytes
    BY DEF EntryBacked
  <2>2. /\ e \in Episode /\ meta[e] \in Entry /\ Kept(e, meta[e])
        /\ s = "tail" => meta[e].hasTail
    BY <1>1, <2>1 DEF IInv, TypeOK, TypeStores, StoresRight, Parts
  <2>3. blobKey(e, meta[e].url, s) \in DOMAIN remote
    BY <2>1, <2>2 DEF Kept, InStore, Parts
  <2>4. remote[blobKey(e, meta[e].url, s)] = Blob(blobKey(e, meta[e].url, s))
    BY <1>1, <2>3 DEF IInv, StoresRight
  <2>5. Len(Blob(blobKey(e, meta[e].url, s)))
            = IF s = "head" THEN meta[e].headBytes ELSE meta[e].tailBytes
    BY <2>2, Sizes, ChunkFacts DEF Kept
  <2> QED
    BY <2>2, <2>3, <2>4, <2>5 DEF Entry, Parts
<1> QED
  BY <1>1, CacheRight, PTL

\* A reader that goes to the object store finds the chunk, and the slice it
\* will cut is inside it (TieredStore.Get, TryServeRange).
THEOREM RestoreSucceeds ==
    ASSUME UniformConfig, TailsFit
    PROVE  Spec => []RestoreFinds
<1>1. ASSUME IInv PROVE RestoreFinds
  <2>1. SUFFICES ASSUME Tiered, ~Purging, NEW r \in Reader, pc[r] = "getRemote"
                 PROVE  /\ getKey(r) \in DOMAIN remote
                        /\ InBounds(remote[getKey(r)], Decide(ent[r], job[r].hdr))
    BY DEF RestoreFinds
  <2>2. r \in Proc /\ pc[r] \in GetPc /\ ProcRight(r)
    BY <1>1, <2>1 DEF IInv, Proc, GetPc
  <2>3. /\ Kept(job[r].ep, ent[r]) /\ (part[r] = "tail" => ent[r].hasTail)
        /\ Decide(ent[r], job[r].hdr).part = part[r]
    BY <2>1, <2>2 DEF ProcRight, GetRight, ReadRight
  <2>4. part[r] \in Parts /\ ent[r] \in Entry /\ job[r] \in Job
    BY <1>1, <2>2, KeyFacts
  <2>5. getKey(r) \in DOMAIN remote
    BY <2>1, <2>3, <2>4 DEF Kept, InStore, getKey, Parts
  <2>6. remote[getKey(r)] = Blob(getKey(r))
    BY <1>1, <2>5 DEF IInv, StoresRight
  <2>7. /\ job[r].ep \in Episode /\ job[r].hdr \in Header \cup {NoHeader}
        /\ EntryRight(ent[r]) /\ Decide(ent[r], job[r].hdr).part # "none"
    BY <2>3, <2>4 DEF Job, Kept, Parts
  <2>8. InBounds(Blob(blobKey(job[r].ep, ent[r].url,
                              Decide(ent[r], job[r].hdr).part)),
                 Decide(ent[r], job[r].hdr))
    BY <2>4, <2>7, Sizes, WholeChunkInBounds
  <2> QED
    BY <2>3, <2>5, <2>6, <2>8 DEF getKey
<1> QED
  BY <1>1, CacheRight, PTL

\* A hit is never a wrong byte: torn files, overlapping prewarms, restores and
\* redeployments included (TryServeRange, buildCachedPartialResponse).
THEOREM HitsAreRight ==
    ASSUME UniformConfig, TailsFit
    PROVE  Spec => []ServedBytesRight
<1>1. ASSUME IInv PROVE ServedBytesRight
  BY <1>1 DEF IInv, ProcRight, ServedBytesRight, Proc
<1> QED
  BY <1>1, CacheRight, PTL

\* No prewarm, whatever overlaps or crashes, changes or loses an object: both
\* bodies that a key has ever had are the one the key determines.
THEOREM ObjectsStay ==
    ASSUME UniformConfig, TailsFit
    PROVE  Spec => ObjectsFinal
<1> DEFINE Final == \A k \in DOMAIN remote :
                       /\ Purging \/ k \in DOMAIN remote'
                       /\ k \in DOMAIN remote' => remote'[k] = remote[k]
<1>1. ASSUME IInv, IInv', [Next]_vars PROVE Final
  <2>1. \A k \in DOMAIN remote : k \in DOMAIN remote' => remote'[k] = remote[k]
    <3>1. \A k \in DOMAIN remote : remote[k] = Blob(k)
      BY <1>1, Zenon DEF IInv, StoresRight
    <3>2. \A k \in DOMAIN remote' : remote'[k] = Blob(k)
      <4>1. StoresRight'
        BY <1>1, Zenon DEF IInv
      <4>2. \A k \in DOMAIN remote' : remote'[k] = Blob(k)'
        BY <4>1, Zenon DEF StoresRight
      <4> QED
        BY <4>2
    <3> QED
      BY <3>1, <3>2, Zenon
  <2>2. ASSUME ~Purging PROVE DOMAIN remote \subseteq DOMAIN remote'
    <3>1. CASE UNCHANGED remote
      BY <3>1
    <3>2. ASSUME NEW w \in Worker, PutRemote(w) PROVE DOMAIN remote \subseteq DOMAIN remote'
      BY <3>2 DEF PutRemote, Store
    <3>3. CASE Start
      BY <3>1, <3>3, Zenon DEF Start, Prewarm, TryServeRange, Stay
    <3>4. ASSUME NEW q \in Proc, Step(q) \/ WriteSome(q)
          PROVE  UNCHANGED remote \/ (q \in Worker /\ PutRemote(q))
      <4>1. CASE WriteSome(q)
        BY <4>1, Zenon DEF WriteSome
      <4>2. CASE GetLocal(q) \/ GetRemote(q) \/ FillOpen(q) \/ FillWrite(q)
        BY <4>2, Zenon DEF GetLocal, GetRemote, FillOpen, FillWrite, Stay
      <4>3. CASE q \in Worker /\ (FetchHead(q) \/ PutOpen(q) \/ PutWrite(q) \/ FetchTail(q)
                                 \/ UpsertStartupMediaCache(q))
        BY <4>3, Zenon DEF FetchHead, PutOpen, PutWrite, FetchTail, UpsertStartupMediaCache, Stay
      <4>4. CASE Replied(q)
        BY <4>4, Zenon DEF Replied, Stay
      <4> QED
        BY <3>4, <4>1, <4>2, <4>3, <4>4, Zenon DEF Step
    <3>5. CASE Crash \/ Redeploy
      BY <3>1, <3>5, Zenon DEF Crash, Redeploy, Stay
    <3>6. ~Purge
      BY <2>2 DEF Purge
    <3>7. CASE UNCHANGED vars
      BY <3>1, <3>7 DEF vars
    <3> QED
      BY <1>1, <3>1, <3>2, <3>3, <3>4, <3>5, <3>6, <3>7, Zenon DEF Next
  <2> QED
    BY <2>1, <2>2, Zenon
<1> QED
  BY <1>1, CacheRight, PTL DEF Spec, ObjectsFinal
===========================================================================
