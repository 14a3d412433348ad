--------------------------- MODULE StartupCache ---------------------------
(***************************************************************************)
(* The startup media cache: mediacache.Service over the metadata table and *)
(* a blob store that is a local directory alone or a local directory in    *)
(* front of an object store (TieredStore).                                 *)
(*                                                                         *)
(* Worker goroutines (cmd/prewarm-startup) run Prewarm, reader goroutines  *)
(* (mediaRoute) run TryServeRange.  They share the metadata table, the     *)
(* object store and the directory, and hold no lock across any two of      *)
(* their calls, so every call is an action of its own.  os.WriteFile is    *)
(* truncate-then-write: a file being written is visible at every length.   *)
(***************************************************************************)
EXTENDS MediaRange, FiniteSets

CONSTANTS
    Worker, Reader,   \* goroutines that run Prewarm and TryServeRange
    Episode, Url,     \* episode ids and candidate URLs
    SourceKey,        \* SourceKey[u]: lower-cased base name of u, names the file
    Length,           \* Length[f]: length of the file f upstream
    Answer,           \* Answer[u]: how u's server answers a range request
    Cap,              \* longest body a "capped" server sends
    HeadBytes,        \* HeadBytes[w], TailBytes[w]: configuration of the
    TailBytes,        \*   process worker w belongs to
    Header,           \* Range headers the players send
    Tiered,           \* an object store is configured and in use
    Purging           \* cmd/purge-startup-cache may be run

Proc == Worker \cup Reader
File == {SourceKey[u] : u \in Url}
Key  == Episode \X Url \X {"head", "tail"}

ASSUME ProcAssumption == Worker # {} /\ Worker \cap Reader = {}
ASSUME NameAssumption == Episode # {} /\ Url # {}
ASSUME FileAssumption ==
    /\ SourceKey \in [Url -> File]
    /\ Length \in [File -> Nat]
    /\ Answer \in [Url -> {"exact", "whole", "capped"}]
    /\ Cap \in Nat \ {0}
ASSUME ConfigAssumption ==
    /\ HeadBytes \in [Worker -> Nat]
    /\ TailBytes \in [Worker -> Nat]
    /\ Tiered \in BOOLEAN
    /\ Purging \in BOOLEAN
ASSUME HeaderAssumption == \A h \in Header :
    h.kind \in RangeKinds /\ h.a \in Int /\ h.b \in Int

VARIABLES
    meta,      \* meta[e]: the metadata entry of e, for e in DOMAIN meta
    local,     \* local[k]: the local file of blob key k
    remote,    \* remote[k]: the object of blob key k
    pc,        \* pc[p]: the next call of goroutine p
    job,       \* job[p]: the episode, URL and header p works for
    ent,       \* ent[p]: the entry p read or is building
    part,      \* part[p]: the chunk p is getting or putting
    body       \* body[p]: the bytes p holds
vars == <<meta, local, remote, pc, job, ent, part, body>>

\* Variant that gives head and tail one key.
blobKeyShared(e, u, suffix) == <<e, u, "head">>

blobKey(e, u, suffix) == <<e, u, suffix>>

\* The blob key of the call p is making: Prewarm puts under the candidate's
\* URL; a Get uses the key recorded in the entry, under the entry's own URL.
getKey(p) == blobKey(job[p].ep, ent[p].url, part[p])

(***************************************************************************)
(* External: the upstream server.  A successful answer to "bytes=a-b" is   *)
(* the exact range, the whole file (a 200 that ignores Range), or a prefix *)
(* of the range (a 206 may be shorter than asked).  A range that starts    *)
(* past the end is a 416, which Fetch turns into an error.                 *)
(***************************************************************************)
FetchBody(u, a, b) ==
    LET f    == SourceKey[u]
        last == IF b < Length[f] THEN b ELSE Length[f] - 1
    IN  CASE Answer[u] = "exact"  -> Bytes(f, a, last)
          [] Answer[u] = "whole"  -> Bytes(f, 0, Length[f] - 1)
          [] Answer[u] = "capped" ->
                 Bytes(f, a, IF last < a + Cap THEN last ELSE a + Cap - 1)

FetchOk(u, a) == Answer[u] = "whole" \/ a < Length[SourceKey[u]]

(***************************************************************************)
(* Blob files and rows as partial functions.                               *)
(***************************************************************************)
Store(f, k, v) == [x \in DOMAIN f \cup {k} |-> IF x = k THEN v ELSE f[x]]

\* Writing b at the start of an open file whose content is cur.
Overlay(b, cur) ==
    [i \in 1..max(Len(b), Len(cur)) |-> IF i <= Len(b) THEN b[i] ELSE cur[i]]

Prefix(b, n) == [i \in 1..n |-> b[i]]

NoHeader == [kind |-> "other", a |-> 0, b |-> 0]
NoEntry(u) == [url |-> u, total |-> 0, headBytes |-> 0, hasTail |-> FALSE,
               tailBytes |-> 0]
SomeEpisode == CHOOSE e \in Episode : TRUE
SomeUrl == CHOOSE u \in Url : TRUE
NoJob == [ep |-> SomeEpisode, url |-> SomeUrl, hdr |-> NoHeader]

Init ==
    /\ meta = << >> /\ local = << >> /\ remote = << >>
    /\ pc = [p \in Proc |-> "idle"]
    /\ job = [p \in Proc |-> NoJob]
    /\ ent = [p \in Proc |-> NoEntry(SomeUrl)]
    /\ part = [p \in Proc |-> "head"]
    /\ body = [p \in Proc |-> << >>]

\* A call returns and p goes on at l; when it is done its locals are dropped.
Goto(p, l) ==
    /\ pc' = [pc EXCEPT ![p] = l]
    /\ IF l = "idle"
       THEN /\ job' = [job EXCEPT ![p] = NoJob]
            /\ ent' = [ent EXCEPT ![p] = NoEntry(SomeUrl)]
            /\ part' = [part EXCEPT ![p] = "head"]
            /\ body' = [body EXCEPT ![p] = << >>]
       ELSE UNCHANGED <<job, ent, part, body>>

Stay == UNCHANGED <<meta, local, remote>>
---------------------------------------------------------------------------
(***************************************************************************)
(* Prewarm, and the metadata half of isSufficientlyCached.  A row that is  *)
(* missing, unreadable, of another file or too short means a new fetch.    *)
(***************************************************************************)
headRecorded(w, entry, u) ==
    /\ SourceKey[entry.url] = SourceKey[u]
    /\ entry.headBytes >= HeadBytes[w]

tailRecorded(w, entry) == entry.hasTail /\ entry.tailBytes >= TailBytes[w]

Prewarm(w, e, u) ==
    /\ pc[w] = "idle"
    /\ job' = [job EXCEPT ![w] = [ep |-> e, url |-> u, hdr |-> NoHeader]]
    /\ \/ /\ e \in DOMAIN meta
          /\ headRecorded(w, meta[e], u)
          /\ ent' = [ent EXCEPT ![w] = meta[e]]
          /\ pc' = [pc EXCEPT ![w] = "getLocal"]
       \/ /\ ent' = [ent EXCEPT ![w] = NoEntry(u)]
          /\ pc' = [pc EXCEPT ![w] = "fetchHead"]
    /\ part' = [part EXCEPT ![w] = "head"]
    /\ UNCHANGED body
    /\ Stay

(***************************************************************************)
(* TryServeRange up to its blob read.  An unreadable row is an error, a    *)
(* missing row or another file a miss; both fall back to upstream.         *)
(***************************************************************************)
\* Variant that trusts the episode id and does not compare source keys.
servedAnySource(e, u, h) ==
    /\ e \in DOMAIN meta
    /\ Decide(meta[e], h).part # "none"

served(e, u, h) ==
    /\ e \in DOMAIN meta
    /\ SourceKey[meta[e].url] = SourceKey[u]
    /\ Decide(meta[e], h).part # "none"

TryServeRange(r, e, u, h) ==
    /\ pc[r] = "idle"
    /\ job' = [job EXCEPT ![r] = [ep |-> e, url |-> u, hdr |-> h]]
    /\ \/ /\ served(e, u, h)
          /\ ent' = [ent EXCEPT ![r] = meta[e]]
          /\ part' = [part EXCEPT ![r] = Decide(meta[e], h).part]
          /\ pc' = [pc EXCEPT ![r] = "getLocal"]
       \/ /\ \/ ~served(e, u, h) /\ pc' = [pc EXCEPT ![r] = "miss"]
             \/ pc' = [pc EXCEPT ![r] = "fail"]
          /\ UNCHANGED <<ent, part>>
    /\ UNCHANGED body
    /\ Stay

(***************************************************************************)
(* What the caller of Get does with a body b, or with an error.  Prewarm's *)
(* check throws the body away and looks only at the error.                 *)
(***************************************************************************)
afterCheck(w) ==
    IF part[w] = "head" /\ TailBytes[w] > 0
    THEN IF tailRecorded(w, ent[w]) THEN "tailCheck" ELSE "fetchHead"
    ELSE "idle"

Checked(w) ==
    CASE afterCheck(w) = "tailCheck" ->
             /\ pc' = [pc EXCEPT ![w] = "getLocal"]
             /\ part' = [part EXCEPT ![w] = "tail"]
             /\ body' = [body EXCEPT ![w] = << >>]
             /\ UNCHANGED <<job, ent>>
      [] afterCheck(w) = "fetchHead" ->
             /\ pc' = [pc EXCEPT ![w] = "fetchHead"]
             /\ body' = [body EXCEPT ![w] = << >>]
             /\ UNCHANGED <<job, ent, part>>
      [] OTHER -> Goto(w, "idle")

Answered(r, b) ==
    LET d == Decide(ent[r], job[r].hdr)
    IN  /\ IF InBounds(b, d)
           THEN /\ pc' = [pc EXCEPT ![r] = "hit"]
                /\ body' = [body EXCEPT ![r] = buildCachedPartialResponse(b, d)]
           ELSE /\ pc' = [pc EXCEPT ![r] = "outOfBounds"]
                /\ body' = [body EXCEPT ![r] = << >>]
        /\ UNCHANGED <<job, ent, part>>

Got(p, b) == IF p \in Worker THEN Checked(p) ELSE Answered(p, b)

\* Variant in which a failed Get is simply tried again.
GetFailedRetries(p) == Goto(p, "getLocal")

GetFailed(p) == Goto(p, IF p \in Worker THEN "fetchHead" ELSE "fail")

(***************************************************************************)
(* BlobStore.Get: FilesystemStore.Get, then for a TieredStore the object   *)
(* store, whose body is written back to the directory, errors ignored.     *)
(***************************************************************************)
GetLocal(p) ==
    /\ pc[p] = "getLocal"
    /\ CASE getKey(p) \in DOMAIN local -> Got(p, local[getKey(p)])
         [] getKey(p) \notin DOMAIN local /\ Tiered -> Goto(p, "getRemote")
         [] OTHER -> GetFailed(p)
    /\ Stay

GetRemote(p) ==
    /\ pc[p] = "getRemote"
    /\ \/ /\ getKey(p) \in DOMAIN remote
          /\ body' = [body EXCEPT ![p] = remote[getKey(p)]]
          /\ pc' = [pc EXCEPT ![p] = "fillOpen"]
          /\ UNCHANGED <<job, ent, part>>
       \/ GetFailed(p)
    /\ Stay

\* os.WriteFile: open with O_TRUNC, then write; either may fail.
OpenLocal(k) == local' = Store(local, k, << >>)
WriteLocal(k, b) == local' = Store(local, k, Overlay(b, local[k]))

FillOpen(p) ==
    /\ pc[p] = "fillOpen"
    /\ \/ OpenLocal(getKey(p)) /\ Goto(p, "fillWrite")
       \/ UNCHANGED local /\ Got(p, body[p])
    /\ UNCHANGED <<meta, remote>>

FillWrite(p) ==
    /\ pc[p] = "fillWrite"
    /\ WriteLocal(getKey(p), body[p]) \/ UNCHANGED local
    /\ Got(p, body[p])
    /\ UNCHANGED <<meta, remote>>
---------------------------------------------------------------------------
(***************************************************************************)
(* The rest of Prewarm: fetch and put the head, fetch and put the tail     *)
(* when there is one (any failure there only drops the tail), upsert.      *)
(***************************************************************************)
\* Variant that does not return the error of the head's put.
AbandonTailOnly(w) == Goto(w, "upsert")

Abandon(w) == Goto(w, IF part[w] = "head" THEN "idle" ELSE "upsert")

StartPut(w, suffix, b) ==
    /\ body' = [body EXCEPT ![w] = b]
    /\ part' = [part EXCEPT ![w] = suffix]
    /\ pc' = [pc EXCEPT ![w] = IF Tiered THEN "putRemote" ELSE "putOpen"]
    /\ UNCHANGED job

FetchHead(w) ==
    LET u == job[w].url
        b == FetchBody(u, 0, max(0, HeadBytes[w] - 1))
    IN  /\ pc[w] = "fetchHead"
        /\ \/ /\ FetchOk(u, 0)
              /\ StartPut(w, "head", b)
              /\ ent' = [ent EXCEPT ![w] =
                            [url |-> u, total |-> Length[SourceKey[u]],
                             headBytes |-> Len(b),
                             hasTail |-> FALSE, tailBytes |-> 0]]
           \/ Goto(w, "idle")
        /\ Stay

PutDone(w) ==
    IF part[w] = "head"
    THEN Goto(w, IF wantsTail(ent[w].total, ent[w].headBytes, TailBytes[w])
                 THEN "fetchTail" ELSE "upsert")
    ELSE /\ ent' = [ent EXCEPT ![w].hasTail = TRUE,
                               ![w].tailBytes = Len(body[w])]
         /\ pc' = [pc EXCEPT ![w] = "upsert"]
         /\ UNCHANGED <<job, part, body>>

\* Variant in which TieredStore.Put ignores the object store's error, as it
\* does the directory's.
PutRemoteIgnored(w) ==
    /\ pc[w] = "putRemote"
    /\ remote' = Store(remote, getKey(w), body[w]) \/ UNCHANGED remote
    /\ Goto(w, "putOpen")
    /\ UNCHANGED <<meta, local>>

\* A put that fails may have taken effect all the same (a lost answer).
PutRemote(w) ==
    /\ pc[w] = "putRemote"
    /\ LET stored == Store(remote, getKey(w), body[w]) IN
       \/ remote' = stored /\ Goto(w, "putOpen")
       \/ remote' \in {remote, stored} /\ Abandon(w)
    /\ UNCHANGED <<meta, local>>

\* A local failure is ignored behind an object store and fatal without one.
PutOpen(w) ==
    /\ pc[w] = "putOpen"
    /\ \/ OpenLocal(getKey(w)) /\ Goto(w, "putWrite")
       \/ UNCHANGED local /\ IF Tiered THEN PutDone(w) ELSE Abandon(w)
    /\ UNCHANGED <<meta, remote>>

PutWrite(w) ==
    /\ pc[w] = "putWrite"
    /\ \/ WriteLocal(getKey(w), body[w]) /\ PutDone(w)
       \/ UNCHANGED local /\ IF Tiered THEN PutDone(w) ELSE Abandon(w)
    /\ UNCHANGED <<meta, remote>>

FetchTail(w) ==
    LET u == job[w].url
        a == prewarmTailStart(ent[w].total, TailBytes[w])
        b == FetchBody(u, a, ent[w].total - 1)
    IN  /\ pc[w] = "fetchTail"
        /\ \/ /\ FetchOk(u, a) /\ Len(b) > 0
              /\ StartPut(w, "tail", b)
              /\ UNCHANGED ent
           \/ Goto(w, "upsert")
        /\ Stay

\* Variant with the row keyed by the URL, the upsert's conflict column wrong.
UpsertByUrl(w) ==
    /\ pc[w] = "upsert"
    /\ meta' = Store(meta, job[w].url, ent[w])
    /\ Goto(w, "idle")
    /\ UNCHANGED <<local, remote>>

UpsertStartupMediaCache(w) ==
    /\ pc[w] = "upsert"
    /\ meta' = Store(meta, job[w].ep, ent[w]) \/ UNCHANGED meta
    /\ Goto(w, "idle")
    /\ UNCHANGED <<local, remote>>
---------------------------------------------------------------------------
\* The response leaves; a miss, an error or a panic ends the request too.
Replied(r) ==
    /\ pc[r] \in {"hit", "miss", "fail", "outOfBounds"}
    /\ Goto(r, "idle")
    /\ Stay

\* A write in progress makes a longer proper prefix of the body visible.
WriteSome(p) ==
    /\ pc[p] \in {"putWrite", "fillWrite"}
    /\ \E n \in (Len(local[getKey(p)]) + 1)..(Len(body[p]) - 1) :
           WriteLocal(getKey(p), Prefix(body[p], n))
    /\ UNCHANGED <<meta, remote, pc, job, ent, part, body>>

\* The processes of the goroutines in S die; files keep what was written.
Halt(S) ==
    /\ pc' = [p \in Proc |-> IF p \in S THEN "idle" ELSE pc[p]]
    /\ job' = [p \in Proc |-> IF p \in S THEN NoJob ELSE job[p]]
    /\ ent' = [p \in Proc |-> IF p \in S THEN NoEntry(SomeUrl) ELSE ent[p]]
    /\ part' = [p \in Proc |-> IF p \in S THEN "head" ELSE part[p]]
    /\ body' = [p \in Proc |-> IF p \in S THEN << >> ELSE body[p]]

\* A prewarm run or the API server (all its readers) is killed.
Crash ==
    /\ \E S \in {{w} : w \in Worker} \cup {Reader} :
           (\E p \in S : pc[p] # "idle") /\ Halt(S)
    /\ Stay

\* Redeployment: every process dies and the local directory is empty.
Redeploy ==
    /\ Halt(Proc)
    /\ local' = << >>
    /\ UNCHANGED <<meta, remote>>

\* cmd/purge-startup-cache deletes the bucket's objects, a page per request
\* until done or the first error, and touches nothing else.
Purge ==
    /\ Purging
    /\ \E page \in SUBSET DOMAIN remote :
           /\ page # {}
           /\ remote' = [k \in DOMAIN remote \ page |-> remote[k]]
    /\ UNCHANGED <<meta, local, pc, job, ent, part, body>>

Step(p) ==
    \/ GetLocal(p) \/ GetRemote(p) \/ FillOpen(p) \/ FillWrite(p)
    \/ p \in Worker /\
          \/ FetchHead(p) \/ PutRemote(p) \/ PutOpen(p) \/ PutWrite(p)
          \/ FetchTail(p) \/ UpsertStartupMediaCache(p)
    \/ p \in Reader /\ Replied(p)

Start ==
    \E e \in Episode, u \in Url :
        \/ \E w \in Worker : Prewarm(w, e, u)
        \/ \E r \in Reader, h \in Header : TryServeRange(r, e, u, h)

Next ==
    \/ Start
    \/ \E p \in Proc : Step(p) \/ WriteSome(p)
    \/ Crash \/ Redeploy \/ Purge

Spec == Init /\ [][Next]_vars

\* Every call of a running goroutine returns: fetches carry a deadline.
LiveSpec == Spec /\ \A p \in Proc : WF_vars(Step(p))
===========================================================================
