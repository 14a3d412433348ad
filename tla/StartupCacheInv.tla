------------------------- MODULE StartupCacheInv -------------------------
(***************************************************************************)
(* What the startup media cache promises, and the inductive invariant that *)
(* shows why it keeps two of its promises.                                 *)
(***************************************************************************)
EXTENDS StartupCache

Parts == {"head", "tail"}
Byte  == File \X Nat
Entry == [url : Url, total : Nat, headBytes : Nat, hasTail : BOOLEAN,
          tailBytes : Nat]
Job   == [ep : Episode, url : Url, hdr : Header \cup {NoHeader}]
WorkerPc == {"idle", "getLocal", "getRemote", "fillOpen", "fillWrite",
             "fetchHead", "putRemote", "putOpen", "putWrite", "fetchTail",
             "upsert"}
ReaderPc == {"idle", "getLocal", "getRemote", "fillOpen", "fillWrite",
             "hit", "miss", "fail", "outOfBounds"}
GetPc == {"getLocal", "getRemote", "fillOpen", "fillWrite"}
PutPc == {"putRemote", "putOpen", "putWrite"}

TypeStores ==
    /\ DOMAIN meta \subseteq Episode /\ meta \in [DOMAIN meta -> Entry]
    /\ DOMAIN local \subseteq Key /\ local \in [DOMAIN local -> Seq(Byte)]
    /\ DOMAIN remote \subseteq Key /\ remote \in [DOMAIN remote -> Seq(Byte)]

TypeLocals ==
    /\ pc \in [Proc -> WorkerPc \cup ReaderPc]
    /\ \A w \in Worker : pc[w] \in WorkerPc
    /\ \A r \in Reader : pc[r] \in ReaderPc
    /\ job \in [Proc -> Job]
    /\ ent \in [Proc -> Entry]
    /\ part \in [Proc -> Parts]
    /\ body \in [Proc -> Seq(Byte)]

\* Every row names a known episode, every file and object a known blob key,
\* and each goroutine is at a call of its own procedure.
TypeOK == TypeStores /\ TypeLocals
---------------------------------------------------------------------------
(***************************************************************************)
(* Properties.                                                             *)
(***************************************************************************)

\* Blobs before metadata: with an object store that nobody purges, every
\* metadata row is backed by objects at least as long as the row says, so a
\* redeployed server can restore from it (Prewarm puts before it upserts, and
\* TieredStore.Put fails unless the object store took the body).
EntryBacked ==
    Tiered /\ ~Purging =>
        \A e \in DOMAIN meta, s \in Parts :
            s = "head" \/ meta[e].hasTail =>
                LET k == blobKey(e, meta[e].url, s)
                IN  /\ k \in DOMAIN remote
                    /\ Len(remote[k]) >= IF s = "head" THEN meta[e].headBytes
                                                       ELSE meta[e].tailBytes

\* A reader that finds no local file goes to the object store with a row it
\* read earlier; whatever was prewarmed, crashed or redeployed since, the
\* object is there and holds the slice the reader will cut from it.
RestoreFinds ==
    Tiered /\ ~Purging =>
        \A r \in Reader : pc[r] = "getRemote" =>
            /\ getKey(r) \in DOMAIN remote
            /\ InBounds(remote[getKey(r)], Decide(ent[r], job[r].hdr))

\* An object that is stored stays, and stays the same, until it is purged:
\* the prewarms that put it again, whatever they overlap with and wherever one
\* of them crashed, put the same bytes, so a row that was read earlier still
\* describes it (Prewarm, blobKey, TieredStore.Put).
ObjectsFinal ==
    [][\A k \in DOMAIN remote :
          /\ Purging \/ k \in DOMAIN remote'
          /\ k \in DOMAIN remote' => remote'[k] = remote[k]]_vars

\* The file positions a Range header asks for, from the file's true length:
\* an open range may be answered by any non-empty prefix of what it names.
FirstAsked(h, len) == IF h.kind = "suffix" THEN len - h.b ELSE h.a
LastAsked(h, len) == IF h.kind = "bounded" THEN h.b ELSE len - 1

RightBytes(file, h, b) ==
    LET first == FirstAsked(h, Length[file])
        last  == LastAsked(h, Length[file])
    IN  /\ b # << >>
        /\ b = Bytes(file, first, first + Len(b) - 1)
        /\ IF h.kind = "open" THEN first + Len(b) - 1 <= last
                              ELSE first + Len(b) - 1 = last

\* A hit carries exactly the bytes the player asked for, of the file it asked
\* for, although row and blob are read at different times while other
\* goroutines rewrite both (TryServeRange, buildCachedPartialResponse).
HitRight(r) ==
    pc[r] = "hit" => RightBytes(SourceKey[job[r].url], job[r].hdr, body[r])
ServedBytesRight == \A r \in Reader : HitRight(r)

\* The slice TryServeRange cuts lies inside the blob it read: otherwise
\* blob[localStart:localEnd] panics, or returns bytes past the blob's end.
SliceInsideBlob == \A r \in Reader : pc[r] # "outOfBounds"

\* Every Prewarm and every TryServeRange returns, however local files,
\* objects and rows change under it.
CallsReturn == \A p \in Proc : pc[p] # "idle" ~> pc[p] = "idle"

\* README, local-only mode: "if the backend restarts or the disk is cleared,
\* the cache is rebuilt on demand".  Demand is a request for a range of the
\* head; rebuilt is the head file back on disk.
HeadMissing(e) ==
    e \in DOMAIN meta /\ blobKey(e, meta[e].url, "head") \notin DOMAIN local
Demanded(e) == \E r \in Reader :
    pc[r] = "getLocal" /\ job[r].ep = e /\ part[r] = "head"
RebuiltOnDemand ==
    \A e \in Episode : HeadMissing(e) /\ Demanded(e) ~> ~HeadMissing(e)
---------------------------------------------------------------------------
(***************************************************************************)
(* The inductive invariant.  Under one configuration, and servers that     *)
(* never cut a tail short, the body a key is ever given is a function of   *)
(* the key: Blob(k).                                                       *)
(***************************************************************************)
headSize == HeadBytes[CHOOSE w \in Worker : TRUE]
tailSize == TailBytes[CHOOSE w \in Worker : TRUE]
UniformConfig ==
    \A w \in Worker : HeadBytes[w] = headSize /\ TailBytes[w] = tailSize
TailsFit == \A u \in Url : Answer[u] = "capped" => Cap >= tailSize

FileLen(u) == Length[SourceKey[u]]
HeadBody(u) == FetchBody(u, 0, max(0, headSize - 1))
TailBody(u) ==
    FetchBody(u, prewarmTailStart(FileLen(u), tailSize), FileLen(u) - 1)
Blob(k) == IF k[3] = "head" THEN HeadBody(k[2]) ELSE TailBody(k[2])

HasTail(u) == wantsTail(FileLen(u), Len(HeadBody(u)), tailSize)

EntryRight(x) ==
    /\ x.total = FileLen(x.url)
    /\ x.headBytes = Len(HeadBody(x.url))
    /\ x.hasTail => HasTail(x.url) /\ x.tailBytes = Len(TailBody(x.url))

\* The entry is right, and its objects are in the store (when there is one
\* and nobody purges it).
InStore(e, u, s) == Tiered /\ ~Purging => blobKey(e, u, s) \in DOMAIN remote
Kept(e, x) ==
    /\ EntryRight(x)
    /\ InStore(e, x.url, "head")
    /\ x.hasTail => InStore(e, x.url, "tail")

IsPrefix(b, c) == Len(b) <= Len(c) /\ \A i \in 1..Len(b) : b[i] = c[i]

StoresRight ==
    /\ \A k \in DOMAIN local : IsPrefix(local[k], Blob(k))
    /\ \A k \in DOMAIN remote : remote[k] = Blob(k)
    /\ \A e \in DOMAIN meta : Kept(e, meta[e])

\* A goroutine inside Get holds an entry that is right and backed, and the
\* chunk it reads is one that entry records.
GetRight(p) ==
    pc[p] \in GetPc =>
        /\ Kept(job[p].ep, ent[p])
        /\ part[p] = "tail" => ent[p].hasTail
        /\ pc[p] \in {"fillOpen", "fillWrite"} => body[p] = Blob(getKey(p))
        /\ pc[p] = "fillWrite" => getKey(p) \in DOMAIN local

\* A worker past its head fetch holds the candidate's entry; a chunk is in
\* the store once its object put is over.
PutRight(w) ==
    pc[w] \in PutPc \cup {"fetchTail", "upsert"} =>
        /\ EntryRight(ent[w])
        /\ ent[w].url = job[w].url
        /\ pc[w] # "upsert" => ~ent[w].hasTail
        /\ pc[w] = "upsert" => Kept(job[w].ep, ent[w])
        /\ pc[w] = "fetchTail" =>
               HasTail(ent[w].url) /\ InStore(job[w].ep, ent[w].url, "head")
        /\ pc[w] \in PutPc =>
               /\ body[w] = Blob(getKey(w))
               /\ part[w] = "tail" =>
                      /\ HasTail(ent[w].url)
                      /\ InStore(job[w].ep, ent[w].url, "head")
               /\ pc[w] # "putRemote" => InStore(job[w].ep, ent[w].url, part[w])
        /\ pc[w] = "putWrite" => getKey(w) \in DOMAIN local

\* A reader inside Get reads the chunk its row and header decide on.
ReadRight(r) ==
    pc[r] \in GetPc =>
        /\ SourceKey[ent[r].url] = SourceKey[job[r].url]
        /\ Decide(ent[r], job[r].hdr).part = part[r]

ProcRight(p) ==
    /\ GetRight(p)
    /\ p \in Worker => PutRight(p)
    /\ p \in Reader => ReadRight(p) /\ HitRight(p)

\* Why EntryBacked, RestoreFinds and ServedBytesRight hold: local files are
\* prefixes of the key's blob, objects are the whole blob, and every row and
\* every entry held by a goroutine describes the blobs of its keys.
IInv ==
    /\ TypeOK
    /\ StoresRight
    /\ \A p \in Proc : ProcRight(p)
===========================================================================
