--------------------------- MODULE CatalogService ---------------------------
(***************************************************************************)
(* The catalog service (internal/service/catalog): pages and details read  *)
(* through the memory cache and the tables of the database, and details    *)
(* repaired from the provider each time they are read.                     *)
(*                                                                         *)
(* A cover is "", "mal" (MyAnimeList's) or "own"; dates tells which of the *)
(* episodes have a release date: "none", "some", "all", or "empty" without *)
(* episodes.  A detail has at most one recommendation.  What a copy of a   *)
(* detail shares with the others, its Metadata map and its Recommendations *)
(* slice, is an object of the heap: [rec, raw], the recommendation's cover *)
(* ("-" without one) and whether Metadata is as the provider had it.       *)
(*                                                                         *)
(* A caller runs one call at a time, one access to cache, table, provider  *)
(* or heap per step.  Go may end the process at two concurrent writes to a *)
(* Metadata map; Restart allows for that.                                  *)
(***************************************************************************)
EXTENDS EpisodePages

CONSTANTS
    Caller,
    Id, NoId,
    Asked,       \* those of them clients ask for
    Rec,         \* Rec[i]: what the detail of i recommends, or NoId
    Partial,     \* Partial[i]: i's details [cover, dates, rec] on the provider's
                 \* worse days,
    Whole,       \* Whole[i]: on its better ones
    Page,        \* pages: home, a search, a schedule page ...
    MemoryPage,  \* those without a table: home, search, schedule and index
    RawPage,     \* index, the one that is not normalized
    MaxCalls     \* bound on the number of calls

VARIABLES
    whole,       \* does the provider answer all requests, with whole details?
    mem, row,    \* mem[i], row[i]: the detail in memory and in catalog_caches
    heap,        \* heap[o]: the shared part of a detail in memory
    pageMem,     \* pageMem[k], pageRow[k]: is the cached page raw?
    pageRow,
    call,        \* call[p]: the caller's call
    begun        \* the number of calls so far
vars == <<whole, mem, row, heap, pageMem, pageRow, call, begun>>

Cover == {"", "mal", "own"}
Dates == {"none", "some", "all", "empty"}
ASSUME DetailAssumption ==
    \A i \in Id : \A a \in Partial[i] \cup Whole[i] :
        a.cover \in Cover /\ a.dates \in Dates /\ a.rec \in Cover
\* What has no episodes on a good day has none without a date on a bad one.
ASSUME WholeAssumption ==
    \A i \in Id : \A a \in Whole[i] :
        /\ a.cover = "own" /\ a.dates \in {"all", "empty"}
        /\ a.dates = "empty" => \A b \in Partial[i] : b.dates \in {"all", "empty"}
ASSUME IdAssumption == Asked \subseteq Id /\ Rec \in [Id -> Id \cup {NoId}]

Store(f, k, v) == [x \in DOMAIN f \cup {k} |-> IF x = k THEN v ELSE f[x]]
Without(f, k) == [x \in DOMAIN f \ {k} |-> f[x]]

\* late: did the call begin after the provider had recovered, and after the
\* calls of before had ended?
NoRel == [cover |-> "", dates |-> "", obj |-> 0]
NoCall == [pc |-> "none", id |-> NoId, src |-> "", cover |-> "", dates |-> "",
           obj |-> 0, rel |-> NoRel, raw |-> FALSE, late |-> FALSE]

Init ==
    /\ whole = FALSE
    /\ mem = << >> /\ row = << >> /\ heap = << >>
    /\ pageMem = << >> /\ pageRow = << >>
    /\ call = [p \in Caller |-> NoCall] /\ begun = 0

At(p, label) == call[p].pc = label
Goto(p, label) == call' = [call EXCEPT ![p].pc = label]
Answers(i) == IF whole THEN Whole[i] ELSE Partial[i]
MayFail == ~whole

(***************************************************************************)
(* Go keeps what is referenced; New is an object that nothing refers to.   *)
(***************************************************************************)
Live(m, c) == {m[i].obj : i \in DOMAIN m} \cup {c[p].obj : p \in Caller}
              \cup {c[p].rel.obj : p \in Caller}
Collect(h) == heap' = [o \in DOMAIN h \cap Live(mem', call') |-> h[o]]
New == CHOOSE o \in 1..(1 + Cardinality(DOMAIN heap)) : o \notin DOMAIN heap
RecOf(i, cover) == IF Rec[i] = NoId THEN "-" ELSE cover
---------------------------------------------------------------------------
(***************************************************************************)
(* Catalog: memory, table, provider.                                       *)
(***************************************************************************)
Catalog(p, i) ==
    /\ At(p, "none") /\ begun < MaxCalls
    /\ call' = [call EXCEPT ![p] = [NoCall EXCEPT !.pc = "mem", !.id = i,
          !.late = whole /\ \A q \in Caller : At(q, "none") \/ call[q].late]]
    /\ begun' = begun + 1
    /\ UNCHANGED <<whole, mem, row, heap, pageMem, pageRow>>

\* The copy that goes on to be repaired.
Hold(p, src, cover, dates, o) ==
    call' = [call EXCEPT ![p].pc = "cover", ![p].src = src, ![p].cover = cover,
                         ![p].dates = dates, ![p].obj = o]

GetMemory(p) ==
    LET i == call[p].id IN
    /\ At(p, "mem")
    /\ IF i \in DOMAIN mem THEN Hold(p, "mem", mem[i].cover, mem[i].dates, mem[i].obj)
       ELSE Goto(p, "row")
    /\ UNCHANGED <<whole, mem, row, heap, pageMem, pageRow>>

\* A failing query counts as a miss.
GetCatalogCache(p) ==
    LET i == call[p].id IN
    /\ At(p, "row")
    /\ \/ /\ i \in DOMAIN row
          /\ Hold(p, "row", row[i].cover, row[i].dates, New)
          /\ heap' = Store(heap, New, row[i].shared)
       \/ Goto(p, "fetch") /\ UNCHANGED heap
    /\ UNCHANGED <<whole, mem, row, pageMem, pageRow>>

ProviderCatalog(p) ==
    /\ At(p, "fetch")
    /\ \/ \E a \in Answers(call[p].id) :
             /\ Hold(p, "provider", a.cover, a.dates, New)
             /\ heap' = Store(heap, New, [rec |-> RecOf(call[p].id, a.rec), raw |-> TRUE])
       \/ MayFail /\ call' = [call EXCEPT ![p] = NoCall] /\ UNCHANGED heap
    /\ UNCHANGED <<whole, mem, row, pageMem, pageRow>>
---------------------------------------------------------------------------
(***************************************************************************)
(* Repairs.                                                                *)
(***************************************************************************)
refreshPrimaryDetailCover(p) ==
    /\ At(p, "cover")
    /\ \/ call[p].cover # "own" /\ \E a \in Answers(call[p].id) :
             call' = [call EXCEPT ![p].pc = "dates", ![p].cover =
                         IF a.cover = "own" THEN "own" ELSE @]
       \/ (call[p].cover = "own" \/ MayFail) /\ Goto(p, "dates")
    /\ UNCHANGED <<whole, mem, row, heap, pageMem, pageRow>>

needsEpisodeReleaseRefresh(dates) == dates \in {"none", "some"}
hasEpisodeReleaseDates(dates) == dates \in {"some", "all"}

refreshEpisodeReleaseDates(p) ==
    LET needs == needsEpisodeReleaseRefresh(call[p].dates) IN
    /\ At(p, "dates")
    /\ \/ needs /\ \E a \in Answers(call[p].id) :
             call' = [call EXCEPT ![p].pc = "recs", ![p].dates =
                         IF hasEpisodeReleaseDates(a.dates) THEN a.dates ELSE @]
       \/ (~needs \/ MayFail) /\ Goto(p, "recs")
    /\ UNCHANGED <<whole, mem, row, heap, pageMem, pageRow>>

\* Variant that is content with any cover.
hydrateRecommendationCoversBlank(p) ==
    /\ At(p, "recs")
    /\ Goto(p, IF heap[call[p].obj].rec # "" THEN "norm" ELSE "relmem")
    /\ UNCHANGED <<whole, mem, row, heap, pageMem, pageRow>>

hydrateRecommendationCovers(p) ==
    /\ At(p, "recs")
    /\ Goto(p, IF heap[call[p].obj].rec \in {"-", "own"} THEN "norm" ELSE "relmem")
    /\ UNCHANGED <<whole, mem, row, heap, pageMem, pageRow>>

\* coverFromRelatedCatalog: memory, table and provider again, for the related
\* id; rel is the related detail.
Related(p) == Rec[call[p].id]
Relate(p, label, cover, dates, o) ==
    call' = [call EXCEPT ![p].pc = label,
                         ![p].rel = [cover |-> cover, dates |-> dates, obj |-> o]]

RelatedMemory(p) ==
    LET i == Related(p) IN
    /\ At(p, "relmem")
    /\ IF i \in DOMAIN mem /\ mem[i].cover = "own" THEN Relate(p, "write", "own", "", 0)
       ELSE Goto(p, "relrow")
    /\ UNCHANGED <<whole, mem, row, heap, pageMem, pageRow>>

RelatedRow(p) ==
    LET i == Related(p) IN
    /\ At(p, "relrow")
    /\ \/ /\ i \in DOMAIN row /\ row[i].cover = "own"
          /\ Relate(p, "relfill", "own", row[i].dates, New)
          /\ heap' = Store(heap, New, row[i].shared)
       \/ Goto(p, "relfetch") /\ UNCHANGED heap
    /\ UNCHANGED <<whole, mem, row, pageMem, pageRow>>

\* The provider's detail is normalized before it is shared.
RelatedCatalog(p) ==
    /\ At(p, "relfetch")
    /\ \/ \E a \in Answers(Related(p)) :
             /\ a.cover # ""
             /\ Relate(p, "relset", a.cover, a.dates, New)
             /\ heap' = Store(heap, New, [rec |-> RecOf(Related(p), a.rec), raw |-> FALSE])
       \/ MayFail /\ Goto(p, "search") /\ UNCHANGED heap
    /\ UNCHANGED <<whole, mem, row, pageMem, pageRow>>

\* findRecommendationCover's second source takes any cover, or finds none.
Search(p) ==
    /\ At(p, "search")
    /\ \E cover \in Cover :
          IF cover = "" THEN Goto(p, "norm") ELSE Relate(p, "write", cover, "", 0)
    /\ UNCHANGED <<whole, mem, row, heap, pageMem, pageRow>>

RelatedSet(p) ==
    /\ At(p, "relfill") \/ At(p, "relset")
    /\ mem' = Store(mem, Related(p), call[p].rel)
    /\ Goto(p, IF At(p, "relset") THEN "relput" ELSE "write")
    /\ Collect(heap)
    /\ UNCHANGED <<whole, row, pageMem, pageRow>>

Stored(cover, dates, o) == [cover |-> cover, dates |-> dates, shared |-> heap[o]]

RelatedUpsert(p) ==
    LET r == call[p].rel IN
    /\ At(p, "relput")
    /\ row' \in {row, Store(row, Related(p), Stored(r.cover, r.dates, r.obj))}
    /\ Goto(p, "write")
    /\ UNCHANGED <<whole, mem, heap, pageMem, pageRow>>

\* The cover is written to the slice all copies of the detail share.
WriteCover(p) ==
    /\ At(p, "write")
    /\ call' = [call EXCEPT ![p].pc = "norm", ![p].rel = NoRel]
    /\ UNCHANGED <<whole, mem, row, pageMem, pageRow>>
    /\ Collect([heap EXCEPT ![call[p].obj].rec = call[p].rel.cover])

normalizeDetail(p) ==
    /\ At(p, "norm")
    /\ heap' = [heap EXCEPT ![call[p].obj].raw = FALSE]
    /\ Goto(p, "set")
    /\ UNCHANGED <<whole, mem, row, pageMem, pageRow>>

\* What came from memory goes back there only.
SetMemory(p) ==
    LET c == call[p] IN
    /\ At(p, "set")
    /\ mem' = Store(mem, c.id, [cover |-> c.cover, dates |-> c.dates, obj |-> c.obj])
    /\ Goto(p, IF c.src = "mem" THEN "reply" ELSE "put")
    /\ Collect(heap)
    /\ UNCHANGED <<whole, row, pageMem, pageRow>>

UpsertCatalogCache(p) ==
    LET c == call[p] IN
    /\ At(p, "put")
    /\ row' \in {row, Store(row, c.id, Stored(c.cover, c.dates, c.obj))}
    /\ Goto(p, "reply")
    /\ UNCHANGED <<whole, mem, heap, pageMem, pageRow>>

\* The response is written: of a detail, or of a page.
Returned(p) ==
    /\ At(p, "reply") \/ At(p, "page")
    /\ call' = [call EXCEPT ![p] = NoCall]
    /\ UNCHANGED <<whole, mem, row, pageMem, pageRow>>
    /\ Collect(heap)
---------------------------------------------------------------------------
(***************************************************************************)
(* Pages.  normalizeAnimeCards blanks the labels that are scores.          *)
(***************************************************************************)
\* Variant that leaves the labels alone.
normalizedNot(k, raw) == raw

normalized(k, raw) == raw /\ k \in RawPage

ReadPage(p, k) ==
    /\ At(p, "none") /\ begun < MaxCalls
    /\ call' = [call EXCEPT ![p] = [NoCall EXCEPT !.pc = "pmem", !.id = k, !.late = TRUE]]
    /\ begun' = begun + 1
    /\ UNCHANGED <<whole, mem, row, heap, pageMem, pageRow>>

GotPage(p, label, raw) == call' = [call EXCEPT ![p].pc = label, ![p].raw = raw]

PageMemory(p) ==
    LET k == call[p].id IN
    /\ At(p, "pmem")
    /\ IF k \in DOMAIN pageMem THEN GotPage(p, "page", normalized(k, pageMem[k]))
       ELSE Goto(p, IF k \in MemoryPage THEN "pfetch" ELSE "prow")
    /\ UNCHANGED <<whole, mem, row, heap, pageMem, pageRow>>

GetDiscoveryCache(p) ==
    LET k == call[p].id IN
    /\ At(p, "prow")
    /\ \/ k \in DOMAIN pageRow /\ GotPage(p, "pfill", normalized(k, pageRow[k]))
       \/ Goto(p, "pfetch")
    /\ UNCHANGED <<whole, mem, row, heap, pageMem, pageRow>>

FetchPage(p) ==
    /\ At(p, "pfetch")
    /\ \/ \E raw \in BOOLEAN : GotPage(p, "pset", normalized(call[p].id, raw))
       \/ MayFail /\ call' = [call EXCEPT ![p] = NoCall]
    /\ UNCHANGED <<whole, mem, row, heap, pageMem, pageRow>>

SetPage(p) ==
    LET k == call[p].id IN
    /\ At(p, "pfill") \/ At(p, "pset")
    /\ pageMem' = Store(pageMem, k, call[p].raw)
    /\ Goto(p, IF At(p, "pset") /\ k \notin MemoryPage THEN "pput" ELSE "page")
    /\ UNCHANGED <<whole, mem, row, heap, pageRow>>

UpsertDiscoveryCache(p) ==
    /\ At(p, "pput")
    /\ pageRow' \in {pageRow, Store(pageRow, call[p].id, call[p].raw)}
    /\ Goto(p, "page")
    /\ UNCHANGED <<whole, mem, row, heap, pageMem>>
---------------------------------------------------------------------------
\* The memory cache's time to live, prolonged by every hit, ends.
Expire ==
    /\ \/ \E i \in DOMAIN mem : mem' = Without(mem, i) /\ UNCHANGED pageMem
       \/ \E k \in DOMAIN pageMem : pageMem' = Without(pageMem, k) /\ UNCHANGED mem
    /\ UNCHANGED <<whole, row, pageRow, call, begun>>
    /\ Collect(heap)

Restart ==
    /\ mem' = << >> /\ pageMem' = << >> /\ heap' = << >>
    /\ call' = [p \in Caller |-> NoCall]
    /\ UNCHANGED <<whole, row, pageRow, begun>>

\* From here on the provider answers, and with whole details.
ProviderRecovers ==
    /\ ~whole /\ whole' = TRUE
    /\ UNCHANGED <<mem, row, heap, pageMem, pageRow, call, begun>>

DetailStep(p) ==
    \/ GetMemory(p) \/ GetCatalogCache(p) \/ ProviderCatalog(p)
    \/ refreshPrimaryDetailCover(p) \/ refreshEpisodeReleaseDates(p)
    \/ hydrateRecommendationCovers(p) \/ RelatedMemory(p) \/ RelatedRow(p)
    \/ RelatedCatalog(p) \/ Search(p) \/ RelatedSet(p) \/ RelatedUpsert(p)
    \/ WriteCover(p) \/ normalizeDetail(p) \/ SetMemory(p) \/ UpsertCatalogCache(p)
PageStep(p) ==
    \/ PageMemory(p) \/ GetDiscoveryCache(p) \/ FetchPage(p) \/ SetPage(p)
    \/ UpsertDiscoveryCache(p)
CallStep(p) == (DetailStep(p) \/ PageStep(p) \/ Returned(p)) /\ UNCHANGED begun

Next ==
    \/ \E p \in Caller :
          (\E i \in Asked : Catalog(p, i)) \/ (\E k \in Page : ReadPage(p, k)) \/ CallStep(p)
    \/ Expire \/ Restart \/ ProviderRecovers

Spec == Init /\ [][Next]_vars
---------------------------------------------------------------------------
DetailLabels == {"mem", "row", "fetch", "cover", "dates", "recs", "relmem", "relrow",
                 "relfill", "relfetch", "search", "relset", "relput", "write", "norm",
                 "set", "put", "reply"}
PageLabels == {"pmem", "prow", "pfetch", "pfill", "pset", "pput", "page"}

\* The detail a call holds, from its first copy on.
Holds(p) == call[p].pc \in DetailLabels \ {"mem", "row", "fetch"}

\* Every variable has its type, and no detail outlives its object.
TypeOK ==
    /\ whole \in BOOLEAN
    /\ DOMAIN mem \subseteq Id /\ DOMAIN row \subseteq Id
    /\ \A i \in DOMAIN mem : mem[i].cover \in Cover /\ mem[i].obj \in DOMAIN heap
    /\ \A i \in DOMAIN row : row[i].cover \in Cover /\ ~row[i].shared.raw
    /\ \A k \in DOMAIN pageMem : pageMem[k] => k \in RawPage
    /\ DOMAIN pageMem \subseteq Page /\ DOMAIN pageRow \subseteq Page \ MemoryPage
    /\ \A p \in Caller :
          /\ call[p].pc \in {"none"} \cup DetailLabels \cup PageLabels
          /\ call[p].pc \in DetailLabels => call[p].id \in Id
          /\ call[p].pc \in PageLabels => call[p].id \in Page
          /\ call[p].raw => call[p].id \in RawPage
          /\ Holds(p) => call[p].obj \in DOMAIN heap
          /\ call[p].pc \in {"relfill", "relset", "relput"} => call[p].rel.obj \in DOMAIN heap

\* A detail is served normalized; one that is asked for after the provider
\* has recovered, and after the calls of before have ended, is served with
\* covers of its own and all release dates, whatever the caches hold and
\* whoever else writes to the recommendations they share.
ServedWhole ==
    \A p \in Caller : At(p, "reply") =>
        /\ ~heap[call[p].obj].raw
        /\ call[p].late => /\ call[p].cover = "own" /\ call[p].dates \in {"all", "empty"}
                           /\ heap[call[p].obj].rec \in {"-", "own"}

\* Whenever the provider is asked for a detail, the walk over its episode
\* pages misses nothing it could have read: on every site, with a limit that
\* is reached and with one that is not.
EpisodesFound == (\E p \in Caller : At(p, "fetch")) => EverySiteWalked
===========================================================================
