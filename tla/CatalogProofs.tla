--------------------------- MODULE CatalogProofs ---------------------------
(***************************************************************************)
(* The catalog service, for any number of callers, ids and pages: what is  *)
(* served after the provider has recovered is whole, although the callers  *)
(* share and change the details in memory; and the walk over the episode   *)
(* pages, on every site, misses nothing it could have read.                *)
(***************************************************************************)
EXTENDS CatalogService, OrderProofs

ObjectT == [rec : Cover \cup {"-"}, raw : BOOLEAN]
DetailT == [cover : Cover, dates : Dates \cup {""}, obj : Nat]
RowT == [cover : Cover, dates : Dates, shared : ObjectT]
CallT == [pc : {"none"} \cup DetailLabels \cup PageLabels, id : Id \cup Page \cup {NoId},
          src : {"", "mem", "row", "provider"}, cover : Cover, dates : Dates \cup {""},
          obj : Nat, rel : DetailT, raw : BOOLEAN, late : BOOLEAN]
Types ==
    /\ whole \in BOOLEAN
    /\ call \in [Caller -> CallT]
HeapOk ==
    /\ IsFiniteSet(DOMAIN heap) /\ DOMAIN heap \subseteq Nat \ {0}
    /\ \A o \in DOMAIN heap : heap[o] \in ObjectT

\* The dates a detail of i can have, and whether a shared part can be i's.
DatesOf(i) == {a.dates : a \in Partial[i] \cup Whole[i]}
PartOf(i, part) == part.rec = "-" <=> Rec[i] = NoId
DetailOk(i, dates, o) == dates \in DatesOf(i) /\ o \in DOMAIN heap /\ PartOf(i, heap[o])

MemOk ==
    \A i \in DOMAIN mem : i \in Id /\ mem[i] \in DetailT /\ DetailOk(i, mem[i].dates, mem[i].obj)
RowOk ==
    \A i \in DOMAIN row : /\ i \in Id /\ row[i] \in RowT /\ row[i].dates \in DatesOf(i)
                          /\ ~row[i].shared.raw /\ PartOf(i, row[i].shared)
PagesOk ==
    /\ \A k \in DOMAIN pageMem : k \in Page /\ pageMem[k] \in BOOLEAN /\ (pageMem[k] => k \in RawPage)
    /\ \A k \in DOMAIN pageRow : k \in Page \ MemoryPage /\ pageRow[k] \in BOOLEAN

RelLabels == {"relmem", "relrow", "relfill", "relfetch", "search", "relset", "relput", "write"}
RelHeld == {"relfill", "relset", "relput"}
Normal == {"set", "put", "reply"}
Held == DetailLabels \ {"mem", "row", "fetch"}

\* What a call knows at each of its steps.
CallOk(p) ==
    /\ call[p].pc \in DetailLabels => call[p].id \in Id
    /\ call[p].pc \in Held => DetailOk(call[p].id, call[p].dates, call[p].obj)
    /\ call[p].pc \in RelLabels => Rec[call[p].id] # NoId
    /\ call[p].pc \in RelHeld =>
          /\ DetailOk(Rec[call[p].id], call[p].rel.dates, call[p].rel.obj)
          /\ ~heap[call[p].rel.obj].raw
    /\ call[p].pc \in Normal => ~heap[call[p].obj].raw
    /\ call[p].pc \in PageLabels => call[p].id \in Page
    /\ call[p].pc = "pput" => call[p].id \notin MemoryPage
    /\ call[p].raw => call[p].id \in RawPage

\* Is the call one for a detail that must be served whole?
Late(p) == call[p].pc \in DetailLabels /\ call[p].late
LateOk(p) ==
    Late(p) =>
      /\ whole /\ call[p].pc # "search"
      /\ call[p].pc \in Held \ {"cover"} => call[p].cover = "own"
      /\ call[p].pc \in Held \ {"cover", "dates"} => call[p].dates \in {"all", "empty"}
      /\ call[p].pc \in RelHeld \cup {"write"} => call[p].rel.cover = "own"
      /\ call[p].pc \in Normal \cup {"norm"} => heap[call[p].obj].rec \in {"-", "own"}
CallsOk == \A p \in Caller : CallOk(p) /\ LateOk(p)

\* Beside a late call there are late calls only.
AllLate == \A p, q \in Caller : Late(p) => call[q].pc = "none" \/ call[q].late

Inv == Types /\ HeapOk /\ MemOk /\ RowOk /\ PagesOk /\ CallsOk /\ AllLate
---------------------------------------------------------------------------
LEMMA CallTyped ==
    ASSUME Inv, NEW p \in Caller
    PROVE  /\ call[p] \in CallT /\ CallOk(p) /\ LateOk(p)
           /\ call[p].pc \in {"none"} \cup DetailLabels \cup PageLabels
           /\ call[p].cover \in Cover /\ call[p].dates \in Dates \cup {""} /\ call[p].obj \in Nat
           /\ call[p].rel \in DetailT /\ call[p].raw \in BOOLEAN /\ call[p].late \in BOOLEAN
<1>1. call[p] \in CallT /\ CallOk(p) /\ LateOk(p)
  BY DEF Inv, Types, CallsOk
<1> QED
  BY <1>1 DEF CallT

LEMMA NoCallTyped ==
    /\ NoRel \in DetailT /\ NoCall \in CallT /\ NoCall.pc = "none" /\ NoCall.id = NoId
    /\ NoCall.raw = FALSE /\ NoCall.rel = NoRel /\ NoCall.obj = 0
<1>1. NoRel \in DetailT
  BY DEF NoRel, DetailT, Cover
<1> QED
  BY <1>1 DEF NoCall, CallT, Cover

LEMMA AnswerTyped ==
    ASSUME NEW i \in Id, NEW a \in Answers(i), whole \in BOOLEAN
    PROVE  /\ a.cover \in Cover /\ a.dates \in Dates /\ a.rec \in Cover
           /\ a.dates \in DatesOf(i)
           /\ whole => a.cover = "own" /\ a.dates \in {"all", "empty"}
           /\ whole /\ a.dates = "empty" => \A d \in DatesOf(i) : d \in {"all", "empty"}
<1>1. a \in Partial[i] \cup Whole[i] /\ (whole => a \in Whole[i])
  BY DEF Answers
<1>2. a.cover \in Cover /\ a.dates \in Dates /\ a.rec \in Cover
  BY <1>1, DetailAssumption
<1>3. a.dates \in DatesOf(i)
  BY <1>1 DEF DatesOf
<1>4. whole => a.cover = "own" /\ a.dates \in {"all", "empty"}
  BY <1>1, WholeAssumption
<1>5. ASSUME whole, a.dates = "empty", NEW d \in DatesOf(i) PROVE d \in {"all", "empty"}
  <2>1. PICK b \in Partial[i] \cup Whole[i] : d = b.dates
    BY <1>5 DEF DatesOf
  <2> QED
    BY <1>1, <1>5, <2>1, WholeAssumption
<1> QED
  BY <1>2, <1>3, <1>4, <1>5

LEMMA DatesTyped == ASSUME NEW i \in Id PROVE DatesOf(i) \subseteq Dates
BY DetailAssumption DEF DatesOf

LEMMA RelatedTyped ==
    ASSUME Inv, NEW p \in Caller, call[p].pc \in RelLabels
    PROVE  call[p].id \in Id /\ Related(p) \in Id /\ Related(p) = Rec[call[p].id]
<1>1. call[p].id \in Id /\ Rec[call[p].id] # NoId
  BY CallTyped DEF CallOk, RelLabels, DetailLabels
<1> QED
  BY <1>1, IdAssumption DEF Related

\* New is an object that does not exist yet.
LEMMA NewIsNew == ASSUME HeapOk PROVE New \in Nat \ {0} /\ New \notin DOMAIN heap
<1> DEFINE n == Cardinality(DOMAIN heap)
<1>1. IsFiniteSet(DOMAIN heap) /\ n \in Nat
  BY FS_CardinalityType DEF HeapOk
<1>2. Cardinality(1..(1 + n)) = n + 1
  <2>1. Cardinality(1..(1 + n)) = IF 1 > 1 + n THEN 0 ELSE (1 + n) - 1 + 1
    BY <1>1, FS_Interval
  <2> HIDE DEF n
  <2> QED
    BY <1>1, <2>1
<1>3. ~(1..(1 + n) \subseteq DOMAIN heap)
  <2>1. SUFFICES ASSUME 1..(1 + n) \in SUBSET DOMAIN heap PROVE FALSE
    OBVIOUS
  <2>2. Cardinality(1..(1 + n)) <= n
    BY <1>1, <2>1, FS_Subset
  <2> QED
    BY <1>1, <1>2, <2>2
<1>4. New \in 1..(1 + n) /\ New \notin DOMAIN heap
  BY <1>3 DEF New
<1> HIDE DEF n
<1> QED
  BY <1>1, <1>4
---------------------------------------------------------------------------
(***************************************************************************)
(* The heap.  A step carries an object that is still referred to: its      *)
(* recommendation does not come or go, and it does not become raw again.   *)
(***************************************************************************)
Carries(o) ==
    /\ o \in DOMAIN heap'
    /\ heap'[o].rec = "-" <=> heap[o].rec = "-"
    /\ heap'[o].raw => heap[o].raw
Carried == \A o \in DOMAIN heap : o \in Live(mem', call') => Carries(o)
OwnStays(o) == heap[o].rec \in {"-", "own"} => heap'[o].rec \in {"-", "own"}
OwnStay == \A o \in DOMAIN heap : o \in Live(mem', call') => OwnStays(o)

LEMMA CallCarried ==
    ASSUME Inv, NEW q \in Caller, call'[q] = call[q], whole => whole', Carried,
           Late(q) => OwnStay
    PROVE  CallOk(q)' /\ LateOk(q)'
<1>1. CallOk(q) /\ LateOk(q)
  BY CallTyped
<1>2. call[q].obj \in Live(mem', call') /\ call[q].rel.obj \in Live(mem', call')
  BY DEF Live
<1>3. ASSUME NEW o \in DOMAIN heap, o \in {call[q].obj, call[q].rel.obj}
      PROVE  Carries(o) /\ (Late(q) => OwnStays(o))
  BY <1>2, <1>3 DEF Carried, OwnStay
<1>4. CallOk(q)'
  BY <1>1, <1>3 DEF CallOk, DetailOk, PartOf, Carries, Held, Normal, DetailLabels
<1>5. LateOk(q)'
  BY <1>1, <1>3 DEF CallOk, LateOk, Late, DetailOk, OwnStays, Held, Normal, DetailLabels
<1> QED
  BY <1>4, <1>5

LEMMA MemCarried ==
    ASSUME Inv, Carried, NEW i \in DOMAIN mem, i \in DOMAIN mem', mem'[i] = mem[i]
    PROVE  i \in Id /\ mem'[i] \in DetailT /\ DetailOk(i, mem[i].dates, mem[i].obj)'
<1>1. i \in Id /\ mem[i] \in DetailT /\ DetailOk(i, mem[i].dates, mem[i].obj)
  BY DEF Inv, MemOk
<1>2. mem[i].obj \in Live(mem', call')
  BY DEF Live
<1>3. Carries(mem[i].obj)
  BY <1>1, <1>2 DEF Carried, DetailOk
<1> QED
  BY <1>1, <1>3 DEF DetailOk, PartOf, Carries

\* A step that leaves the objects alone, or makes a new one.
LEMMA HeapSame ==
    ASSUME Inv, UNCHANGED heap PROVE HeapOk' /\ Carried /\ OwnStay
BY DEF Inv, HeapOk, Carried, Carries, OwnStay, OwnStays

LEMMA HeapNew ==
    ASSUME Inv, NEW part \in ObjectT, heap' = Store(heap, New, part)
    PROVE  /\ HeapOk' /\ Carried /\ OwnStay
           /\ New \in Nat \ {0} /\ New \in DOMAIN heap' /\ heap'[New] = part
<1>1. New \in Nat \ {0} /\ New \notin DOMAIN heap
  BY NewIsNew DEF Inv
<1> DEFINE n == New
<1> HIDE DEF n
<1>2. n \in Nat \ {0} /\ n \notin DOMAIN heap /\ heap' = Store(heap, n, part)
  BY <1>1 DEF n
<1>3. DOMAIN heap' = DOMAIN heap \cup {n} /\ heap'[n] = part
      /\ \A o \in DOMAIN heap : heap'[o] = heap[o]
  BY <1>2 DEF Store
<1>4. IsFiniteSet(DOMAIN heap')
  BY <1>3, FS_AddElement DEF Inv, HeapOk
<1>5. HeapOk'
  BY <1>2, <1>3, <1>4 DEF Inv, HeapOk
<1>6. Carried /\ OwnStay
  BY <1>3 DEF Carried, Carries, OwnStay, OwnStays
<1> QED
  BY <1>1, <1>3, <1>5, <1>6 DEF n

\* The collector takes what nothing refers to.
LEMMA HeapCollected ==
    ASSUME Inv, NEW h, DOMAIN h = DOMAIN heap, Collect(h),
           \A o \in DOMAIN heap : /\ h[o] \in ObjectT /\ (h[o].raw => heap[o].raw)
                                  /\ h[o].rec = "-" <=> heap[o].rec = "-"
    PROVE  /\ HeapOk' /\ Carried
           /\ \A o \in DOMAIN heap : o \in Live(mem', call') => o \in DOMAIN heap' /\ heap'[o] = h[o]
<1>1. DOMAIN heap' = DOMAIN heap \cap Live(mem', call')
      /\ \A o \in DOMAIN heap' : heap'[o] = h[o]
  BY DEF Collect
<1>2. IsFiniteSet(DOMAIN heap')
  BY <1>1, FS_Subset DEF Inv, HeapOk
<1>3. HeapOk'
  BY <1>1, <1>2 DEF Inv, HeapOk
<1> QED
  BY <1>1, <1>3 DEF Carried, Carries

LEMMA HeapOnlyCollected ==
    ASSUME Inv, Collect(heap)
    PROVE  /\ HeapOk' /\ Carried /\ OwnStay
           /\ \A o \in DOMAIN heap : o \in Live(mem', call') => o \in DOMAIN heap' /\ heap'[o] = heap[o]
<1>1. /\ HeapOk' /\ Carried
      /\ \A o \in DOMAIN heap : o \in Live(mem', call') => o \in DOMAIN heap' /\ heap'[o] = heap[o]
  BY HeapCollected DEF Inv, HeapOk
<1> QED
  BY <1>1 DEF OwnStay, OwnStays
---------------------------------------------------------------------------
(***************************************************************************)
(* A step of one call.                                                     *)
(***************************************************************************)
Turn(p, c) ==
    call' \in [Caller -> CallT] /\ call'[p] = c /\ \A q \in Caller \ {p} : call'[q] = call[q]

\* The call goes on or ends, and does not become late.
GoesOn(p) ==
    call'[p].pc = "none"
    \/ /\ call[p].pc # "none" /\ call'[p].late = call[p].late
       /\ call'[p].pc \in DetailLabels => call[p].pc \in DetailLabels

LEMMA MemSame == ASSUME Inv, Carried, UNCHANGED mem PROVE MemOk'
<1> SUFFICES ASSUME NEW i \in DOMAIN mem'
             PROVE  i \in Id /\ mem'[i] \in DetailT /\ DetailOk(i, mem[i].dates, mem[i].obj)'
  BY DEF MemOk
<1> QED
  BY MemCarried

LEMMA RowSame == ASSUME Inv, UNCHANGED row PROVE RowOk'
BY DEF Inv, RowOk, PartOf

LEMMA PagesSame == ASSUME Inv, UNCHANGED <<pageMem, pageRow>> PROVE PagesOk'
BY DEF Inv, PagesOk

LEMMA CallerStep ==
    ASSUME Inv, NEW p \in Caller, NEW c, Turn(p, c), UNCHANGED whole, HeapOk', Carried,
           \A q \in Caller \ {p} : Late(q) => OwnStay,
           MemOk', RowOk', PagesOk', CallOk(p)', LateOk(p)', GoesOn(p)
    PROVE  Inv'
<1>1. Types'
  BY DEF Inv, Types, Turn
<1>2. \A q \in Caller \ {p} : call'[q] = call[q]
  BY DEF Turn
<1>3. CallsOk'
  <2> SUFFICES ASSUME NEW q \in Caller, q # p PROVE CallOk(q)' /\ LateOk(q)'
    BY DEF CallsOk
  <2> QED
    BY <1>2, CallCarried
<1>4. AllLate'
  <2> SUFFICES ASSUME NEW x \in Caller, NEW y \in Caller, Late(x)'
               PROVE  call'[y].pc = "none" \/ call'[y].late
    BY DEF AllLate
  <2>1. "none" \notin DetailLabels
    BY DEF DetailLabels
  <2>2. Late(x)
    BY <1>2, <2>1 DEF GoesOn, Late
  <2>3. call[y].pc = "none" \/ call[y].late
    BY <2>2 DEF Inv, AllLate
  <2> QED
    BY <1>2, <2>3 DEF GoesOn
<1> QED
  BY <1>1, <1>3, <1>4 DEF Inv

\* A step that leaves the caches alone.
LEMMA CallerStepPlain ==
    ASSUME Inv, NEW p \in Caller, NEW c, Turn(p, c), HeapOk', Carried, OwnStay,
           UNCHANGED <<whole, mem, row, pageMem, pageRow>>,
           CallOk(p)', LateOk(p)', GoesOn(p)
    PROVE  Inv'
BY CallerStep, MemSame, RowSame, PagesSame

LEMMA GotoTurns ==
    ASSUME Inv, NEW p \in Caller, NEW label \in {"none"} \cup DetailLabels \cup PageLabels,
           Goto(p, label)
    PROVE  /\ \E c : Turn(p, c)
           /\ call'[p].pc = label /\ call'[p].id = call[p].id /\ call'[p].src = call[p].src
           /\ call'[p].cover = call[p].cover /\ call'[p].dates = call[p].dates
           /\ call'[p].obj = call[p].obj /\ call'[p].rel = call[p].rel
           /\ call'[p].raw = call[p].raw /\ call'[p].late = call[p].late
<1> DEFINE c == [call[p] EXCEPT !.pc = label]
<1>1. call \in [Caller -> CallT] /\ call[p] \in CallT /\ call' = [call EXCEPT ![p].pc = label]
  BY CallTyped DEF Inv, Types, Goto
<1>2. /\ c \in CallT /\ c.pc = label /\ c.id = call[p].id /\ c.src = call[p].src
      /\ c.cover = call[p].cover /\ c.dates = call[p].dates
      /\ c.obj = call[p].obj /\ c.rel = call[p].rel /\ c.raw = call[p].raw
      /\ c.late = call[p].late
  BY <1>1 DEF CallT
<1>3. call' = [call EXCEPT ![p] = c]
  BY <1>1
<1> HIDE DEF c
<1>4. Turn(p, c)
  BY <1>1, <1>2, <1>3 DEF Turn
<1>5. call'[p] = c
  BY <1>4 DEF Turn
<1> QED
  BY <1>2, <1>4, <1>5

LEMMA GotPageTurns ==
    ASSUME Inv, NEW p \in Caller, NEW label \in PageLabels, NEW raw \in BOOLEAN,
           GotPage(p, label, raw)
    PROVE  /\ \E c : Turn(p, c)
           /\ call'[p].pc = label /\ call'[p].id = call[p].id
           /\ call'[p].raw = raw /\ call'[p].late = call[p].late
<1> DEFINE c == [call[p] EXCEPT !.pc = label, !.raw = raw]
<1>1. call \in [Caller -> CallT] /\ call[p] \in CallT
      /\ call' = [call EXCEPT ![p].pc = label, ![p].raw = raw]
  BY CallTyped DEF Inv, Types, GotPage
<1>2. /\ c \in CallT /\ c.pc = label /\ c.id = call[p].id /\ c.raw = raw
      /\ c.late = call[p].late
  BY <1>1 DEF CallT
<1>3. call'[p] = c /\ DOMAIN call' = Caller /\ call' = [q \in Caller |-> call'[q]]
      /\ \A q \in Caller \ {p} : call'[q] = call[q]
  BY <1>1
<1> HIDE DEF c
<1>4. call' \in [Caller -> CallT]
  BY <1>1, <1>2, <1>3
<1> QED
  BY <1>2, <1>3, <1>4 DEF Turn

\* The call ends.
LEMMA EndTurns ==
    ASSUME Inv, NEW p \in Caller, call' = [call EXCEPT ![p] = NoCall]
    PROVE  Turn(p, NoCall) /\ call'[p] = NoCall /\ CallOk(p)' /\ LateOk(p)' /\ GoesOn(p)
<1>1. Turn(p, NoCall) /\ call'[p] = NoCall
  BY NoCallTyped DEF Inv, Types, Turn
<1>2. CallOk(p)' /\ LateOk(p)' /\ GoesOn(p)
  BY <1>1, NoCallTyped DEF CallOk, LateOk, Late, GoesOn, DetailLabels, PageLabels, Held, RelLabels,
     RelHeld, Normal
<1> QED
  BY <1>1, <1>2
---------------------------------------------------------------------------
(***************************************************************************)
(* One lemma per action.                                                   *)
(***************************************************************************)
\* A call begins.  If it begins beside a late call, it is late itself.
LEMMA CallBegins ==
    ASSUME Inv, NEW p \in Caller, NEW label \in {"mem", "pmem"}, NEW i, NEW late \in BOOLEAN,
           label = "mem" => i \in Id, label = "pmem" => i \in Page,
           call' = [call EXCEPT ![p] = [NoCall EXCEPT !.pc = label, !.id = i, !.late = late]],
           label = "mem" /\ late => whole /\ \A q \in Caller : call[q].pc = "none" \/ call[q].late,
           ~late => ~(whole /\ \A q \in Caller : call[q].pc = "none" \/ call[q].late),
           At(p, "none"),
           UNCHANGED <<whole, mem, row, heap, pageMem, pageRow>>
    PROVE  Inv'
<1> DEFINE c == [NoCall EXCEPT !.pc = label, !.id = i, !.late = late]
<1>1. c \in CallT /\ c.pc = label /\ c.id = i /\ c.late = late /\ c.raw = FALSE
  <2>1. NoCall \in CallT /\ NoCall.raw = FALSE
    BY NoCallTyped
  <2> QED
    BY <2>1 DEF CallT, DetailLabels, PageLabels
<1>2. call' = [call EXCEPT ![p] = c]
  OBVIOUS
<1> HIDE DEF c
<1>3. call \in [Caller -> CallT]
  BY DEF Inv, Types
<1>4. /\ call' \in [Caller -> CallT] /\ call'[p] = c
      /\ \A q \in Caller \ {p} : call'[q] = call[q]
  BY <1>1, <1>2, <1>3
<1>5. HeapOk' /\ Carried /\ OwnStay
  BY HeapSame
<1>6. MemOk' /\ RowOk' /\ PagesOk'
  BY <1>5, MemSame, RowSame, PagesSame
<1>7. CallOk(p)' /\ LateOk(p)'
  BY <1>1, <1>4 DEF CallOk, LateOk, Late, DetailLabels, PageLabels, Held, RelLabels, RelHeld, Normal
<1>8. CallsOk'
  <2> SUFFICES ASSUME NEW q \in Caller, q # p PROVE CallOk(q)' /\ LateOk(q)'
    BY <1>7 DEF CallsOk
  <2> QED
    BY <1>4, <1>5, CallCarried
<1>9. AllLate'
  <2> SUFFICES ASSUME NEW x \in Caller, NEW y \in Caller, Late(x)'
               PROVE  call'[y].pc = "none" \/ call'[y].late
    BY DEF AllLate
  <2>1. "pmem" \notin DetailLabels
    BY DEF DetailLabels
  <2>2. whole /\ \A q \in Caller : call[q].pc = "none" \/ call[q].late
    <3>1. CASE x = p
      BY <1>1, <1>4, <2>1, <3>1 DEF Late
    <3>2. CASE x # p
      <4>1. Late(x)
        BY <1>4, <3>2 DEF Late
      <4>2. whole
        BY <4>1, CallTyped DEF LateOk
      <4> QED
        BY <4>1, <4>2 DEF Inv, AllLate
    <3> QED
      BY <3>1, <3>2
  <2> QED
    BY <1>1, <1>4, <2>2
<1> QED
  BY <1>4, <1>5, <1>6, <1>8, <1>9 DEF Inv, Types

LEMMA CatalogStep == ASSUME Inv, NEW p \in Caller, NEW i \in Asked, Catalog(p, i) PROVE Inv'
<1> DEFINE late == whole /\ \A q \in Caller : At(q, "none") \/ call[q].late
<1>1. i \in Id
  BY IdAssumption
<1>2. late <=> whole /\ \A q \in Caller : call[q].pc = "none" \/ call[q].late
  BY DEF At
<1>3. /\ call' = [call EXCEPT ![p] = [NoCall EXCEPT !.pc = "mem", !.id = i, !.late = late]]
      /\ At(p, "none") /\ UNCHANGED <<whole, mem, row, heap, pageMem, pageRow>>
  BY DEF Catalog
<1>4. late \in BOOLEAN
  <2>1. whole \in BOOLEAN
    BY DEF Inv, Types
  <2> QED
    BY <2>1
<1> HIDE DEF late
<1> QED
  BY <1>1, <1>2, <1>3, <1>4, CallBegins

LEMMA ReadPageStep == ASSUME Inv, NEW p \in Caller, NEW k \in Page, ReadPage(p, k) PROVE Inv'
<1>1. /\ call' = [call EXCEPT ![p] = [NoCall EXCEPT !.pc = "pmem", !.id = k, !.late = TRUE]]
      /\ At(p, "none") /\ UNCHANGED <<whole, mem, row, heap, pageMem, pageRow>>
  BY DEF ReadPage
<1> QED
  BY <1>1, CallBegins

\* A call that leaves caches and heap alone and only moves on.
LEMMA GotoStep ==
    ASSUME Inv, NEW p \in Caller, NEW label, Goto(p, label), call[p].pc # "none",
           \/ call[p].pc \in DetailLabels /\ label \in DetailLabels
           \/ call[p].pc \in PageLabels /\ label \in PageLabels \ {"pput"},
           label \in Held => call[p].pc \in Held,
           label \in RelLabels => Rec[call[p].id] # NoId,
           label \notin RelHeld \cup {"set", "put", "reply", "write"},
           Late(p) => /\ label # "search"
                      /\ label \in Held \ {"cover"} => call[p].cover = "own"
                      /\ label \in Held \ {"cover", "dates"} => call[p].dates \in {"all", "empty"}
                      /\ label = "norm" => heap[call[p].obj].rec \in {"-", "own"},
           UNCHANGED <<whole, mem, row, heap, pageMem, pageRow>>
    PROVE  Inv'
<1>1. CallOk(p) /\ LateOk(p)
  BY CallTyped
<1>2. PICK c : Turn(p, c)
  BY GotoTurns
<1>3. /\ call'[p].pc = label /\ call'[p].id = call[p].id
      /\ call'[p].cover = call[p].cover /\ call'[p].dates = call[p].dates
      /\ call'[p].obj = call[p].obj /\ call'[p].rel = call[p].rel
      /\ call'[p].raw = call[p].raw /\ call'[p].late = call[p].late
  BY GotoTurns
<1>4. HeapOk' /\ Carried /\ OwnStay
  BY HeapSame
<1>5. "pput" \notin DetailLabels
  BY DEF DetailLabels
<1>6. CallOk(p)'
  BY <1>1, <1>3, <1>5 DEF CallOk, DetailOk, PartOf, DetailLabels, PageLabels, Held, RelLabels, RelHeld, Normal
<1>7. LateOk(p)'
  BY <1>1, <1>3 DEF LateOk, Late, DetailLabels, PageLabels, Held, RelHeld, Normal
<1>8. GoesOn(p)
  BY <1>3 DEF GoesOn, DetailLabels, PageLabels
<1> QED
  BY <1>2, <1>4, <1>6, <1>7, <1>8, CallerStepPlain

\* A call that takes hold of a detail.
LEMMA HoldStep ==
    ASSUME Inv, NEW p \in Caller, NEW src \in {"mem", "row", "provider"}, NEW cover \in Cover,
           NEW dates, NEW o, o \in Nat, Hold(p, src, cover, dates, o),
           call[p].pc \in {"mem", "row", "fetch"}, HeapOk', Carried, OwnStay,
           NEW i, i = call[p].id, DetailOk(i, dates, o)',
           UNCHANGED <<whole, mem, row, pageMem, pageRow>>
    PROVE  Inv'
<1>1. CallOk(p) /\ LateOk(p) /\ i \in Id
  BY CallTyped DEF CallOk, DetailLabels
<1>2. dates \in DatesOf(i) /\ dates \in Dates
  <2>1. dates \in DatesOf(i)
    BY DEF DetailOk, DatesOf
  <2> QED
    BY <1>1, <2>1, DatesTyped
<1> DEFINE c == [call[p] EXCEPT !.pc = "cover", !.src = src, !.cover = cover,
                               !.dates = dates, !.obj = o]
<1>3. /\ c \in CallT /\ c.pc = "cover" /\ c.id = call[p].id
      /\ c.dates = dates /\ c.obj = o /\ c.raw = call[p].raw /\ c.late = call[p].late
  <2>1. call[p] \in CallT
    BY CallTyped
  <2> QED
    BY <1>2, <2>1 DEF CallT, DetailLabels
<1>4. call'[p] = c /\ Turn(p, c)
  <2>1. call \in [Caller -> CallT]
        /\ call' = [call EXCEPT ![p].pc = "cover", ![p].src = src, ![p].cover = cover,
                                ![p].dates = dates, ![p].obj = o]
    BY DEF Inv, Types, Hold
  <2>2. call'[p] = c /\ DOMAIN call' = Caller /\ call' = [q \in Caller |-> call'[q]]
        /\ \A q \in Caller \ {p} : call'[q] = call[q]
    BY <2>1
  <2> HIDE DEF c
  <2>3. \A q \in Caller : call'[q] \in CallT
    BY <1>3, <2>2, CallTyped
  <2>4. call' \in [Caller -> CallT]
    BY <2>2, <2>3
  <2> QED
    BY <2>2, <2>4 DEF Turn
<1> HIDE DEF c
<1>5. CallOk(p)'
  BY <1>1, <1>3, <1>4 DEF CallOk, DetailOk, PartOf, DetailLabels, PageLabels, Held, RelLabels, RelHeld, Normal
<1>6. LateOk(p)'
  BY <1>1, <1>3, <1>4 DEF LateOk, Late, DetailLabels, PageLabels, Held, RelHeld, Normal
<1>7. GoesOn(p)
  BY <1>3, <1>4 DEF GoesOn, DetailLabels
<1> QED
  BY <1>4, <1>5, <1>6, <1>7, CallerStepPlain

LEMMA GetMemoryStep == ASSUME Inv, NEW p \in Caller, GetMemory(p) PROVE Inv'
<1>1. call[p].pc = "mem" /\ UNCHANGED <<whole, mem, row, heap, pageMem, pageRow>>
  BY DEF GetMemory, At
<1> DEFINE i == call[p].id
<1>2. CASE i \in DOMAIN mem
  <2> DEFINE cover == mem[i].cover dates == mem[i].dates o == mem[i].obj
  <2>1. Hold(p, "mem", cover, dates, o)
    BY <1>2 DEF GetMemory
  <2>2. i \in Id /\ mem[i] \in DetailT /\ DetailOk(i, dates, o)
    BY <1>2 DEF Inv, MemOk
  <2>3. cover \in Cover /\ o \in Nat
    BY <2>2 DEF DetailT
  <2>4. HeapOk' /\ Carried /\ OwnStay
    BY <1>1, HeapSame
  <2>5. dates \in DatesOf(i) /\ o \in DOMAIN heap' /\ PartOf(i, heap'[o])
    BY <1>1, <2>2 DEF DetailOk
  <2> HIDE DEF i, cover, dates, o
  <2>6. ASSUME NEW j, j = i, NEW d, d = dates, NEW x, x = o PROVE DetailOk(j, d, x)'
    BY <2>5, <2>6 DEF DetailOk, PartOf, DatesOf
  <2> QED
    BY <1>1, <2>1, <2>3, <2>4, <2>6, HoldStep DEF i
<1>3. CASE i \notin DOMAIN mem
  <2>1. Goto(p, "row")
    BY <1>3 DEF GetMemory
  <2> QED
    BY <1>1, <2>1, GotoStep DEF DetailLabels, PageLabels, Held, RelLabels, RelHeld
<1> QED
  BY <1>2, <1>3

LEMMA GetCatalogCacheStep == ASSUME Inv, NEW p \in Caller, GetCatalogCache(p) PROVE Inv'
<1>1. call[p].pc = "row" /\ UNCHANGED <<whole, mem, row, pageMem, pageRow>>
  BY DEF GetCatalogCache, At
<1> DEFINE i == call[p].id
<1>2. CASE /\ i \in DOMAIN row /\ Hold(p, "row", row[i].cover, row[i].dates, New)
           /\ heap' = Store(heap, New, row[i].shared)
  <2> DEFINE cover == row[i].cover dates == row[i].dates part == row[i].shared
  <2>1. i \in Id /\ row[i] \in RowT /\ dates \in DatesOf(i) /\ PartOf(i, part)
    BY <1>2 DEF Inv, RowOk
  <2>2. cover \in Cover /\ part \in ObjectT
    BY <2>1 DEF RowT
  <2>3. Hold(p, "row", cover, dates, New) /\ heap' = Store(heap, New, part)
    BY <1>2
  <2> HIDE DEF cover, dates, part, i
  <2>4. /\ HeapOk' /\ Carried /\ OwnStay
        /\ New \in Nat \ {0} /\ New \in DOMAIN heap' /\ heap'[New] = part
    BY <2>2, <2>3, HeapNew
  <2> DEFINE n == New
  <2>5. /\ Hold(p, "row", cover, dates, n)
        /\ n \in Nat /\ n \in DOMAIN heap' /\ heap'[n] = part
    BY <2>3, <2>4
  <2> HIDE DEF n
  <2>6. ASSUME NEW j, j = i, NEW d, d = dates, NEW x, x = n PROVE DetailOk(j, d, x)'
    BY <2>1, <2>5, <2>6 DEF DetailOk, PartOf, DatesOf
  <2> QED
    BY <1>1, <2>2, <2>4, <2>5, <2>6, HoldStep DEF i
<1>3. CASE Goto(p, "fetch") /\ UNCHANGED heap
  BY <1>1, <1>3, GotoStep DEF DetailLabels, PageLabels, Held, RelLabels, RelHeld
<1> QED
  BY <1>2, <1>3 DEF GetCatalogCache

LEMMA ProviderCatalogStep == ASSUME Inv, NEW p \in Caller, ProviderCatalog(p) PROVE Inv'
<1>1. call[p].pc = "fetch" /\ UNCHANGED <<whole, mem, row, pageMem, pageRow>>
  BY DEF ProviderCatalog, At
<1> DEFINE i == call[p].id
<1>2. i \in Id
  BY <1>1, CallTyped DEF CallOk, DetailLabels
<1>3. ASSUME NEW a \in Answers(i), Hold(p, "provider", a.cover, a.dates, New),
             heap' = Store(heap, New, [rec |-> RecOf(i, a.rec), raw |-> TRUE])
      PROVE  Inv'
  <2> USE <1>3
  <2> DEFINE cover == a.cover dates == a.dates part == [rec |-> RecOf(i, a.rec), raw |-> TRUE]
  <2>1. cover \in Cover /\ dates \in DatesOf(i) /\ a.rec \in Cover
    BY <1>2, AnswerTyped DEF Inv, Types
  <2>2. part \in ObjectT /\ PartOf(i, part)
    BY <2>1 DEF ObjectT, PartOf, RecOf, Cover
  <2>3. Hold(p, "provider", cover, dates, New) /\ heap' = Store(heap, New, part)
    BY <1>3
  <2> HIDE <1>3 DEF cover, dates, part, i
  <2>4. /\ HeapOk' /\ Carried /\ OwnStay
        /\ New \in Nat \ {0} /\ New \in DOMAIN heap' /\ heap'[New] = part
    BY <2>2, <2>3, HeapNew
  <2> DEFINE n == New
  <2>5. /\ Hold(p, "provider", cover, dates, n)
        /\ n \in Nat /\ n \in DOMAIN heap' /\ heap'[n] = part
    BY <2>3, <2>4
  <2> HIDE DEF n
  <2>6. ASSUME NEW j, j = i, NEW d, d = dates, NEW x, x = n PROVE DetailOk(j, d, x)'
    BY <2>1, <2>2, <2>5, <2>6 DEF DetailOk, PartOf, DatesOf
  <2> QED
    BY <1>1, <2>1, <2>4, <2>5, <2>6, HoldStep DEF i
<1>4. CASE call' = [call EXCEPT ![p] = NoCall] /\ UNCHANGED heap
  BY <1>1, <1>4, EndTurns, HeapSame, CallerStepPlain
<1> QED
  BY <1>3, <1>4 DEF ProviderCatalog

\* A call whose copy of the detail gets a cover or dates of its own.
LEMMA RepairStep ==
    ASSUME Inv, NEW p \in Caller, NEW c \in CallT,
           \/ call[p].pc = "cover" /\ c.pc = "dates"
           \/ call[p].pc = "dates" /\ c.pc = "recs",
           c.id = call[p].id, c.obj = call[p].obj, c.raw = call[p].raw, c.late = call[p].late,
           c.dates \in DatesOf(c.id), Turn(p, c),
           call[p].late => c.cover = "own",
           call[p].late /\ c.pc = "recs" => c.dates \in {"all", "empty"},
           UNCHANGED <<whole, mem, row, heap, pageMem, pageRow>>
    PROVE  Inv'
<1>1. CallOk(p) /\ LateOk(p) /\ call'[p] = c
  BY CallTyped DEF Turn
<1>2. CallOk(p)'
  BY <1>1 DEF CallOk, DetailOk, PartOf, DetailLabels, PageLabels, Held, RelLabels, RelHeld, Normal
<1>3. LateOk(p)'
  BY <1>1 DEF LateOk, Late, DetailLabels, PageLabels, Held, RelHeld, Normal
<1>4. GoesOn(p)
  BY <1>1 DEF GoesOn, DetailLabels
<1>5. HeapOk' /\ Carried /\ OwnStay
  BY HeapSame
<1> QED
  BY <1>2, <1>3, <1>4, <1>5, CallerStepPlain

LEMMA CoverStep == ASSUME Inv, NEW p \in Caller, refreshPrimaryDetailCover(p) PROVE Inv'
<1>1. call[p].pc = "cover" /\ UNCHANGED <<whole, mem, row, heap, pageMem, pageRow>>
  BY DEF refreshPrimaryDetailCover, At
<1>2. /\ call \in [Caller -> CallT] /\ call[p] \in CallT /\ call[p].cover \in Cover
      /\ call[p].id \in Id /\ call[p].dates \in DatesOf(call[p].id)
      /\ call[p].late => whole
  BY <1>1, CallTyped DEF Inv, Types, CallOk, LateOk, Late, DetailOk, DetailLabels, Held
<1>3. ASSUME NEW a \in Answers(call[p].id), NEW cover \in Cover,
             cover = IF a.cover = "own" THEN "own" ELSE call[p].cover,
             call' = [call EXCEPT ![p].pc = "dates", ![p].cover = cover]
      PROVE  Inv'
  <2> DEFINE c == [call[p] EXCEPT !.pc = "dates", !.cover = cover]
  <2>1. /\ c \in CallT /\ c.pc = "dates" /\ c.id = call[p].id /\ c.obj = call[p].obj
        /\ c.raw = call[p].raw /\ c.late = call[p].late /\ c.dates = call[p].dates
        /\ c.cover = cover
    BY <1>2, <1>3 DEF CallT, DetailLabels
  <2>2. call'[p] = c /\ DOMAIN call' = Caller /\ call' = [q \in Caller |-> call'[q]]
        /\ \A q \in Caller \ {p} : call'[q] = call[q]
    BY <1>2, <1>3
  <2> HIDE DEF c
  <2>3. Turn(p, c)
    BY <1>2, <2>1, <2>2 DEF Turn
  <2>4. call[p].late => c.cover = "own"
    BY <1>2, <1>3, <2>1, AnswerTyped DEF Inv, Types
  <2>5. c.dates \in DatesOf(c.id)
    BY <1>2, <2>1
  <2>6. c \in CallT /\ c.pc = "dates" /\ c.id = call[p].id /\ c.obj = call[p].obj
        /\ c.raw = call[p].raw /\ c.late = call[p].late
    BY <2>1
  <2> QED
    BY <1>1, <2>3, <2>4, <2>5, <2>6, RepairStep
<1>4. CASE (call[p].cover = "own" \/ MayFail) /\ Goto(p, "dates")
  <2>1. Late(p) => call[p].cover = "own"
    BY <1>2, <1>4 DEF MayFail, Late
  <2> QED
    BY <1>1, <1>4, <2>1, GotoStep DEF DetailLabels, PageLabels, Held, RelLabels, RelHeld
<1>5. ASSUME NEW a \in Answers(call[p].id),
             call' = [call EXCEPT ![p].pc = "dates", ![p].cover =
                         IF a.cover = "own" THEN "own" ELSE @]
      PROVE  Inv'
  <2> DEFINE cover == IF a.cover = "own" THEN "own" ELSE call[p].cover
  <2>1. cover \in Cover
    BY <1>2 DEF Cover
  <2>2. call' = [call EXCEPT ![p].pc = "dates", ![p].cover = cover]
    BY <1>2, <1>5
  <2> QED
    BY <1>3, <2>1, <2>2
<1> QED
  BY <1>4, <1>5 DEF refreshPrimaryDetailCover

LEMMA DatesStep == ASSUME Inv, NEW p \in Caller, refreshEpisodeReleaseDates(p) PROVE Inv'
<1>1. call[p].pc = "dates" /\ UNCHANGED <<whole, mem, row, heap, pageMem, pageRow>>
  BY DEF refreshEpisodeReleaseDates, At
<1>2. /\ call \in [Caller -> CallT] /\ call[p] \in CallT /\ call[p].dates \in Dates
      /\ call[p].id \in Id /\ call[p].dates \in DatesOf(call[p].id)
      /\ call[p].late => whole /\ call[p].cover = "own"
  <2>1. call[p].id \in Id /\ call[p].dates \in DatesOf(call[p].id)
        /\ (call[p].late => whole /\ call[p].cover = "own")
    BY <1>1, CallTyped DEF CallOk, LateOk, Late, DetailOk, DetailLabels, Held
  <2>2. call[p].dates \in Dates
    BY <2>1, DatesTyped
  <2> QED
    BY <2>1, <2>2, CallTyped DEF Inv, Types
<1> DEFINE needs == needsEpisodeReleaseRefresh(call[p].dates)
<1>3. ASSUME NEW a \in Answers(call[p].id), NEW dates \in Dates, needs,
             dates = IF hasEpisodeReleaseDates(a.dates) THEN a.dates ELSE call[p].dates,
             call' = [call EXCEPT ![p].pc = "recs", ![p].dates = dates]
      PROVE  Inv'
  <2> DEFINE c == [call[p] EXCEPT !.pc = "recs", !.dates = dates]
  <2>1. /\ c \in CallT /\ c.pc = "recs" /\ c.id = call[p].id /\ c.obj = call[p].obj
        /\ c.raw = call[p].raw /\ c.late = call[p].late /\ c.dates = dates
        /\ c.cover = call[p].cover
    BY <1>2, <1>3 DEF CallT, DetailLabels
  <2>2. call'[p] = c /\ DOMAIN call' = Caller /\ call' = [q \in Caller |-> call'[q]]
        /\ \A q \in Caller \ {p} : call'[q] = call[q]
    BY <1>2, <1>3
  <2> HIDE DEF c
  <2>3. Turn(p, c)
    BY <1>2, <2>1, <2>2 DEF Turn
  <2>4. /\ a.dates \in DatesOf(call[p].id)
        /\ whole => a.dates \in {"all", "empty"}
        /\ whole /\ a.dates = "empty" => call[p].dates \in {"all", "empty"}
    BY <1>2, AnswerTyped DEF Inv, Types
  <2>5. dates \in DatesOf(call[p].id)
    BY <1>2, <1>3, <2>4
  <2>6. call[p].late => dates \in {"all", "empty"}
    BY <1>2, <1>3, <2>4 DEF hasEpisodeReleaseDates
  <2> QED
    BY <1>1, <1>2, <2>1, <2>3, <2>5, <2>6, RepairStep
<1>4. CASE (~needs \/ MayFail) /\ Goto(p, "recs")
  <2>1. Late(p) => call[p].cover = "own" /\ call[p].dates \in {"all", "empty"}
    BY <1>2, <1>4 DEF MayFail, Late, needsEpisodeReleaseRefresh, Dates
  <2> QED
    BY <1>1, <1>4, <2>1, GotoStep DEF DetailLabels, PageLabels, Held, RelLabels, RelHeld
<1>5. ASSUME NEW a \in Answers(call[p].id), needs,
             call' = [call EXCEPT ![p].pc = "recs", ![p].dates =
                         IF hasEpisodeReleaseDates(a.dates) THEN a.dates ELSE @]
      PROVE  Inv'
  <2> DEFINE dates == IF hasEpisodeReleaseDates(a.dates) THEN a.dates ELSE call[p].dates
  <2>1. dates \in Dates
    BY <1>2 DEF hasEpisodeReleaseDates, Dates
  <2>2. call' = [call EXCEPT ![p].pc = "recs", ![p].dates = dates]
    BY <1>2, <1>5
  <2> QED
    BY <1>3, <1>5, <2>1, <2>2
<1> QED
  BY <1>4, <1>5 DEF refreshEpisodeReleaseDates

LEMMA HydrateStep == ASSUME Inv, NEW p \in Caller, hydrateRecommendationCovers(p) PROVE Inv'
<1> DEFINE label == IF heap[call[p].obj].rec \in {"-", "own"} THEN "norm" ELSE "relmem"
<1>1. /\ call[p].pc = "recs" /\ Goto(p, label)
      /\ UNCHANGED <<whole, mem, row, heap, pageMem, pageRow>>
  BY DEF hydrateRecommendationCovers, At
<1>2. PartOf(call[p].id, heap[call[p].obj])
  BY <1>1, CallTyped DEF CallOk, DetailOk, DetailLabels, Held
<1>3. Late(p) => call[p].cover = "own" /\ call[p].dates \in {"all", "empty"}
  BY <1>1, CallTyped DEF LateOk, DetailLabels, Held
<1>4. CASE label = "norm"
  <2>1. Goto(p, "norm") /\ heap[call[p].obj].rec \in {"-", "own"}
    BY <1>1, <1>4
  <2> HIDE DEF label
  <2> QED
    BY <1>1, <1>3, <2>1, GotoStep DEF DetailLabels, PageLabels, Held, RelLabels, RelHeld
<1>5. CASE label = "relmem"
  <2>1. Goto(p, "relmem") /\ Rec[call[p].id] # NoId
    BY <1>1, <1>2, <1>5 DEF PartOf
  <2> HIDE DEF label
  <2> QED
    BY <1>1, <1>3, <2>1, GotoStep DEF DetailLabels, PageLabels, Held, RelLabels, RelHeld
<1> QED
  BY <1>4, <1>5

\* A call that gets hold of the related detail, or of a cover for it.
LEMMA RelateStep ==
    ASSUME Inv, NEW p \in Caller, NEW label \in {"write", "relfill", "relset"}, NEW cover \in Cover,
           NEW dates, dates \in Dates \cup {""}, NEW o, o \in Nat,
           Relate(p, label, cover, dates, o),
           call[p].pc \in {"relmem", "relrow", "relfetch", "search"}, HeapOk', Carried, OwnStay,
           \/ label = "write"
           \/ /\ dates \in DatesOf(Rec[call[p].id]) /\ o \in DOMAIN heap'
              /\ PartOf(Rec[call[p].id], heap'[o]) /\ ~heap'[o].raw,
           Late(p) => cover = "own",
           UNCHANGED <<whole, mem, row, pageMem, pageRow>>
    PROVE  Inv'
<1>1. CallOk(p) /\ LateOk(p) /\ call[p] \in CallT /\ call \in [Caller -> CallT]
  BY CallTyped DEF Inv, Types
<1> DEFINE r == [cover |-> cover, dates |-> dates, obj |-> o]
           c == [call[p] EXCEPT !.pc = label, !.rel = r]
<1>2. r \in DetailT /\ r.cover = cover /\ r.dates = dates /\ r.obj = o
  BY DEF DetailT
<1>3. call' = [call EXCEPT ![p].pc = label, ![p].rel = r]
  BY DEF Relate
<1> HIDE DEF r
<1>4. /\ c \in CallT /\ c.pc = label /\ c.id = call[p].id
      /\ c.cover = call[p].cover /\ c.dates = call[p].dates
      /\ c.obj = call[p].obj /\ c.rel = r /\ c.raw = call[p].raw
      /\ c.late = call[p].late
  BY <1>1, <1>2 DEF CallT, DetailLabels
<1>5. call'[p] = c /\ Turn(p, c)
  <2>1. call'[p] = c /\ DOMAIN call' = Caller /\ call' = [q \in Caller |-> call'[q]]
        /\ \A q \in Caller \ {p} : call'[q] = call[q]
    BY <1>1, <1>3
  <2> HIDE DEF c
  <2> QED
    BY <1>1, <1>4, <2>1 DEF Turn
<1> HIDE DEF c
<1>6. /\ call[p].id \in Id /\ Rec[call[p].id] # NoId
      /\ DetailOk(call[p].id, call[p].dates, call[p].obj)
  BY <1>1 DEF CallOk, DetailLabels, Held, RelLabels
<1>7. Carries(call[p].obj)
  <2>1. call[p].obj \in Live(mem', call')
    BY <1>4, <1>5 DEF Live
  <2> QED
    BY <1>6, <2>1 DEF Carried, DetailOk
<1>8. CallOk(p)'
  <2>1. DetailOk(call[p].id, call[p].dates, call[p].obj)'
    BY <1>4, <1>5, <1>6, <1>7 DEF DetailOk, PartOf, Carries
  <2>2. label # "write" =>
          DetailOk(Rec[call[p].id], call[p].rel.dates, call[p].rel.obj)' /\ ~heap'[call'[p].rel.obj].raw
    BY <1>2, <1>4, <1>5 DEF DetailOk, PartOf, DatesOf
  <2> QED
    BY <1>1, <1>4, <1>5, <1>6, <2>1, <2>2 DEF CallOk, DetailLabels, PageLabels, Held, RelLabels, RelHeld, Normal
<1>9. LateOk(p)'
  BY <1>1, <1>2, <1>4, <1>5 DEF LateOk, Late, DetailLabels, PageLabels, Held, RelHeld, Normal
<1>10. GoesOn(p)
  BY <1>1, <1>4, <1>5 DEF GoesOn, DetailLabels
<1> QED
  BY <1>5, <1>8, <1>9, <1>10, CallerStepPlain

LEMMA RelGotoStep ==
    ASSUME Inv, NEW p \in Caller, NEW label \in {"relrow", "relfetch", "search", "norm"},
           Goto(p, label), call[p].pc \in {"relmem", "relrow", "relfetch", "search"},
           label \in {"search", "norm"} => ~Late(p),
           UNCHANGED <<whole, mem, row, heap, pageMem, pageRow>>
    PROVE  Inv'
<1>1. Rec[call[p].id] # NoId
  BY CallTyped DEF CallOk, RelLabels
<1>2. Late(p) => call[p].cover = "own" /\ call[p].dates \in {"all", "empty"}
  BY CallTyped DEF LateOk, DetailLabels, Held
<1>3. label \in DetailLabels /\ call[p].pc \in DetailLabels /\ call[p].pc # "none"
      /\ call[p].pc \in Held /\ label \notin RelHeld \cup {"set", "put", "reply", "write"}
  BY DEF DetailLabels, Held, RelHeld
<1> QED
  BY <1>1, <1>2, <1>3, GotoStep

LEMMA RelatedMemoryStep == ASSUME Inv, NEW p \in Caller, RelatedMemory(p) PROVE Inv'
<1>1. call[p].pc = "relmem" /\ UNCHANGED <<whole, mem, row, heap, pageMem, pageRow>>
  BY DEF RelatedMemory, At
<1>2. CASE Relate(p, "write", "own", "", 0)
  <2>1. HeapOk' /\ Carried /\ OwnStay
    BY <1>1, HeapSame
  <2>2. "own" \in Cover /\ 0 \in Nat /\ "" \in Dates \cup {""}
    BY DEF Cover
  <2> QED
    BY <1>1, <1>2, <2>1, <2>2, RelateStep
<1>3. CASE Goto(p, "relrow")
  BY <1>1, <1>3, RelGotoStep
<1> QED
  BY <1>2, <1>3 DEF RelatedMemory

LEMMA RelatedRowStep == ASSUME Inv, NEW p \in Caller, RelatedRow(p) PROVE Inv'
<1>1. call[p].pc = "relrow" /\ UNCHANGED <<whole, mem, row, pageMem, pageRow>>
  BY DEF RelatedRow, At
<1> DEFINE i == Related(p)
<1>2. CASE /\ i \in DOMAIN row /\ row[i].cover = "own"
           /\ Relate(p, "relfill", "own", row[i].dates, New)
           /\ heap' = Store(heap, New, row[i].shared)
  <2> DEFINE dates == row[i].dates part == row[i].shared
  <2>1. i \in Id /\ row[i] \in RowT /\ dates \in DatesOf(i) /\ PartOf(i, part) /\ ~part.raw
    BY <1>2 DEF Inv, RowOk
  <2>2. dates \in Dates \cup {""} /\ part \in ObjectT
    BY <2>1 DEF RowT
  <2>3. Relate(p, "relfill", "own", dates, New) /\ heap' = Store(heap, New, part)
    BY <1>2
  <2>4. i = Rec[call[p].id]
    BY DEF Related
  <2> HIDE DEF dates, part, i
  <2>5. /\ HeapOk' /\ Carried /\ OwnStay
        /\ New \in Nat \ {0} /\ New \in DOMAIN heap' /\ heap'[New] = part
    BY <2>2, <2>3, HeapNew
  <2> DEFINE n == New
  <2>6. /\ Relate(p, "relfill", "own", dates, n)
        /\ n \in Nat /\ n \in DOMAIN heap' /\ heap'[n] = part /\ ~heap'[n].raw
    BY <2>1, <2>3, <2>5
  <2> HIDE DEF n
  <2>7. /\ dates \in DatesOf(Rec[call[p].id]) /\ n \in DOMAIN heap'
        /\ PartOf(Rec[call[p].id], heap'[n]) /\ ~heap'[n].raw
    BY <2>1, <2>4, <2>6
  <2>8. "own" \in Cover
    BY DEF Cover
  <2>9. /\ HeapOk' /\ Carried /\ OwnStay /\ n \in Nat /\ ~heap'[n].raw
        /\ Relate(p, "relfill", "own", dates, n) /\ dates \in Dates \cup {""}
    BY <2>2, <2>5, <2>6
  <2> QED
    BY <1>1, <2>7, <2>8, <2>9, RelateStep
<1>3. CASE Goto(p, "relfetch") /\ UNCHANGED heap
  BY <1>1, <1>3, RelGotoStep
<1> QED
  BY <1>2, <1>3 DEF RelatedRow

LEMMA RelatedCatalogStep == ASSUME Inv, NEW p \in Caller, RelatedCatalog(p) PROVE Inv'
<1>1. call[p].pc = "relfetch" /\ UNCHANGED <<whole, mem, row, pageMem, pageRow>>
  BY DEF RelatedCatalog, At
<1> DEFINE i == Related(p)
<1>2. i \in Id /\ i = Rec[call[p].id]
  BY <1>1, RelatedTyped DEF RelLabels
<1>3. Late(p) => whole
  BY CallTyped DEF LateOk
<1>4. ASSUME NEW a \in Answers(i), Relate(p, "relset", a.cover, a.dates, New),
             heap' = Store(heap, New, [rec |-> RecOf(i, a.rec), raw |-> FALSE])
      PROVE  Inv'
  <2> DEFINE cover == a.cover dates == a.dates part == [rec |-> RecOf(i, a.rec), raw |-> FALSE]
  <2>1. cover \in Cover /\ dates \in Dates \cup {""} /\ dates \in DatesOf(i) /\ a.rec \in Cover
        /\ (Late(p) => cover = "own")
    BY <1>2, <1>3, <1>4, AnswerTyped DEF Inv, Types
  <2>2. part \in ObjectT /\ PartOf(i, part) /\ ~part.raw
    BY <2>1 DEF ObjectT, PartOf, RecOf, Cover
  <2>3. Relate(p, "relset", cover, dates, New) /\ heap' = Store(heap, New, part)
    BY <1>4
  <2> HIDE DEF cover, dates, part, i
  <2>5. /\ HeapOk' /\ Carried /\ OwnStay
        /\ New \in Nat \ {0} /\ New \in DOMAIN heap' /\ heap'[New] = part
    BY <2>2, <2>3, HeapNew
  <2> DEFINE n == New
  <2>6. /\ Relate(p, "relset", cover, dates, n)
        /\ n \in Nat /\ n \in DOMAIN heap' /\ heap'[n] = part /\ ~heap'[n].raw
    BY <2>2, <2>3, <2>5
  <2> HIDE DEF n
  <2>7. /\ dates \in DatesOf(Rec[call[p].id]) /\ n \in DOMAIN heap'
        /\ PartOf(Rec[call[p].id], heap'[n]) /\ ~heap'[n].raw
    BY <1>2, <2>1, <2>2, <2>6
  <2>8. /\ HeapOk' /\ Carried /\ OwnStay /\ n \in Nat /\ ~heap'[n].raw
        /\ Relate(p, "relset", cover, dates, n) /\ dates \in Dates \cup {""}
        /\ cover \in Cover /\ (Late(p) => cover = "own")
    BY <2>1, <2>5, <2>6
  <2> QED
    BY <1>1, <2>7, <2>8, RelateStep
<1>5. CASE MayFail /\ Goto(p, "search") /\ UNCHANGED heap
  BY <1>1, <1>3, <1>5, RelGotoStep DEF MayFail
<1> QED
  BY <1>4, <1>5 DEF RelatedCatalog

LEMMA SearchStep == ASSUME Inv, NEW p \in Caller, Search(p) PROVE Inv'
<1>1. call[p].pc = "search" /\ UNCHANGED <<whole, mem, row, heap, pageMem, pageRow>>
  BY DEF Search, At
<1>2. ~Late(p)
  BY <1>1, CallTyped DEF LateOk
<1>3. CASE Goto(p, "norm")
  BY <1>1, <1>2, <1>3, RelGotoStep
<1>4. ASSUME NEW cover \in Cover, Relate(p, "write", cover, "", 0) PROVE Inv'
  <2>1. HeapOk' /\ Carried /\ OwnStay
    BY <1>1, HeapSame
  <2>2. 0 \in Nat /\ "" \in Dates \cup {""}
    OBVIOUS
  <2> QED
    BY <1>1, <1>2, <1>4, <2>1, <2>2, RelateStep
<1> QED
  BY <1>3, <1>4 DEF Search

\* A call that goes on with its detail, and with the related one.
LEMMA HeldMoves ==
    ASSUME Inv, NEW p \in Caller, NEW label \in {"relput", "write", "set", "put", "reply"},
           Goto(p, label), Carried, OwnStay, UNCHANGED whole,
           call[p].pc \in RelHeld \cup Normal \cup {"norm"},
           label \in {"relput", "write"} => call[p].pc \in RelHeld,
           label \in Normal =>
              call[p].pc \in Normal \/ (call[p].pc = "norm" /\ ~heap'[call[p].obj].raw)
    PROVE  (\E c : Turn(p, c)) /\ CallOk(p)' /\ LateOk(p)' /\ GoesOn(p)
<1>1. CallOk(p) /\ LateOk(p)
  BY CallTyped
<1>2. label \in Held
  BY DEF Held, DetailLabels
<1>3. /\ \E c : Turn(p, c)
      /\ call'[p].pc = label /\ call'[p].id = call[p].id
      /\ call'[p].cover = call[p].cover /\ call'[p].dates = call[p].dates
      /\ call'[p].obj = call[p].obj /\ call'[p].rel = call[p].rel
      /\ call'[p].raw = call[p].raw /\ call'[p].late = call[p].late
  <2>1. label \in {"none"} \cup DetailLabels \cup PageLabels
    BY DEF DetailLabels
  <2> QED
    BY <2>1, GotoTurns
<1>4. call[p].obj \in Live(mem', call') /\ call[p].rel.obj \in Live(mem', call')
  BY <1>3 DEF Live
<1>5. ASSUME NEW o \in DOMAIN heap, o \in {call[p].obj, call[p].rel.obj}
      PROVE  Carries(o) /\ OwnStays(o)
  BY <1>4, <1>5 DEF Carried, OwnStay
<1>6. call[p].pc \in Held /\ DetailOk(call[p].id, call[p].dates, call[p].obj) /\ call[p].id \in Id
  BY <1>1 DEF CallOk, Held, DetailLabels, RelHeld, Normal
<1>7. Carries(call[p].obj) /\ OwnStays(call[p].obj)
  BY <1>5, <1>6 DEF DetailOk
<1>8. DetailOk(call[p].id, call[p].dates, call[p].obj)'
  BY <1>3, <1>6, <1>7 DEF DetailOk, PartOf, Carries, DatesOf
<1>9. label \in {"relput", "write"} =>
         /\ Rec[call'[p].id] # NoId
         /\ DetailOk(Rec[call[p].id], call[p].rel.dates, call[p].rel.obj)'
         /\ ~heap'[call'[p].rel.obj].raw
  <2> SUFFICES ASSUME call[p].pc \in RelHeld
               PROVE  /\ Rec[call'[p].id] # NoId
                      /\ DetailOk(Rec[call[p].id], call[p].rel.dates, call[p].rel.obj)'
                      /\ ~heap'[call'[p].rel.obj].raw
    OBVIOUS
  <2>1. /\ Rec[call[p].id] # NoId /\ DetailOk(Rec[call[p].id], call[p].rel.dates, call[p].rel.obj)
        /\ ~heap[call[p].rel.obj].raw
    BY <1>1 DEF CallOk, RelHeld, RelLabels
  <2>2. Carries(call[p].rel.obj)
    BY <1>5, <2>1 DEF DetailOk
  <2> QED
    BY <1>3, <2>1, <2>2 DEF DetailOk, PartOf, Carries, DatesOf
<1>10. label \in Normal => ~heap'[call'[p].obj].raw
  BY <1>1, <1>3, <1>7 DEF CallOk, Carries
<1>11. CallOk(p)'
  BY <1>1, <1>3, <1>6, <1>8, <1>9, <1>10 DEF CallOk, DetailLabels, PageLabels, Held, RelLabels, RelHeld, Normal
<1>12. LateOk(p)'
  BY <1>1, <1>3, <1>7 DEF LateOk, Late, OwnStays, DetailLabels, Held, RelHeld, Normal
<1>13. GoesOn(p)
  BY <1>3, <1>6 DEF GoesOn, DetailLabels, Held
<1> QED
  BY <1>3, <1>11, <1>12, <1>13

LEMMA MemStored ==
    ASSUME Inv, Carried, NEW i \in Id, NEW d \in DetailT, DetailOk(i, d.dates, d.obj),
           mem' = Store(mem, i, d)
    PROVE  MemOk'
<1>1. DOMAIN mem' = DOMAIN mem \cup {i} /\ mem'[i] = d
      /\ \A j \in DOMAIN mem \ {i} : mem'[j] = mem[j]
  BY DEF Store
<1>2. d.obj \in Live(mem', call')
  BY <1>1 DEF Live
<1>3. Carries(d.obj)
  BY <1>2 DEF Carried, DetailOk
<1>4. DetailOk(i, mem[i].dates, mem[i].obj)'
  BY <1>1, <1>3 DEF DetailOk, PartOf, Carries, DatesOf
<1> SUFFICES ASSUME NEW j \in DOMAIN mem', j # i
             PROVE  j \in Id /\ mem'[j] \in DetailT /\ DetailOk(j, mem[j].dates, mem[j].obj)'
  BY <1>1, <1>4 DEF MemOk
<1> QED
  BY <1>1, MemCarried

LEMMA RowStored ==
    ASSUME Inv, NEW i \in Id, NEW cover \in Cover, NEW dates, NEW o,
           DetailOk(i, dates, o), ~heap[o].raw,
           row' = Store(row, i, Stored(cover, dates, o))
    PROVE  RowOk'
<1> DEFINE r == Stored(cover, dates, o)
<1>1. heap[o] \in ObjectT /\ dates \in Dates /\ dates \in DatesOf(i) /\ PartOf(i, heap[o])
  <2>1. heap[o] \in ObjectT /\ dates \in DatesOf(i) /\ PartOf(i, heap[o])
    BY DEF Inv, HeapOk, DetailOk
  <2> QED
    BY <2>1, DatesTyped
<1>2. r \in RowT /\ r.dates = dates /\ r.shared = heap[o]
  BY <1>1 DEF Stored, RowT
<1> HIDE DEF r
<1>3. DOMAIN row' = DOMAIN row \cup {i} /\ row'[i] = r
      /\ \A j \in DOMAIN row \ {i} : row'[j] = row[j]
  <2>1. row' = Store(row, i, r)
    BY DEF r
  <2> QED
    BY <2>1 DEF Store
<1> QED
  BY <1>1, <1>2, <1>3 DEF Inv, RowOk, PartOf, DatesOf

LEMMA RelatedSetStep == ASSUME Inv, NEW p \in Caller, RelatedSet(p) PROVE Inv'
<1> DEFINE label == IF At(p, "relset") THEN "relput" ELSE "write"
<1>1. /\ call[p].pc \in {"relfill", "relset"} /\ mem' = Store(mem, Related(p), call[p].rel)
      /\ Goto(p, label) /\ label \in {"relput", "write"}
      /\ Collect(heap) /\ UNCHANGED <<whole, row, pageMem, pageRow>>
  BY DEF RelatedSet, At
<1> HIDE DEF label
<1>2. HeapOk' /\ Carried /\ OwnStay
  BY <1>1, HeapOnlyCollected
<1>3. Related(p) \in Id /\ Related(p) = Rec[call[p].id] /\ call[p].rel \in DetailT
      /\ DetailOk(Related(p), call[p].rel.dates, call[p].rel.obj)
  <2>1. Related(p) \in Id /\ Related(p) = Rec[call[p].id]
    BY <1>1, RelatedTyped DEF RelLabels
  <2> QED
    BY <1>1, <2>1, CallTyped DEF CallOk, RelHeld
<1>4. MemOk'
  BY <1>1, <1>2, <1>3, MemStored
<1>5. (\E c : Turn(p, c)) /\ CallOk(p)' /\ LateOk(p)' /\ GoesOn(p)
  <2>1. call[p].pc \in RelHeld /\ label \notin Normal
    BY <1>1 DEF RelHeld, Normal
  <2> QED
    BY <1>1, <1>2, <2>1, HeldMoves
<1> QED
  BY <1>1, <1>2, <1>4, <1>5, CallerStep, RowSame, PagesSame

LEMMA RelatedUpsertStep == ASSUME Inv, NEW p \in Caller, RelatedUpsert(p) PROVE Inv'
<1> DEFINE r == call[p].rel
<1>1. /\ call[p].pc = "relput" /\ Goto(p, "write")
      /\ UNCHANGED <<whole, mem, heap, pageMem, pageRow>>
      /\ row' = row \/ row' = Store(row, Related(p), Stored(r.cover, r.dates, r.obj))
  BY DEF RelatedUpsert, At
<1>2. HeapOk' /\ Carried /\ OwnStay
  BY <1>1, HeapSame
<1>3. Related(p) \in Id /\ r.cover \in Cover
      /\ DetailOk(Related(p), r.dates, r.obj) /\ ~heap[r.obj].raw
  <2>1. Related(p) \in Id /\ Related(p) = Rec[call[p].id]
    BY <1>1, RelatedTyped DEF RelLabels
  <2>2. r.cover \in Cover
    BY CallTyped DEF DetailT
  <2> QED
    BY <1>1, <2>1, <2>2, CallTyped DEF CallOk, RelHeld
<1>4. RowOk'
  BY <1>1, <1>3, RowSame, RowStored
<1>5. (\E c : Turn(p, c)) /\ CallOk(p)' /\ LateOk(p)' /\ GoesOn(p)
  <2>1. call[p].pc \in RelHeld /\ "write" \notin Normal
    BY <1>1 DEF RelHeld, Normal
  <2> QED
    BY <1>1, <1>2, <2>1, HeldMoves
<1> QED
  BY <1>1, <1>2, <1>4, <1>5, CallerStep, MemSame, PagesSame

\* Whenever any call is late, the writer is, and its cover is the own one.
LEMMA WriteCoverStep == ASSUME Inv, NEW p \in Caller, WriteCover(p) PROVE Inv'
<1> DEFINE o == call[p].obj
           cover == call[p].rel.cover
           h == [heap EXCEPT ![o].rec = cover]
           c == [call[p] EXCEPT !.pc = "norm", !.rel = NoRel]
<1>1. /\ call[p].pc = "write" /\ call' = [call EXCEPT ![p].pc = "norm", ![p].rel = NoRel]
      /\ Collect(h) /\ UNCHANGED <<whole, mem, row, pageMem, pageRow>>
  BY DEF WriteCover, At
<1>2. /\ call \in [Caller -> CallT] /\ call[p] \in CallT /\ CallOk(p) /\ LateOk(p)
      /\ call[p].id \in Id /\ DetailOk(call[p].id, call[p].dates, o) /\ Rec[call[p].id] # NoId
      /\ cover \in Cover
  <2>1. cover \in Cover
    BY CallTyped DEF DetailT
  <2> QED
    BY <1>1, <2>1, CallTyped DEF Inv, Types, CallOk, Held, DetailLabels, RelLabels
<1>3. NoRel \in DetailT
  BY NoCallTyped
<1>4. /\ c \in CallT /\ c.pc = "norm" /\ c.id = call[p].id
      /\ c.cover = call[p].cover /\ c.dates = call[p].dates
      /\ c.obj = call[p].obj /\ c.raw = call[p].raw /\ c.late = call[p].late
  BY <1>2, <1>3 DEF CallT, DetailLabels
<1>5. call'[p] = c /\ Turn(p, c)
  <2>1. call'[p] = c /\ DOMAIN call' = Caller /\ call' = [q \in Caller |-> call'[q]]
        /\ \A q \in Caller \ {p} : call'[q] = call[q]
    BY <1>1, <1>2
  <2> HIDE DEF c
  <2> QED
    BY <1>2, <1>4, <2>1 DEF Turn
<1> HIDE DEF c
<1>6. o \in DOMAIN heap /\ heap[o].rec # "-" /\ cover # "-"
  BY <1>2 DEF DetailOk, PartOf, Cover
<1>7. /\ DOMAIN h = DOMAIN heap /\ h[o].rec = cover
      /\ \A x \in DOMAIN heap : /\ h[x] \in ObjectT /\ h[x].raw = heap[x].raw
                                /\ h[x].rec = "-" <=> heap[x].rec = "-"
                                /\ x # o => h[x] = heap[x]
  <2> HIDE DEF o, cover
  <2>1. \A x \in DOMAIN heap : heap[x] \in ObjectT
    BY DEF Inv, HeapOk
  <2>2. DOMAIN h = DOMAIN heap /\ h[o] = [heap[o] EXCEPT !.rec = cover]
        /\ \A x \in DOMAIN heap \ {o} : h[x] = heap[x]
    BY <1>6
  <2>3. h[o] \in ObjectT /\ h[o].rec = cover /\ h[o].raw = heap[o].raw
    BY <1>2, <1>6, <2>1, <2>2 DEF ObjectT
  <2> HIDE DEF h
  <2> QED
    BY <1>6, <2>1, <2>2, <2>3
<1> HIDE DEF h
<1>8. /\ HeapOk' /\ Carried
      /\ \A x \in DOMAIN heap : x \in Live(mem', call') => x \in DOMAIN heap' /\ heap'[x] = h[x]
  BY <1>1, <1>7, HeapCollected
<1>9. o \in Live(mem', call')
  BY <1>4, <1>5 DEF Live
<1>10. o \in DOMAIN heap' /\ heap'[o].rec = cover /\ heap'[o].raw = heap[o].raw
  BY <1>6, <1>7, <1>8, <1>9
<1>11. cover = "own" => OwnStay
  BY <1>7, <1>8 DEF OwnStay, OwnStays
<1>12. \A q \in Caller : Late(q) => cover = "own"
  <2> SUFFICES ASSUME NEW q \in Caller, Late(q) PROVE cover = "own"
    OBVIOUS
  <2>1. call[p].late
    BY <1>1 DEF Inv, AllLate
  <2> QED
    BY <1>1, <1>2, <2>1 DEF LateOk, Late, DetailLabels
<1>13. CallOk(p)'
  <2>1. DetailOk(call[p].id, call[p].dates, call[p].obj)'
    BY <1>2, <1>4, <1>5, <1>6, <1>10 DEF DetailOk, PartOf, DatesOf
  <2> QED
    BY <1>2, <1>4, <1>5, <2>1 DEF CallOk, DetailLabels, PageLabels, Held, RelLabels, RelHeld, Normal
<1>14. LateOk(p)'
  BY <1>1, <1>2, <1>4, <1>5, <1>10 DEF LateOk, Late, DetailLabels, Held, RelHeld, Normal
<1>15. GoesOn(p)
  BY <1>1, <1>4, <1>5 DEF GoesOn, DetailLabels
<1>16. MemOk' /\ RowOk' /\ PagesOk'
  BY <1>1, <1>8, MemSame, RowSame, PagesSame
<1> QED
  BY <1>1, <1>5, <1>8, <1>11, <1>12, <1>13, <1>14, <1>15, <1>16, CallerStep

LEMMA NormalizeStep == ASSUME Inv, NEW p \in Caller, normalizeDetail(p) PROVE Inv'
<1> DEFINE o == call[p].obj
<1>1. /\ call[p].pc = "norm" /\ heap' = [heap EXCEPT ![o].raw = FALSE] /\ Goto(p, "set")
      /\ UNCHANGED <<whole, mem, row, pageMem, pageRow>>
  BY DEF normalizeDetail, At
<1>2. o \in DOMAIN heap
  BY <1>1, CallTyped DEF CallOk, DetailOk, Held, DetailLabels
<1>3. \A x \in DOMAIN heap : heap[x] \in ObjectT
  BY DEF Inv, HeapOk
<1> HIDE DEF o
<1>4. DOMAIN heap' = DOMAIN heap /\ heap'[o] = [heap[o] EXCEPT !.raw = FALSE]
      /\ \A x \in DOMAIN heap \ {o} : heap'[x] = heap[x]
  BY <1>1, <1>2
<1>5. heap'[o] \in ObjectT /\ heap'[o].raw = FALSE /\ heap'[o].rec = heap[o].rec
  BY <1>2, <1>3, <1>4 DEF ObjectT
<1>6. HeapOk' /\ Carried /\ OwnStay
  <2>1. HeapOk'
    BY <1>3, <1>4, <1>5 DEF Inv, HeapOk
  <2> QED
    BY <1>4, <1>5, <2>1 DEF Carried, Carries, OwnStay, OwnStays
<1>7. (\E c : Turn(p, c)) /\ CallOk(p)' /\ LateOk(p)' /\ GoesOn(p)
  <2>1. ~heap'[call[p].obj].raw
    BY <1>5 DEF o
  <2> QED
    BY <1>1, <1>6, <2>1, HeldMoves
<1> QED
  BY <1>1, <1>6, <1>7, CallerStepPlain

LEMMA SetMemoryStep == ASSUME Inv, NEW p \in Caller, SetMemory(p) PROVE Inv'
<1> DEFINE c == call[p]
           label == IF c.src = "mem" THEN "reply" ELSE "put"
           d == [cover |-> c.cover, dates |-> c.dates, obj |-> c.obj]
<1>1. /\ call[p].pc = "set" /\ mem' = Store(mem, call[p].id, d)
      /\ Goto(p, label) /\ label \in {"reply", "put"}
      /\ Collect(heap) /\ UNCHANGED <<whole, row, pageMem, pageRow>>
  BY DEF SetMemory, At
<1>2. HeapOk' /\ Carried /\ OwnStay
  BY <1>1, HeapOnlyCollected
<1>3. call[p].id \in Id /\ DetailOk(call[p].id, call[p].dates, call[p].obj)
  BY <1>1, CallTyped DEF CallOk, Held, DetailLabels
<1>4. d \in DetailT /\ d.dates = call[p].dates /\ d.obj = call[p].obj
  BY CallTyped DEF DetailT
<1> HIDE DEF c, label, d
<1>5. MemOk'
  <2>1. DetailOk(call[p].id, d.dates, d.obj)
    BY <1>3, <1>4
  <2> QED
    BY <1>1, <1>2, <1>3, <1>4, <2>1, MemStored
<1>6. (\E x : Turn(p, x)) /\ CallOk(p)' /\ LateOk(p)' /\ GoesOn(p)
  <2>1. call[p].pc \in Normal
    BY <1>1 DEF Normal
  <2> QED
    BY <1>1, <1>2, <2>1, HeldMoves
<1> QED
  BY <1>1, <1>2, <1>5, <1>6, CallerStep, RowSame, PagesSame

LEMMA UpsertStep == ASSUME Inv, NEW p \in Caller, UpsertCatalogCache(p) PROVE Inv'
<1> DEFINE c == call[p]
<1>1. /\ call[p].pc = "put" /\ Goto(p, "reply")
      /\ UNCHANGED <<whole, mem, heap, pageMem, pageRow>>
      /\ row' = row \/ row' = Store(row, c.id, Stored(c.cover, c.dates, c.obj))
  BY DEF UpsertCatalogCache, At
<1>2. HeapOk' /\ Carried /\ OwnStay
  BY <1>1, HeapSame
<1>3. c.id \in Id /\ c.cover \in Cover /\ DetailOk(c.id, c.dates, c.obj) /\ ~heap[c.obj].raw
  BY <1>1, CallTyped DEF CallOk, Held, DetailLabels, Normal
<1>4. RowOk'
  BY <1>1, <1>3, RowSame, RowStored
<1>5. (\E x : Turn(p, x)) /\ CallOk(p)' /\ LateOk(p)' /\ GoesOn(p)
  <2>1. call[p].pc \in Normal
    BY <1>1 DEF Normal
  <2> QED
    BY <1>1, <1>2, <2>1, HeldMoves
<1> QED
  BY <1>1, <1>2, <1>4, <1>5, CallerStep, MemSame, PagesSame

LEMMA ReturnedStep == ASSUME Inv, NEW p \in Caller, Returned(p) PROVE Inv'
<1>1. /\ call' = [call EXCEPT ![p] = NoCall] /\ UNCHANGED <<whole, mem, row, pageMem, pageRow>>
      /\ Collect(heap)
  BY DEF Returned
<1> QED
  BY <1>1, EndTurns, HeapOnlyCollected, CallerStepPlain
---------------------------------------------------------------------------
\* Pages.
LEMMA GotPageStep ==
    ASSUME Inv, NEW p \in Caller, NEW label \in {"page", "pfill", "pset"}, NEW raw \in BOOLEAN,
           GotPage(p, label, raw), call[p].pc \in PageLabels, raw => call[p].id \in RawPage,
           UNCHANGED <<whole, mem, row, heap, pageMem, pageRow>>
    PROVE  Inv'
<1>1. call[p].id \in Page
  BY CallTyped DEF CallOk
<1>2. /\ \E c : Turn(p, c)
      /\ call'[p].pc = label /\ call'[p].id = call[p].id
      /\ call'[p].raw = raw /\ call'[p].late = call[p].late
  <2>1. label \in PageLabels
    BY DEF PageLabels
  <2> QED
    BY <2>1, GotPageTurns
<1>3. CallOk(p)' /\ LateOk(p)'
  BY <1>1, <1>2 DEF CallOk, LateOk, Late, DetailLabels, PageLabels, Held, RelLabels, RelHeld, Normal
<1>4. GoesOn(p)
  BY <1>2 DEF GoesOn, DetailLabels, PageLabels
<1> QED
  BY <1>2, <1>3, <1>4, HeapSame, CallerStepPlain

LEMMA PageMemoryStep == ASSUME Inv, NEW p \in Caller, PageMemory(p) PROVE Inv'
<1> DEFINE k == call[p].id
<1>1. call[p].pc = "pmem" /\ UNCHANGED <<whole, mem, row, heap, pageMem, pageRow>>
  BY DEF PageMemory, At
<1>2. CASE k \in DOMAIN pageMem
  <2> DEFINE raw == normalized(k, pageMem[k])
  <2>1. GotPage(p, "page", raw)
    BY <1>2 DEF PageMemory
  <2>2. raw \in BOOLEAN /\ (raw => k \in RawPage)
    BY <1>2 DEF Inv, PagesOk, normalized
  <2> HIDE DEF raw
  <2> QED
    BY <1>1, <2>1, <2>2, GotPageStep DEF PageLabels
<1>3. CASE k \notin DOMAIN pageMem
  <2>1. Goto(p, "pfetch") \/ Goto(p, "prow")
    BY <1>3 DEF PageMemory
  <2> QED
    BY <1>1, <2>1, GotoStep DEF DetailLabels, PageLabels, Held, RelLabels, RelHeld, Late
<1> QED
  BY <1>2, <1>3

LEMMA GetDiscoveryCacheStep == ASSUME Inv, NEW p \in Caller, GetDiscoveryCache(p) PROVE Inv'
<1> DEFINE k == call[p].id
           raw == normalized(k, pageRow[k])
<1>1. call[p].pc = "prow" /\ UNCHANGED <<whole, mem, row, heap, pageMem, pageRow>>
  BY DEF GetDiscoveryCache, At
<1>2. CASE k \in DOMAIN pageRow /\ GotPage(p, "pfill", raw)
  <2>1. raw \in BOOLEAN /\ (raw => k \in RawPage)
    BY <1>2 DEF Inv, PagesOk, normalized
  <2> HIDE DEF raw
  <2> QED
    BY <1>1, <1>2, <2>1, GotPageStep DEF PageLabels
<1>3. CASE Goto(p, "pfetch")
  BY <1>1, <1>3, GotoStep DEF DetailLabels, PageLabels, Held, RelLabels, RelHeld, Late
<1> QED
  BY <1>2, <1>3 DEF GetDiscoveryCache

LEMMA FetchPageStep == ASSUME Inv, NEW p \in Caller, FetchPage(p) PROVE Inv'
<1>1. call[p].pc = "pfetch" /\ UNCHANGED <<whole, mem, row, heap, pageMem, pageRow>>
  BY DEF FetchPage, At
<1>2. ASSUME NEW x \in BOOLEAN, GotPage(p, "pset", normalized(call[p].id, x)) PROVE Inv'
  <2> DEFINE raw == normalized(call[p].id, x)
  <2>1. raw \in BOOLEAN /\ (raw => call[p].id \in RawPage) /\ GotPage(p, "pset", raw)
    BY <1>2 DEF normalized
  <2> HIDE DEF raw
  <2> QED
    BY <1>1, <2>1, GotPageStep DEF PageLabels
<1>3. CASE call' = [call EXCEPT ![p] = NoCall]
  BY <1>1, <1>3, EndTurns, HeapSame, CallerStepPlain
<1> QED
  BY <1>2, <1>3 DEF FetchPage

\* A page call that stores its page and moves on.
LEMMA PageMoves ==
    ASSUME Inv, NEW p \in Caller, NEW label \in {"page", "pput"}, Goto(p, label),
           call[p].pc \in PageLabels, label = "pput" => call[p].id \notin MemoryPage
    PROVE  (\E c : Turn(p, c)) /\ CallOk(p)' /\ LateOk(p)' /\ GoesOn(p)
<1>1. CallOk(p)
  BY CallTyped
<1>2. /\ \E c : Turn(p, c)
      /\ call'[p].pc = label /\ call'[p].id = call[p].id
      /\ call'[p].raw = call[p].raw /\ call'[p].late = call[p].late
  <2>1. label \in {"none"} \cup DetailLabels \cup PageLabels
    BY DEF PageLabels
  <2> QED
    BY <2>1, GotoTurns
<1>3. CallOk(p)' /\ LateOk(p)'
  BY <1>1, <1>2 DEF CallOk, LateOk, Late, DetailLabels, PageLabels, Held, RelLabels, RelHeld, Normal
<1>4. GoesOn(p)
  BY <1>2 DEF GoesOn, DetailLabels, PageLabels
<1> QED
  BY <1>2, <1>3, <1>4

LEMMA SetPageStep == ASSUME Inv, NEW p \in Caller, SetPage(p) PROVE Inv'
<1> DEFINE label == IF At(p, "pset") /\ call[p].id \notin MemoryPage THEN "pput" ELSE "page"
<1>1. /\ call[p].pc \in {"pfill", "pset"} /\ pageMem' = Store(pageMem, call[p].id, call[p].raw)
      /\ Goto(p, label) /\ label \in {"pput", "page"}
      /\ label = "pput" => call[p].id \notin MemoryPage
      /\ UNCHANGED <<whole, mem, row, heap, pageRow>>
  BY DEF SetPage, At
<1> HIDE DEF label
<1>2. call[p].pc \in PageLabels
  BY <1>1 DEF PageLabels
<1>3. call[p].id \in Page /\ call[p].raw \in BOOLEAN /\ (call[p].raw => call[p].id \in RawPage)
  BY <1>2, CallTyped DEF CallOk
<1>4. HeapOk' /\ Carried /\ OwnStay
  BY <1>1, HeapSame
<1>5. PagesOk'
  BY <1>1, <1>3 DEF Inv, PagesOk, Store
<1>6. (\E c : Turn(p, c)) /\ CallOk(p)' /\ LateOk(p)' /\ GoesOn(p)
  BY <1>1, <1>2, PageMoves
<1> QED
  BY <1>1, <1>4, <1>5, <1>6, CallerStep, MemSame, RowSame

LEMMA UpsertDiscoveryCacheStep ==
    ASSUME Inv, NEW p \in Caller, UpsertDiscoveryCache(p) PROVE Inv'
<1>1. /\ call[p].pc = "pput" /\ Goto(p, "page") /\ UNCHANGED <<whole, mem, row, heap, pageMem>>
      /\ pageRow' = pageRow \/ pageRow' = Store(pageRow, call[p].id, call[p].raw)
  BY DEF UpsertDiscoveryCache, At
<1>2. call[p].pc \in PageLabels
  BY <1>1 DEF PageLabels
<1>3. call[p].id \in Page \ MemoryPage /\ call[p].raw \in BOOLEAN
  BY <1>1, <1>2, CallTyped DEF CallOk
<1>4. HeapOk' /\ Carried /\ OwnStay
  BY <1>1, HeapSame
<1>5. PagesOk'
  BY <1>1, <1>3 DEF Inv, PagesOk, Store
<1>6. (\E c : Turn(p, c)) /\ CallOk(p)' /\ LateOk(p)' /\ GoesOn(p)
  BY <1>1, <1>2, PageMoves
<1> QED
  BY <1>1, <1>4, <1>5, <1>6, CallerStep, MemSame, RowSame
---------------------------------------------------------------------------
\* A step of no caller.
LEMMA NoCallerStep ==
    ASSUME Inv, UNCHANGED call, whole' \in BOOLEAN, whole => whole', HeapOk', Carried, OwnStay,
           MemOk', RowOk', PagesOk'
    PROVE  Inv'
<1>1. CallsOk'
  <2> SUFFICES ASSUME NEW q \in Caller PROVE CallOk(q)' /\ LateOk(q)'
    BY DEF CallsOk
  <2> QED
    BY CallCarried
<1>2. AllLate' /\ Types'
  BY DEF Inv, AllLate, Late, Types
<1> QED
  BY <1>1, <1>2 DEF Inv

LEMMA ExpireStep == ASSUME Inv, Expire PROVE Inv'
<1>1. Collect(heap) /\ UNCHANGED <<whole, row, pageRow, call>>
  BY DEF Expire
<1>2. HeapOk' /\ Carried /\ OwnStay
  BY <1>1, HeapOnlyCollected
<1>3. ASSUME NEW i \in DOMAIN mem, mem' = Without(mem, i), UNCHANGED pageMem
      PROVE  MemOk' /\ PagesOk'
  <2>1. MemOk'
    <3> SUFFICES ASSUME NEW j \in DOMAIN mem'
                 PROVE  j \in Id /\ mem'[j] \in DetailT /\ DetailOk(j, mem[j].dates, mem[j].obj)'
      BY DEF MemOk
    <3>1. j \in DOMAIN mem /\ mem'[j] = mem[j]
      BY <1>3 DEF Without
    <3> QED
      BY <1>2, <3>1, MemCarried
  <2> QED
    BY <1>1, <1>3, <2>1, PagesSame
<1>4. ASSUME NEW k \in DOMAIN pageMem, pageMem' = Without(pageMem, k), UNCHANGED mem
      PROVE  MemOk' /\ PagesOk'
  <2>1. PagesOk'
    BY <1>1, <1>4 DEF Inv, PagesOk, Without
  <2> QED
    BY <1>2, <1>4, <2>1, MemSame
<1>5. MemOk' /\ PagesOk'
  BY <1>3, <1>4 DEF Expire
<1>6. whole' \in BOOLEAN /\ (whole => whole')
  BY <1>1 DEF Inv, Types
<1> QED
  BY <1>1, <1>2, <1>5, <1>6, RowSame, NoCallerStep

\* The process has just started.
Started == heap = << >> /\ mem = << >> /\ pageMem = << >> /\ call = [p \in Caller |-> NoCall]
StartedOk ==
    /\ HeapOk /\ MemOk /\ CallsOk /\ AllLate /\ call \in [Caller -> CallT]
    /\ DOMAIN pageMem = {}

LEMMA NothingInMemory == Started => StartedOk
<1> SUFFICES ASSUME Started PROVE StartedOk
  OBVIOUS
<1> USE DEF Started
<1>1. DOMAIN heap = {} /\ DOMAIN mem = {} /\ DOMAIN pageMem = {}
  OBVIOUS
<1>2. HeapOk /\ MemOk
  BY <1>1, FS_EmptySet DEF HeapOk, MemOk
<1>3. /\ call \in [Caller -> CallT]
      /\ \A p \in Caller : call[p].pc = "none" /\ call[p].raw = FALSE
  BY NoCallTyped
<1>4. CallsOk /\ AllLate
  BY <1>3 DEF CallsOk, AllLate, CallOk, LateOk, Late, DetailLabels, PageLabels, Held, RelLabels,
     RelHeld, Normal
<1> QED
  BY <1>1, <1>2, <1>3, <1>4 DEF StartedOk

LEMMA RestartStep == ASSUME Inv, Restart PROVE Inv'
<1>1. /\ heap' = << >> /\ mem' = << >> /\ pageMem' = << >> /\ call' = [p \in Caller |-> NoCall]
      /\ UNCHANGED <<whole, row, pageRow>>
  BY DEF Restart
<1>2. Started'
  BY <1>1 DEF Started
<1>3. StartedOk'
  BY <1>2, NothingInMemory, PTL
<1>4. PagesOk' /\ Types'
  BY <1>1, <1>3 DEF Inv, PagesOk, Types, StartedOk
<1> QED
  BY <1>1, <1>3, <1>4, RowSame DEF Inv, StartedOk

LEMMA RecoversStep == ASSUME Inv, ProviderRecovers PROVE Inv'
<1>1. whole' = TRUE /\ UNCHANGED <<mem, row, heap, pageMem, pageRow, call>>
  BY DEF ProviderRecovers
<1> QED
  BY <1>1, HeapSame, MemSame, RowSame, PagesSame, NoCallerStep

LEMMA InitInv == Init => Inv
<1> SUFFICES ASSUME Init PROVE Inv
  OBVIOUS
<1>1. /\ heap = << >> /\ mem = << >> /\ pageMem = << >> /\ call = [p \in Caller |-> NoCall]
      /\ whole = FALSE /\ row = << >> /\ pageRow = << >>
  BY DEF Init
<1>2. StartedOk
  BY <1>1, NothingInMemory DEF Started
<1>3. DOMAIN row = {} /\ DOMAIN pageRow = {}
  BY <1>1
<1>4. RowOk /\ PagesOk /\ Types
  BY <1>1, <1>2, <1>3 DEF RowOk, PagesOk, Types, StartedOk
<1> QED
  BY <1>2, <1>4 DEF Inv, StartedOk

LEMMA DetailStepInv == ASSUME Inv, NEW p \in Caller, DetailStep(p) PROVE Inv'
BY GetMemoryStep, GetCatalogCacheStep, ProviderCatalogStep, CoverStep, DatesStep, HydrateStep,
   RelatedMemoryStep, RelatedRowStep, RelatedCatalogStep, SearchStep, RelatedSetStep,
   RelatedUpsertStep, WriteCoverStep, NormalizeStep, SetMemoryStep, UpsertStep DEF DetailStep

LEMMA PageStepInv == ASSUME Inv, NEW p \in Caller, PageStep(p) PROVE Inv'
BY PageMemoryStep, GetDiscoveryCacheStep, FetchPageStep, SetPageStep, UpsertDiscoveryCacheStep
   DEF PageStep

LEMMA NextInv == Inv /\ [Next]_vars => Inv'
<1> SUFFICES ASSUME Inv, [Next]_vars PROVE Inv'
  OBVIOUS
<1>1. ASSUME NEW p \in Caller,
             (\E i \in Asked : Catalog(p, i)) \/ (\E k \in Page : ReadPage(p, k)) \/ CallStep(p)
      PROVE  Inv'
  BY <1>1, CatalogStep, ReadPageStep, DetailStepInv, PageStepInv, ReturnedStep DEF CallStep
<1>2. CASE UNCHANGED vars
  BY <1>2, HeapSame, MemSame, RowSame, PagesSame, NoCallerStep DEF vars, Inv, Types
<1> QED
  BY <1>1, <1>2, ExpireStep, RestartStep, RecoversStep DEF Next
---------------------------------------------------------------------------
\* The objects, the caches and the calls fit together in every reachable
\* state, with callers that share and change what the memory cache holds.
THEOREM Invariance == Spec => []Inv
BY InitInv, NextInv, PTL DEF Spec

\* Every variable has its type, and no detail outlives its object: what the
\* memory cache or a call refers to is never collected, a stored row is
\* normalized, and a page is cached raw only if it is the index.
THEOREM TypeCorrect == Spec => []TypeOK
<1>1. ASSUME Inv PROVE TypeOK
  <2> USE <1>1
  <2>1. /\ whole \in BOOLEAN
        /\ DOMAIN mem \subseteq Id /\ DOMAIN row \subseteq Id
        /\ \A k \in DOMAIN pageMem : pageMem[k] => k \in RawPage
        /\ DOMAIN pageMem \subseteq Page /\ DOMAIN pageRow \subseteq Page \ MemoryPage
    BY DEF Inv, Types, MemOk, RowOk, PagesOk
  <2>2. \A i \in DOMAIN mem : mem[i].cover \in Cover /\ mem[i].obj \in DOMAIN heap
    BY DEF Inv, MemOk, DetailT, DetailOk
  <2>3. \A i \in DOMAIN row : row[i].cover \in Cover /\ ~row[i].shared.raw
    BY DEF Inv, RowOk, RowT
  <2>4. ASSUME NEW p \in Caller
        PROVE  /\ call[p].pc \in {"none"} \cup DetailLabels \cup PageLabels
               /\ call[p].pc \in DetailLabels => call[p].id \in Id
               /\ call[p].pc \in PageLabels => call[p].id \in Page
               /\ call[p].raw => call[p].id \in RawPage
               /\ Holds(p) => call[p].obj \in DOMAIN heap
               /\ call[p].pc \in {"relfill", "relset", "relput"} => call[p].rel.obj \in DOMAIN heap
    BY CallTyped DEF CallOk, DetailOk, Holds, Held, RelHeld
  <2> QED
    BY <2>1, <2>2, <2>3, <2>4 DEF TypeOK
<1> QED
  BY <1>1, Invariance, PTL

\* A detail is served normalized; one asked for after the provider has
\* recovered, and after the calls of before have ended, is served with covers
\* of its own and all its release dates, whatever the caches hold and however
\* the other calls interleave with it.
THEOREM DetailsServedWhole == Spec => []ServedWhole
<1>1. ASSUME Inv PROVE ServedWhole
  <2> SUFFICES ASSUME NEW p \in Caller, call[p].pc = "reply"
               PROVE  /\ ~heap[call[p].obj].raw
                      /\ call[p].late =>
                            /\ call[p].cover = "own" /\ call[p].dates \in {"all", "empty"}
                            /\ heap[call[p].obj].rec \in {"-", "own"}
    BY DEF ServedWhole, At
  <2> QED
    BY <1>1, CallTyped DEF CallOk, LateOk, Late, DetailLabels, Held, Normal
<1> QED
  BY <1>1, Invariance, PTL
---------------------------------------------------------------------------
(***************************************************************************)
(* The walk over episode pages.  Induction on the number of visits is by   *)
(* the least number that would be wrong.                                   *)
(***************************************************************************)
\* The walk is defined for every number of visits.
LEMMA WalkSteps ==
    ASSUME NEW site, NEW m \in Nat
    PROVE  /\ Walk(site, m)[0] = Start(site)
           /\ \A i \in 1..m : Walk(site, m)[i] = Visit(Walk(site, m)[i - 1], site, i)
<1> DEFINE Follows(g, k) == g = [i \in 0..k |-> IF i = 0 THEN Start(site) ELSE Visit(g[i - 1], site, i)]
           Short == {k \in Nat : \A g : ~Follows(g, k)}
<1>1. Short = {}
  <2> SUFFICES ASSUME Short # {} PROVE FALSE
    OBVIOUS
  <2>1. Short \in SUBSET Nat
    OBVIOUS
  <2> HIDE DEF Short
  <2>2. PICK k \in Short : \A j \in Short : k <= j
    BY <2>1, LeastNat
  <2>3. k \in Nat /\ \A g : ~Follows(g, k)
    BY <2>2, Zenon DEF Short
  <2>4. k # 0
    <3> DEFINE g == [i \in 0..0 |-> Start(site)]
    <3>1. Follows(g, 0)
      OBVIOUS
    <3> QED
      BY <2>3, <3>1
  <2>5. PICK g : Follows(g, k - 1)
    <3>1. k - 1 \in Nat /\ ~(k <= k - 1)
      BY <2>3, <2>4
    <3>2. k - 1 \notin Short
      BY <2>2, <3>1
    <3> QED
      BY <3>1, <3>2, Zenon DEF Short
  <2> DEFINE h == [i \in 0..k |-> IF i = k THEN Visit(g[k - 1], site, k) ELSE g[i]]
  <2>6. Follows(h, k)
    <3>1. \A i \in 0..(k - 1) : g[i] = IF i = 0 THEN Start(site) ELSE Visit(g[i - 1], site, i)
      BY <2>5
    <3>2. ASSUME NEW i \in 0..k
          PROVE  h[i] = IF i = 0 THEN Start(site) ELSE Visit(h[i - 1], site, i)
      BY <2>3, <2>4, <3>1
    <3>3. h = [i \in 0..k |-> h[i]]
      OBVIOUS
    <3> HIDE DEF h
    <3> QED
      BY <3>2, <3>3
  <2> QED
    BY <2>3, <2>6, Zenon
<1> DEFINE f == Walk(site, m)
<1>2. \E g : Follows(g, m)
  BY <1>1
<1>3. f = CHOOSE g : Follows(g, m)
  BY Zenon DEF Walk
<1>4. Follows(f, m)
  BY <1>2, <1>3, Zenon
<1> HIDE DEF f
<1>5. f[0] = Start(site) /\ \A i \in 1..m : f[i] = Visit(f[i - 1], site, i)
  BY <1>4
<1> QED
  BY <1>5 DEF f
Distinct(queue) == \A i, j \in 1..Len(queue) : i # j => queue[i] # queue[j]

\* What is queued is new and is added once, behind what was queued before.
LEMMA EnqueueIs ==
    ASSUME NEW R \in SUBSET Nat, IsFiniteSet(R), NEW queue \in Seq(R), Distinct(queue),
           NEW links \in SUBSET R
    PROVE  LET t == Enqueue(queue, links) IN
           /\ t \in Seq(R) /\ Distinct(t) /\ Len(queue) <= Len(t)
           /\ \A i \in 1..Len(queue) : t[i] = queue[i]
           /\ \A x \in links : \E i \in 1..Len(t) : t[i] = x
<1> DEFINE L == links \ visitedPages(queue)
           n == Cardinality(L)
           a == Ascending(L)
           t == queue \o a
<1>1. IsFiniteSet(L)
  BY FS_Subset, L \in SUBSET R, Zenon
<1>2. L \in SUBSET Int /\ \A x \in L : x \in R /\ \A i \in 1..Len(queue) : queue[i] # x
  <2>1. \A x \in L : x \in R /\ \A i \in 1..Len(queue) : queue[i] # x
    BY Zenon DEF visitedPages
  <2>2. L \in SUBSET R
    BY Zenon
  <2> HIDE DEF L
  <2>3. L \in SUBSET Int
    BY <2>2
  <2> QED
    BY <2>1, <2>3, Zenon
<1>3. \A x \in links : x \in L \/ \E i \in 1..Len(queue) : queue[i] = x
  BY DEF visitedPages
<1>4. Enqueue(queue, links) = t
  BY DEF Enqueue, extractEpisodePageLinks
<1> HIDE DEF L
<1>5. /\ n \in Nat /\ a \in [1..n -> L]
      /\ \A i, j \in 1..n : i < j => a[i] < a[j]
      /\ \A x \in L : \E i \in 1..n : a[i] = x
  BY <1>1, <1>2, AscendingIs
<1> HIDE DEF n, a
<1>6. a \in Seq(R) /\ Len(a) = n
  <2>1. n \in Nat /\ a \in [1..n -> R]
    BY <1>2, <1>5
  <2> QED
    BY <2>1
<1> DEFINE k == Len(queue)
<1>7. /\ k \in Nat /\ t \in Seq(R) /\ Len(t) = k + n
      /\ \A i \in 1..k : t[i] = queue[i] /\ queue[i] \in R
      /\ \A i \in 1..n : t[k + i] = a[i]
  BY <1>5, <1>6
<1> HIDE DEF t, k
<1>8. \A i \in 1..Len(t) : i \in 1..k \/ (i - k \in 1..n /\ t[i] = a[i - k])
  BY <1>5, <1>7
<1>9. Distinct(t)
  <2> SUFFICES ASSUME NEW i \in 1..Len(t), NEW j \in 1..Len(t), i < j PROVE t[i] # t[j]
    BY <1>5, <1>7 DEF Distinct
  <2>1. CASE i \in 1..k /\ j \in 1..k
    BY <1>7, <2>1 DEF Distinct, k
  <2>2. CASE i \in 1..k /\ j \notin 1..k
    <3>1. t[j] \in L
      BY <1>5, <1>8, <2>2
    <3> QED
      BY <1>2, <1>7, <2>2, <3>1 DEF k
  <2>3. CASE i \notin 1..k
    <3>1. j \notin 1..k /\ i \in Int /\ j \in Int
      BY <1>5, <1>7, <2>3
    <3>2. a[i - k] < a[j - k] /\ a[i - k] \in Int /\ a[j - k] \in Int
      <4>1. i - k \in 1..n /\ j - k \in 1..n /\ i - k < j - k
        BY <1>7, <1>8, <2>3, <3>1
      <4> QED
        BY <1>2, <1>5, <4>1
    <3> QED
      BY <1>8, <2>3, <3>1, <3>2
  <2> QED
    BY <2>1, <2>2, <2>3
<1>10. \A x \in links : \E i \in 1..Len(t) : t[i] = x
  <2> TAKE x \in links
  <2>1. CASE x \in L
    <3>1. PICK i \in 1..n : a[i] = x
      BY <1>5, <2>1
    <3>2. k + i \in 1..Len(t) /\ t[k + i] = x
      BY <1>5, <1>7, <3>1
    <3> QED
      BY <3>2
  <2>2. CASE \E i \in 1..k : queue[i] = x
    BY <1>5, <1>7, <2>2
  <2> QED
    BY <1>3, <2>1, <2>2 DEF k
<1>11. k <= Len(t)
  BY <1>5, <1>7
<1> QED
  BY <1>4, <1>7, <1>9, <1>10, <1>11 DEF k

\* What can be reached is itself a set that no link leads out of.
LEMMA ReachedIs ==
    ASSUME NEW site \in Sites
    PROVE  /\ Reached(site) \in SUBSET Nat /\ IsFiniteSet(Reached(site))
           /\ Closed(site, Reached(site))
<1> DEFINE P == PagesOf(site)
           R == Reached(site)
<1>1. /\ P \in SUBSET Nat /\ IsFiniteSet(P) /\ site.start.links \cup {Seed} \subseteq P
      /\ \A n \in P : site.links[n] \subseteq P
  BY SitesAssumption, Zenon
<1>2. R \in SUBSET P
  BY Zenon DEF Reached
<1>3. ASSUME NEW n \in P, \A S \in SUBSET P : Closed(site, S) => n \in S PROVE n \in R
  BY <1>3, Zenon DEF Reached
<1>4. ASSUME NEW n \in R, NEW S \in SUBSET P, Closed(site, S) PROVE n \in S
  BY <1>4, Zenon DEF Reached
<1>5. IsFiniteSet(R)
  BY <1>1, <1>2, FS_Subset, Zenon
<1> HIDE DEF P, R
<1>6. ASSUME NEW n \in site.start.links \cup {Seed} PROVE n \in R
  <2>1. \A S \in SUBSET P : Closed(site, S) => n \in S
    BY <1>6, Zenon DEF Closed
  <2>2. n \in P
    BY <1>1, <1>6, Zenon
  <2> QED
    BY <1>3, <2>1, <2>2, Zenon
<1>7. ASSUME NEW n \in R \cap site.up, NEW x \in site.links[n] PROVE x \in R
  <2>1. \A S \in SUBSET P : Closed(site, S) => x \in S
    <3> SUFFICES ASSUME NEW S \in SUBSET P, Closed(site, S) PROVE x \in S
      BY Zenon
    <3>1. n \in S
      BY <1>4, Zenon
    <3> QED
      BY <3>1, Zenon DEF Closed
  <2>2. x \in P
    BY <1>1, <1>2, Zenon
  <2> QED
    BY <1>3, <2>1, <2>2, Zenon
<1>8. Closed(site, R)
  BY <1>6, <1>7, Zenon DEF Closed
<1>9. R \in SUBSET Nat
  BY <1>1, <1>2
<1> QED
  BY <1>5, <1>8, <1>9 DEF R

AllOf(site) == site.start.eps \cup UNION {site.eps[n] : n \in Reached(site) \cap site.up}

\* Is page x queued?
Has(queue, x) == \E j \in 1..Len(queue) : queue[j] = x

\* After i visits: pages are queued once, and only pages that can be reached;
\* what the pages link to is queued, and what they list is known.
WalkOk(site, walk, i) ==
    LET q == walk.queue IN
    /\ q \in Seq(Reached(site)) /\ Distinct(q)
    /\ \A x \in site.start.links \cup {Seed} : Has(q, x)
    /\ \A j \in 1..Len(q) : j <= i /\ q[j] \in site.up =>
          /\ \A x \in site.links[q[j]] : Has(q, x)
          /\ site.eps[q[j]] \subseteq walk.refs
    /\ site.start.eps \subseteq walk.refs /\ walk.refs \subseteq AllOf(site)

LEMMA StartOk ==
    ASSUME NEW site \in Sites
    PROVE  WalkOk(site, Start(site), 0)
<1> DEFINE R == Reached(site)
           e == << >>
           q1 == Enqueue(e, site.start.links)
           q2 == Enqueue(q1, {Seed})
<1>1. /\ R \in SUBSET Nat /\ IsFiniteSet(R)
      /\ site.start.links \in SUBSET R /\ {Seed} \in SUBSET R
  BY ReachedIs, Zenon DEF Closed
<1>2. e \in Seq(R) /\ Distinct(e)
  BY DEF Distinct
<1> HIDE DEF R, e
<1>3. /\ q1 \in Seq(R) /\ Distinct(q1)
      /\ \A x \in site.start.links : Has(q1, x)
  BY <1>1, <1>2, EnqueueIs DEF Has
<1> HIDE DEF q1
<1>4. /\ q2 \in Seq(R) /\ Distinct(q2) /\ Len(q1) <= Len(q2)
      /\ \A j \in 1..Len(q1) : q2[j] = q1[j]
      /\ \A x \in {Seed} : Has(q2, x)
  BY <1>1, <1>3, EnqueueIs DEF Has
<1> HIDE DEF q2
<1>5. ASSUME NEW x \in site.start.links PROVE Has(q2, x)
  <2>1. PICK j \in 1..Len(q1) : q1[j] = x
    BY <1>3 DEF Has
  <2>2. j \in 1..Len(q2) /\ q2[j] = x
    BY <1>3, <1>4, <2>1
  <2> QED
    BY <2>2 DEF Has
<1>6. Start(site).queue = q2 /\ Start(site).refs = site.start.eps
  BY DEF Start, q2, q1, e
<1>7. \A j \in 1..Len(q2) : ~(j <= 0)
  BY <1>4
<1>8. site.start.eps \subseteq AllOf(site)
  BY Zenon DEF AllOf
<1>9. \A x \in site.start.links \cup {Seed} : Has(q2, x)
  BY <1>4, <1>5, Zenon
<1> QED
  BY <1>4, <1>6, <1>7, <1>8, <1>9, Zenon DEF WalkOk, R

LEMMA VisitOk ==
    ASSUME NEW site \in Sites, NEW walk, NEW i \in Nat \ {0}, WalkOk(site, walk, i - 1)
    PROVE  WalkOk(site, Visit(walk, site, i), i)
<1> DEFINE R == Reached(site)
           q == walk.queue
           w == Visit(walk, site, i)
<1>1. /\ q \in Seq(R) /\ Distinct(q)
      /\ \A x \in site.start.links \cup {Seed} : Has(q, x)
      /\ site.start.eps \subseteq walk.refs /\ walk.refs \subseteq AllOf(site)
  BY Zenon DEF WalkOk
<1>2. ASSUME NEW j \in 1..Len(q), j <= i - 1, q[j] \in site.up
      PROVE  (\A x \in site.links[q[j]] : Has(q, x)) /\ site.eps[q[j]] \subseteq walk.refs
  BY <1>2, Zenon DEF WalkOk
<1>3. CASE i > Len(q) \/ q[i] \notin site.up
  <2>1. w = walk
    BY <1>3, Zenon DEF Visit
  <2>2. ASSUME NEW j \in 1..Len(q), j <= i, q[j] \in site.up PROVE j <= i - 1
    <3>1. j # i
      BY <1>1, <1>3, <2>2
    <3> QED
      BY <1>1, <2>2, <3>1
  <2>3. \A j \in 1..Len(q) : j <= i /\ q[j] \in site.up =>
          (\A x \in site.links[q[j]] : Has(q, x)) /\ site.eps[q[j]] \subseteq walk.refs
    BY <1>2, <2>2, Zenon
  <2> QED
    BY <1>1, <2>1, <2>3, Zenon DEF WalkOk
<1>4. CASE ~(i > Len(q)) /\ q[i] \in site.up
  <2> DEFINE n == q[i]
             t == Enqueue(q, site.links[n])
             refs == walk.refs \cup site.eps[n]
  <2>1. w = [refs |-> refs, queue |-> t]
    BY <1>4 DEF Visit, mergeEpisodeRefs
  <2>2. w.refs = refs /\ w.queue = t
    BY <2>1
  <2>3. i \in 1..Len(q) /\ n \in R /\ n \in site.up
    BY <1>1, <1>4
  <2> HIDE DEF n
  <2>4. R \in SUBSET Nat /\ IsFiniteSet(R) /\ site.links[n] \in SUBSET R
    BY <2>3, ReachedIs, Zenon DEF Closed
  <2> HIDE DEF q, R, w
  <2>5. /\ t \in Seq(R) /\ Distinct(t) /\ Len(q) <= Len(t)
        /\ \A j \in 1..Len(q) : t[j] = q[j]
        /\ \A x \in site.links[n] : Has(t, x)
    BY <1>1, <2>4, EnqueueIs DEF Has
  <2> HIDE DEF t, refs
  <2>6. ASSUME NEW x, Has(q, x) PROVE Has(t, x)
    <3>1. PICK j \in 1..Len(q) : q[j] = x
      BY <2>6 DEF Has
    <3>2. j \in 1..Len(t) /\ t[j] = x
      BY <1>1, <2>5, <3>1
    <3> QED
      BY <3>2 DEF Has
  <2>7. site.eps[n] \subseteq refs /\ walk.refs \subseteq refs
    BY DEF refs
  <2>8. refs \subseteq AllOf(site)
    <3>1. site.eps[n] \subseteq AllOf(site)
      BY <2>3, Zenon DEF AllOf, R
    <3> QED
      BY <1>1, <3>1 DEF refs
  <2>9. ASSUME NEW j \in 1..Len(t), j <= i, t[j] \in site.up
        PROVE  (\A x \in site.links[t[j]] : Has(t, x)) /\ site.eps[t[j]] \subseteq refs
    <3>1. j \in 1..Len(q) /\ t[j] = q[j]
      BY <1>1, <2>3, <2>5, <2>9
    <3>2. CASE j = i
      <4>1. t[j] = n
        BY <3>1, <3>2 DEF n
      <4> QED
        BY <2>5, <2>7, <4>1, Zenon
    <3>3. CASE j # i
      <4>1. j <= i - 1
        BY <2>9, <3>3
      <4>2. (\A x \in site.links[q[j]] : Has(q, x)) /\ site.eps[q[j]] \subseteq walk.refs
        BY <1>2, <2>9, <3>1, <4>1, Zenon
      <4>3. site.eps[q[j]] \subseteq refs
        BY <2>7, <4>2, Zenon
      <4> QED
        BY <2>6, <3>1, <4>2, <4>3, Zenon
    <3> QED
      BY <3>2, <3>3
  <2>10. \A x \in site.start.links \cup {Seed} : Has(t, x)
    BY <1>1, <2>6, Zenon
  <2>11. site.start.eps \subseteq refs
    BY <1>1, <2>7, Zenon
  <2> QED
    BY <2>2, <2>5, <2>8, <2>9, <2>10, <2>11, Zenon DEF WalkOk, w, R
<1> QED
  BY <1>3, <1>4, Zenon

\* The least number of visits after which something would be wrong.
LEMMA WalkRight ==
    ASSUME NEW site \in Sites, NEW m \in Nat
    PROVE  WalkOk(site, Walk(site, m)[m], m)
<1> DEFINE f == Walk(site, m)
           Wrong == {i \in 0..m : ~WalkOk(site, f[i], i)}
<1>1. f[0] = Start(site) /\ \A i \in 1..m : f[i] = Visit(f[i - 1], site, i)
  BY WalkSteps
<1> HIDE DEF f
<1> SUFFICES ASSUME ~WalkOk(site, f[m], m) PROVE FALSE
  BY DEF f
<1>2. Wrong \in SUBSET Nat /\ Wrong # {}
  BY m \in Wrong
<1> HIDE DEF Wrong
<1>3. PICK i \in Wrong : \A j \in Wrong : i <= j
  BY <1>2, LeastNat
<1>4. i \in 0..m /\ ~WalkOk(site, f[i], i)
  BY <1>3, Zenon DEF Wrong
<1>5. i # 0
  BY <1>1, <1>4, StartOk
<1>6. i - 1 \in 0..m /\ ~(i <= i - 1) /\ i \in Nat \ {0} /\ i \in 1..m
  BY <1>4, <1>5
<1>7. WalkOk(site, f[i - 1], i - 1)
  <2>1. i - 1 \notin Wrong
    BY <1>3, <1>6, Zenon
  <2> QED
    BY <1>6, <2>1, Zenon DEF Wrong
<1>8. WalkOk(site, Visit(f[i - 1], site, i), i)
  BY <1>6, <1>7, VisitOk, Zenon
<1> QED
  BY <1>1, <1>4, <1>6, <1>8, Zenon

\* Pages queued once are no more than there are to reach.
LEMMA QueueBounded ==
    ASSUME NEW R, IsFiniteSet(R), NEW q \in Seq(R), Distinct(q)
    PROVE  Len(q) <= Cardinality(R) /\ Cardinality(R) \in Nat
<1> DEFINE k == Len(q)
<1>1. k \in Nat /\ q \in [1..k -> R]
  OBVIOUS
<1>2. IsFiniteSet(1..k) /\ Cardinality(1..k) = k
  BY <1>1, FS_Interval
<1>3. q \in Injection(1..k, R)
  BY <1>1 DEF Injection, IsInjective, Distinct
<1> QED
  BY <1>2, <1>3, FS_Injection, FS_CardinalityType

LEMMA WalkedFound ==
    ASSUME NEW site \in Sites, NEW limit \in Limits
    PROVE  Found(site, limit)
<1> DEFINE R == Reached(site)
           w == Walk(site, limit)[limit]
           q == w.queue
           all == AllOf(site)
<1>1. limit \in Nat
  BY SitesAssumption
<1>2. WalkOk(site, w, limit)
  BY <1>1, WalkRight
<1> HIDE DEF w
<1>3. /\ q \in Seq(R) /\ Distinct(q) /\ \A x \in site.start.links \cup {Seed} : Has(q, x)
      /\ site.start.eps \subseteq w.refs /\ w.refs \subseteq all
  BY <1>2, Zenon DEF WalkOk
<1>4. ASSUME NEW j \in 1..Len(q), j <= limit, q[j] \in site.up
      PROVE  (\A x \in site.links[q[j]] : Has(q, x)) /\ site.eps[q[j]] \subseteq w.refs
  BY <1>2, <1>4, Zenon DEF WalkOk
<1> HIDE DEF q
<1>5. R \in SUBSET Nat /\ IsFiniteSet(R) /\ R \in SUBSET PagesOf(site)
  BY ReachedIs, Zenon DEF Reached
<1>6. ASSUME Cardinality(R) <= limit PROVE all \subseteq w.refs
  <2> DEFINE S == {x \in R : Has(q, x)}
  <2>1. Len(q) <= Cardinality(R) /\ Cardinality(R) \in Nat /\ Len(q) \in Nat
    <3> HIDE DEF R
    <3> QED
      BY <1>3, <1>5, QueueBounded
  <2>2. \A j \in 1..Len(q) : j <= limit
    BY <1>1, <1>6, <2>1
  <2>3. ASSUME NEW x \in S \cap site.up
        PROVE  (\A y \in site.links[x] : Has(q, y)) /\ site.eps[x] \subseteq w.refs
    <3>1. PICK j \in 1..Len(q) : q[j] = x
      BY <2>3, Zenon DEF Has
    <3> QED
      BY <1>4, <2>2, <2>3, <3>1, Zenon
  <2>4. Closed(site, R)
    BY ReachedIs
  <2>5. Closed(site, S)
    BY <1>3, <2>3, <2>4, Zenon DEF Closed
  <2>6. S \in SUBSET PagesOf(site)
    BY <1>5, Zenon
  <2>7. R \subseteq S
    <3> HIDE DEF S
    <3> QED
      BY <2>5, <2>6, Zenon DEF Reached
  <2> QED
    BY <1>3, <2>3, <2>7, Zenon DEF AllOf
<1> SUFFICES ASSUME site.start.eps # {}
             PROVE  /\ site.start.eps \subseteq w.refs /\ w.refs \subseteq all
                    /\ Cardinality(R) <= limit => w.refs = all
  BY Zenon DEF Found, collectEpisodes, w, AllOf
<1> HIDE DEF all, R
<1> QED
  BY <1>3, <1>6, Zenon

\* When a detail is asked for, collectEpisodes finds all episodes on the pages
\* it can reach, if these are no more than it may visit, and otherwise nothing
\* that is not on them: on any sites with finitely many pages, with any limit.
THEOREM WalkMissesNothing == Spec => []EpisodesFound
<1>1. EpisodesFound
  BY WalkedFound, Zenon DEF EpisodesFound, EverySiteWalked
<1> QED
  BY <1>1, PTL
===========================================================================
