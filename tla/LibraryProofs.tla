--------------------------- MODULE LibraryProofs ---------------------------
(***************************************************************************)
(* The identifiers and the library, for any number of requests, ids and    *)
(* clients: the alias table implements AliasRegistry, what a client was    *)
(* sent resolves to what it was sent for, and saves and deletes that do    *)
(* not overlap leave what a map would hold.                                *)
(***************************************************************************)
EXTENDS Library, WellFoundedInduction, TLAPS

Names == {x.name : x \in Ref}
Ids == Names \cup Uuid \cup {NoRef}
Titles == {m.title : m \in Meta} \cup {""}
Vals == [ep : Ref \cup Ids, pos : Int, title : Titles]
RowT == [id : Nat, c : Token \cup {NoRef}, cat : Ref \cup {NoRef}, val : Vals]
Ops == {"none", "saveWatchlist", "deleteWatchlist", "deleteHistory", "saveHistory",
        "watchlist", "history", "continueWatching"}
JobT == [pc : JobLabels, op : Ops, c : Token \cup {NoRef}, cat : Ref \cup Ids,
         val : Vals, row : RowT, todo : SUBSET Ref]
AskT == [pc : {"none", "find", "create", "again", "got"}, ref : Ref \cup {NoRef}, id : Ids]

WantT == [clean : BOOLEAN, val : Vals]

\* The types of the variables, as far as the steps need them.
AliasTypes ==
    /\ alias \in SUBSET [ref : Ref, public : Uuid]
    /\ ids \in [Worker -> AskT]
    /\ handed \in SUBSET (Ref \X Ids)
ClockTypes == minute \in 0..MaxMinute /\ DOMAIN counts \subseteq 0..minute
Types ==
    /\ clients \in SUBSET Token
    /\ table \in [Tables -> SUBSET RowT]
    /\ serial \in [Tables -> Nat]
    /\ job \in [Worker -> JobT]
    /\ want \in [Tables -> [Keys -> WantT]]

Leads(x, id) == id = x.name \/ \E r \in alias : r.ref = x /\ r.public = id

\* The unique indexes hold, and an id that is on its way to a client, or was
\* sent, is the internal id or the public id of the one row it has.
Unique == \A r, s \in alias : r.ref = s.ref \/ r.public = s.public => r = s
Asking == \A w \in Worker : ids[w].pc # "none" =>
             ids[w].ref \in Ref /\ Leads(ids[w].ref, ids[w].id)
Sent == \A h \in handed : Leads(h[1], h[2])
AliasInv == AliasTypes /\ Unique /\ Asking /\ Sent

\* What a job knows at each of its steps.
JobOk(w) ==
    /\ ids[w].pc # "none" => job[w].pc = "publish"
    /\ job[w].pc \in {"saveWatchlist", "detail", "saveHistory", "find", "save",
                      "deleteWatchlist", "deleteHistory", "delete"} => job[w].c \in clients
    /\ job[w].pc \in {"saveWatchlist", "saveHistory"} => job[w].op = job[w].pc
    /\ job[w].pc = "detail" => job[w].op = "saveWatchlist"
    /\ job[w].pc \in {"find", "save"} => job[w].op \in {"saveWatchlist", "saveHistory"}
    /\ job[w].pc = "client" => job[w].op # "none"
    /\ job[w].pc \in {"detail", "find", "save", "delete"} => job[w].cat \in OfKind("catalog")
    /\ job[w].op = "saveHistory" => job[w].val.pos >= 0
    /\ job[w].pc \in {"find", "save"} =>
          /\ job[w].val.pos >= 0
          /\ job[w].op = "saveHistory" => job[w].val.ep \in OfKind("episode")
JobInv == \A w \in Worker : JobOk(w)

\* Rows belong to clients and catalogs; ids are given once.
RowOk(t, r) ==
    /\ r.id >= 1 /\ r.id <= serial[t] /\ r.c \in clients
    /\ r.cat \in OfKind("catalog")
    /\ t = "history" => r.val.ep \in OfKind("episode")
TableInv == \A t \in Tables : /\ \A r \in table[t] : RowOk(t, r)
                              /\ \A r, s \in table[t] : r.id = s.id => r = s

\* The id a save has found belongs to its key, for the table and for every
\* other save that has found it.
FoundOk(w) ==
    At(w, "save") =>
      /\ job[w].row.id <= serial[TableOf(w)]
      /\ job[w].row.id = 0 => job[w].row = NoRow
      /\ job[w].row.id # 0 =>
           /\ \A r \in table[TableOf(w)] : r.id = job[w].row.id =>
                 r.c = job[w].c /\ r.cat = job[w].cat
           /\ \A v \in Worker : At(v, "save") /\ TableOf(v) = TableOf(w)
                                /\ job[v].row.id = job[w].row.id => Key(v) = Key(w)
FoundInv == \A w \in Worker : FoundOk(w)

\* A key that is clean has at most one save under way, and that save has seen
\* the row there is.
Holds(t, k) ==
    \/ RowsIn(t, k) = {} /\ want[t][k].val = NoVal
    \/ /\ want[t][k].val # NoVal
       /\ \E r \in RowsIn(t, k) : RowsIn(t, k) = {r} /\ r.val = want[t][k].val
Alone(t, k) ==
    \A w \in Saving(t, k) :
        /\ \A v \in Saving(t, k) : v = w
        /\ (RowsIn(t, k) = {} /\ job[w].row = NoRow) \/ RowsIn(t, k) = {job[w].row}
SaveInv == \A t \in Tables : \A k \in Keys :
              want[t][k].clean => Holds(t, k) /\ Alone(t, k)

Inv == ClockTypes /\ AliasInv /\ Types /\ JobInv /\ TableInv /\ FoundInv /\ SaveInv
---------------------------------------------------------------------------
LEMMA NothingTyped == NoVal \in Vals /\ NoRow \in RowT /\ NoJob \in JobT /\ NoAsk \in AskT
<1>1. NoVal \in Vals
  BY DEF NoVal, Vals, Ids, Titles
<1>2. NoRow \in RowT
  BY <1>1 DEF NoRow, RowT
<1>3. NoJob \in JobT
  BY <1>1, <1>2 DEF NoJob, JobT, JobLabels, Ops, Ids
<1>4. NoAsk \in AskT
  BY DEF NoAsk, AskT, Ids
<1> QED
  BY <1>1, <1>2, <1>3, <1>4

\* The invariant holds initially: the tables are empty and no request is there.
LEMMA InvInit == Init => Inv
<1> SUFFICES ASSUME Init PROVE Inv
  OBVIOUS
<1>1. ClockTypes
  BY MinuteAssumption DEF Init, ClockTypes
<1>2. AliasInv
  BY NothingTyped DEF Init, AliasInit, AliasInv, AliasTypes, Unique, Asking, Sent, NoAsk
<1>3. Types
  BY NothingTyped DEF Init, Types, Tables, WantT
<1>4. JobInv
  BY DEF Init, AliasInit, NoAsk, JobInv, JobOk, NoJob
<1>5. TableInv /\ FoundInv
  BY DEF Init, TableInv, FoundInv, FoundOk, At, NoJob, Tables
<1>6. SaveInv
  BY DEF Init, SaveInv, Holds, Alone, RowsIn, Saving, At, NoJob
<1> QED
  BY <1>1, <1>2, <1>3, <1>4, <1>5, <1>6 DEF Inv
---------------------------------------------------------------------------
(***************************************************************************)
(* Steps that change one job, not to or from a save.                       *)
(***************************************************************************)
OnlyJob(w) ==
    /\ job' \in [Worker -> JobT]
    /\ \A v \in Worker \ {w} : job'[v] = job[v]
    /\ job[w].pc # "save" /\ job'[w].pc # "save"
    /\ clients \subseteq clients' /\ clients' \subseteq Token
    /\ UNCHANGED <<aliasVars, table, serial, want>>

LEMMA ClientsTyped == ASSUME Types PROVE clients \subseteq Token
BY DEF Types

LEMMA SavingSame ==
    ASSUME NEW w \in Worker, OnlyJob(w), NEW t, NEW k
    PROVE  Saving(t, k)' = Saving(t, k)
<1>1. \A v \in Worker : At(v, "save")' <=> At(v, "save")
  BY DEF OnlyJob, At
<1>2. \A v \in Worker : At(v, "save") => job'[v] = job[v]
  BY DEF OnlyJob, At
<1>3. \A v \in Worker : At(v, "save") => TableOf(v)' = TableOf(v) /\ Key(v)' = Key(v)
  BY <1>2 DEF TableOf, Key
<1> QED
  BY <1>1, <1>3 DEF Saving

LEMMA OnlyJobKeeps ==
    ASSUME Inv, NEW w \in Worker, OnlyJob(w), ClockTypes', JobOk(w)'
    PROVE  Inv'
<1>1. AliasInv'
  BY DEF Inv, AliasInv, AliasTypes, Unique, Asking, Sent, Leads, OnlyJob, aliasVars
<1>2. Types'
  BY DEF Inv, Types, OnlyJob
<1>3. JobInv'
  <2> SUFFICES ASSUME NEW v \in Worker PROVE JobOk(v)'
    BY DEF JobInv
  <2>1. CASE v = w
    BY <2>1
  <2>2. CASE v # w
    BY <2>2 DEF Inv, JobInv, JobOk, OnlyJob, aliasVars
  <2> QED
    BY <2>1, <2>2
<1>4. TableInv'
  BY DEF Inv, TableInv, RowOk, OnlyJob
<1>5. FoundInv'
  <2> SUFFICES ASSUME NEW v \in Worker, At(v, "save")' PROVE FoundOk(v)'
    BY DEF FoundInv, FoundOk
  <2>1. \A u \in Worker : At(u, "save")' => At(u, "save") /\ job'[u] = job[u]
    BY DEF OnlyJob, At
  <2>2. FoundOk(v)
    BY DEF Inv, FoundInv
  <2> QED
    BY <2>1, <2>2 DEF FoundOk, OnlyJob, TableOf, Key
<1>6. SaveInv'
  <2> SUFFICES ASSUME NEW t \in Tables, NEW k \in Keys, want'[t][k].clean
               PROVE  Holds(t, k)' /\ Alone(t, k)'
    BY DEF SaveInv
  <2>1. Holds(t, k) /\ Alone(t, k)
    BY DEF Inv, SaveInv, OnlyJob
  <2>2. Holds(t, k)'
    BY <2>1 DEF Holds, RowsIn, OnlyJob
  <2>3. \A v \in Saving(t, k) : job'[v] = job[v]
    BY DEF Saving, At, OnlyJob
  <2>4. RowsIn(t, k)' = RowsIn(t, k)
    BY DEF RowsIn, OnlyJob
  <2>5. Alone(t, k)'
    BY <2>1, <2>3, <2>4, SavingSame DEF Alone
  <2> QED
    BY <2>2, <2>5
<1> QED
  BY <1>1, <1>2, <1>3, <1>4, <1>5, <1>6 DEF Inv
---------------------------------------------------------------------------
\* What the ways to move one job leave.
LEMMA GotoFacts ==
    ASSUME Types, NEW w \in Worker, NEW label \in JobLabels, Goto(w, label)
    PROVE  /\ job' \in [Worker -> JobT]
           /\ \A v \in Worker \ {w} : job'[v] = job[v]
           /\ job'[w] = [job[w] EXCEPT !.pc = label]
<1>1. [job[w] EXCEPT !.pc = label] \in JobT
  BY DEF Types, JobT
<1> QED
  BY <1>1 DEF Types, Goto

LEMMA DoneFacts ==
    ASSUME Types, NEW w \in Worker, Done(w)
    PROVE  /\ job' \in [Worker -> JobT]
           /\ \A v \in Worker \ {w} : job'[v] = job[v]
           /\ job'[w] = NoJob
BY NothingTyped DEF Types, Done

\* A request that ends, or that never started, is in order.
LEMMA NoJobOk ==
    ASSUME NEW w \in Worker, job'[w] = NoJob, ids'[w].pc = "none"
    PROVE  JobOk(w)'
<1>1. job'[w].pc = "none" /\ job'[w].op = "none"
  BY DEF NoJob
<1> QED
  BY <1>1 DEF JobOk

LEMMA DoneKeeps ==
    ASSUME Inv, NEW w \in Worker, Done(w), job[w].pc \notin {"save", "publish"},
           UNCHANGED <<aliasVars, minute, counts, clients, table, serial, want>>
    PROVE  Inv'
<1>1. OnlyJob(w)
  BY DoneFacts, ClientsTyped DEF Inv, OnlyJob, NoJob
<1>2. ids'[w].pc = "none"
  BY DEF Inv, JobInv, JobOk, aliasVars
<1>3. ClockTypes'
  BY DEF Inv, ClockTypes
<1> QED
  BY <1>1, <1>2, <1>3, DoneFacts, NoJobOk, OnlyJobKeeps DEF Inv

LEMMA RequireClient == ASSUME Inv, NEW w \in Worker, requireClient(w) PROVE Inv'
<1>1. CASE Done(w)
  BY <1>1, DoneKeeps DEF requireClient, At
<1>2. CASE job[w].c \in clients /\ Goto(w, job[w].op)
  <2>1. job[w] \in JobT /\ job[w].op \in Ops \ {"none"} /\ job[w].pc = "client"
    BY DEF requireClient, At, Inv, JobInv, JobOk, Types, JobT
  <2>2. job[w].op \in JobLabels /\ job[w].op # "save"
    BY <2>1 DEF Ops, JobLabels
  <2>3. OnlyJob(w) /\ job'[w] = [job[w] EXCEPT !.pc = job[w].op]
    BY <1>2, <2>1, <2>2, GotoFacts, ClientsTyped DEF Inv, OnlyJob, requireClient, JobT
  <2>4. JobOk(w)'
    BY <1>2, <2>1, <2>3 DEF OnlyJob, aliasVars, Inv, JobInv, JobOk, JobT, Ops
  <2>5. ClockTypes'
    BY DEF Inv, ClockTypes, requireClient
  <2> QED
    BY <2>3, <2>4, <2>5, OnlyJobKeeps
<1> QED
  BY <1>1, <1>2 DEF requireClient

LEMMA EnsureSession == ASSUME Inv, NEW w \in Worker, ensureSession(w) PROVE Inv'
<1>1. CASE Done(w)
  BY <1>1, DoneKeeps DEF ensureSession, At
<1>2. CASE Goto(w, "create")
  <2>1. job[w] \in JobT /\ job[w].pc = "session"
    BY DEF ensureSession, At, Inv, Types
  <2>2. OnlyJob(w) /\ job'[w] = [job[w] EXCEPT !.pc = "create"]
    BY <1>2, <2>1, GotoFacts, ClientsTyped DEF Inv, OnlyJob, ensureSession, JobT, JobLabels
  <2>3. JobOk(w)'
    BY <2>1, <2>2 DEF OnlyJob, aliasVars, Inv, JobInv, JobOk, JobT
  <2>4. ClockTypes'
    BY DEF Inv, ClockTypes, ensureSession
  <2> QED
    BY <2>2, <2>3, <2>4, OnlyJobKeeps
<1> QED
  BY <1>1, <1>2 DEF ensureSession

LEMMA ContinueWatchingKeeps == ASSUME Inv, NEW w \in Worker, continueWatching(w) PROVE Inv'
<1>1. CASE Done(w)
  BY <1>1, DoneKeeps DEF continueWatching, At
<1>2. CASE Goto(w, "publish")
  <2>1. job[w] \in JobT /\ job[w].pc = "meta"
    BY DEF continueWatching, At, Inv, Types
  <2>2. OnlyJob(w) /\ job'[w] = [job[w] EXCEPT !.pc = "publish"]
    BY <1>2, <2>1, GotoFacts, ClientsTyped DEF Inv, OnlyJob, continueWatching, JobT, JobLabels
  <2>3. JobOk(w)'
    BY <2>1, <2>2 DEF OnlyJob, aliasVars, Inv, JobInv, JobOk, JobT
  <2>4. ClockTypes'
    BY DEF Inv, ClockTypes, continueWatching
  <2> QED
    BY <2>2, <2>3, <2>4, OnlyJobKeeps
<1> QED
  BY <1>1, <1>2 DEF continueWatching

LEMMA PublishFacts ==
    ASSUME Types, NEW w \in Worker, NEW refs \in SUBSET Ref, Publish(w, refs)
    PROVE  /\ job' \in [Worker -> JobT]
           /\ \A v \in Worker \ {w} : job'[v] = job[v]
           /\ job'[w] = [job[w] EXCEPT !.pc = "publish", !.todo = refs]
<1>1. [job[w] EXCEPT !.pc = "publish", !.todo = refs] \in JobT
  BY DEF Types, JobT, JobLabels
<1> QED
  BY <1>1 DEF Types, Publish

LEMMA PublishKeeps ==
    ASSUME Inv, NEW w \in Worker, NEW refs \in SUBSET Ref, Publish(w, refs),
           job[w].pc # "save",
           UNCHANGED <<aliasVars, minute, counts, clients, table, serial, want>>
    PROVE  Inv'
<1>1. job[w] \in JobT
  BY DEF Inv, Types
<1>2. OnlyJob(w) /\ job'[w] = [job[w] EXCEPT !.pc = "publish", !.todo = refs]
  BY <1>1, PublishFacts, ClientsTyped DEF Inv, OnlyJob, JobT
<1>3. JobOk(w)'
  BY <1>1, <1>2 DEF OnlyJob, aliasVars, Inv, JobInv, JobOk, JobT
<1>4. ClockTypes'
  BY DEF Inv, ClockTypes
<1> QED
  BY <1>2, <1>3, <1>4, OnlyJobKeeps

LEMMA BrowseKeeps == ASSUME Inv, NEW w \in Worker, browse(w) PROVE Inv'
BY PublishKeeps DEF browse, At

LEMMA WatchlistKeeps == ASSUME Inv, NEW w \in Worker, watchlist(w) PROVE Inv'
<1> DEFINE refs == {r.cat : r \in RowsFor("watchlist", job[w].c)}
<1>1. refs \in SUBSET Ref
  BY DEF Inv, TableInv, RowOk, RowsFor, OfKind, Tables
<1>2. CASE Publish(w, refs)
  BY <1>1, <1>2, PublishKeeps DEF watchlist, At
<1>3. CASE Done(w)
  BY <1>3, DoneKeeps DEF watchlist, At
<1> QED
  BY <1>2, <1>3 DEF watchlist

LEMMA HistoryKeeps == ASSUME Inv, NEW w \in Worker, history(w) PROVE Inv'
<1> DEFINE rows == RowsFor("history", job[w].c)
           refs == {r.cat : r \in rows} \cup {r.val.ep : r \in rows}
<1>1. refs \in SUBSET Ref
  BY DEF Inv, TableInv, RowOk, RowsFor, OfKind, Tables
<1>2. CASE Done(w)
  BY <1>2, DoneKeeps DEF history, At
<1>3. CASE job' = [job EXCEPT ![w].todo = refs,
                              ![w].pc = IF @ = "history" THEN "publish" ELSE "meta"]
  <2> HIDE DEF refs
  <2>1. job[w] \in JobT /\ job[w].pc \in {"history", "continueWatching"}
    BY DEF Inv, Types, history, At
  <2>2. PICK label \in {"publish", "meta"} :
           job'[w] = [job[w] EXCEPT !.todo = refs, !.pc = label]
    BY <1>3, <2>1 DEF Inv, Types, JobT
  <2>3. job'[w] \in JobT
    BY <2>1, <2>2, <1>1 DEF JobT, JobLabels
  <2>4. job' \in [Worker -> JobT] /\ \A v \in Worker \ {w} : job'[v] = job[v]
    BY <1>3, <2>3 DEF Inv, Types
  <2>5. OnlyJob(w)
    BY <2>1, <2>2, <2>4, ClientsTyped DEF Inv, OnlyJob, history, JobT
  <2>6. JobOk(w)'
    BY <2>1, <2>2, <2>5 DEF OnlyJob, aliasVars, Inv, JobInv, JobOk, JobT
  <2>7. ClockTypes'
    BY DEF Inv, ClockTypes, history
  <2> QED
    BY <2>5, <2>6, <2>7, OnlyJobKeeps
<1> QED
  BY <1>2, <1>3 DEF history
---------------------------------------------------------------------------
\* A request as it arrives.
Fresh(q) ==
    /\ q \in JobT
    /\ q.pc \in {"session", "browse", "client"}
    /\ q.pc = "client" => q.op # "none"
    /\ q.op = "saveHistory" => q.val.pos >= 0

LEMMA GivenTyped == ASSUME AliasTypes, NEW kind PROVE Given(kind) \subseteq Ids
BY DEF AliasTypes, Given, OfKind, Ids, Names

LEMMA ProtectedFresh ==
    ASSUME NEW op \in Ops \ {"none", "saveHistory"}
    PROVE  Fresh(Protected(op)) /\ Protected(op).pc = "client"
           /\ Protected(op).op = op
BY NothingTyped DEF Fresh, Protected, NoJob, JobT, JobLabels, Ops

Requests == {[NoJob EXCEPT !.pc = p] : p \in {"session", "browse"}}
            \cup WithCatalog \cup SaveHistories \cup Lists

LEMMA RequestsFresh == ASSUME AliasTypes, NEW q \in Requests PROVE Fresh(q)
<1>1. CASE q \in {[NoJob EXCEPT !.pc = p] : p \in {"session", "browse"}}
  BY <1>1, NothingTyped DEF Fresh, NoJob, JobT, JobLabels
<1>2. CASE q \in Lists
  BY <1>2, ProtectedFresh DEF Lists, Ops
<1>3. CASE q \in WithCatalog
  <2>1. PICK op \in {"saveWatchlist", "deleteWatchlist", "deleteHistory"}, v \in Given("catalog") :
           q = [Protected(op) EXCEPT !.cat = v]
    BY <1>3 DEF WithCatalog
  <2>2. v \in Ids
    BY GivenTyped
  <2> QED
    BY <2>1, <2>2, ProtectedFresh DEF Fresh, JobT, Ops
<1>4. CASE q \in SaveHistories
  <2>1. PICK v \in Given("catalog"), y \in Given("episode"), m \in Meta : q = WithEpisode(v, y, m)
    BY <1>4 DEF SaveHistories
  <2>2. v \in Ids /\ y \in Ids
    BY GivenTyped
  <2>3. m.pos \in Nat /\ m.title \in Titles
    BY MetaAssumption DEF Titles
  <2>4. [ep |-> y, pos |-> m.pos, title |-> m.title] \in Vals
    BY <2>2, <2>3 DEF Vals
  <2>5. Protected("saveHistory") \in JobT
    BY NothingTyped DEF Protected, NoJob, JobT, JobLabels, Ops
  <2>6. q \in JobT /\ q.val.pos = m.pos
    BY <2>1, <2>2, <2>4, <2>5 DEF JobT, WithEpisode
  <2>7. q.pc = "client" /\ q.op = "saveHistory"
    BY <2>1 DEF WithEpisode, Protected, NoJob
  <2> QED
    BY <2>3, <2>6, <2>7 DEF Fresh
<1> QED
  BY <1>1, <1>2, <1>3, <1>4 DEF Requests

LEMMA ArriveKeeps == ASSUME Inv, NEW w \in Worker, Arrive(w) PROVE Inv'
<1>0. PICK r \in Requests, c \in Token : rateLimit(w, [r EXCEPT !.c = c])
  BY Zenon DEF Arrive, Requests
<1>1. Fresh(r) /\ rateLimit(w, [r EXCEPT !.c = c])
  BY <1>0, RequestsFresh DEF Inv, AliasInv
<1> DEFINE q == [r EXCEPT !.c = c]
<1>2. Fresh(q)
  BY <1>1 DEF Fresh, JobT
<1> HIDE DEF q
<1>3. job[w].pc = "none" /\ ids[w].pc = "none"
  BY <1>1 DEF rateLimit, At, Inv, JobInv, JobOk
<1>4. ClockTypes'
  BY <1>1 DEF rateLimit, Inv, ClockTypes
<1>5. UNCHANGED <<aliasVars, clients, table, serial, want>>
  BY <1>1 DEF rateLimit
<1>6. CASE job' = [job EXCEPT ![w] = q]
  <2>1. OnlyJob(w) /\ job'[w] = q
    BY <1>2, <1>3, <1>5, <1>6 DEF OnlyJob, Fresh, Inv, Types
  <2>2. JobOk(w)'
    BY <1>2, <1>3, <1>5, <2>1 DEF JobOk, Fresh, aliasVars
  <2> QED
    BY <1>4, <2>1, <2>2, OnlyJobKeeps
<1>7. CASE job' = job
  <2>1. OnlyJob(w) /\ JobOk(w)'
    BY <1>3, <1>5, <1>7 DEF OnlyJob, Inv, Types, JobInv, JobOk, aliasVars
  <2> QED
    BY <1>4, <2>1, OnlyJobKeeps
<1> QED
  BY <1>1, <1>6, <1>7 DEF rateLimit, q
---------------------------------------------------------------------------
\* The id of a request, resolved.
LEMMA ResolveKeeps ==
    ASSUME Inv, NEW w \in Worker, NEW label \in {"detail", "delete"},
           ResolveCatalogID(w, label), job[w].c \in clients,
           job[w].pc \in {"saveWatchlist", "deleteWatchlist", "deleteHistory"},
           label = "detail" => job[w].op = "saveWatchlist",
           UNCHANGED <<aliasVars, minute, counts, clients, table, serial, want>>
    PROVE  Inv'
<1>1. CASE Done(w)
  BY <1>1, DoneKeeps
<1>2. ASSUME NEW x \in OfKind("catalog"),
             job' = [job EXCEPT ![w].pc = label, ![w].cat = x]
      PROVE  Inv'
  <2>1. job[w] \in JobT /\ x \in Ref
    BY DEF Inv, Types, OfKind
  <2>2. [job[w] EXCEPT !.pc = label, !.cat = x] \in JobT
    BY <2>1 DEF JobT, JobLabels
  <2>3. OnlyJob(w) /\ job'[w] = [job[w] EXCEPT !.pc = label, !.cat = x]
    BY <1>2, <2>1, <2>2 DEF OnlyJob, Inv, Types, JobT
  <2>4. JobOk(w)'
    BY <1>2, <2>1, <2>3 DEF OnlyJob, aliasVars, Inv, JobInv, JobOk, JobT
  <2>5. ClockTypes'
    BY DEF Inv, ClockTypes
  <2> QED
    BY <2>3, <2>4, <2>5, OnlyJobKeeps
<1> QED
  BY <1>1, <1>2 DEF ResolveCatalogID

LEMMA SaveWatchlistHandlerKeeps == ASSUME Inv, NEW w \in Worker, saveWatchlist(w) PROVE Inv'
<1>1. job[w].c \in clients /\ job[w].op = "saveWatchlist" /\ job[w].pc = "saveWatchlist"
  BY DEF saveWatchlist, At, Inv, JobInv, JobOk
<1> QED
  BY <1>1, ResolveKeeps DEF saveWatchlist

LEMMA DeleteHandlerKeeps == ASSUME Inv, NEW w \in Worker, deleteHandler(w) PROVE Inv'
<1>1. job[w].c \in clients /\ job[w].pc \in {"deleteWatchlist", "deleteHistory"}
  BY DEF deleteHandler, At, Inv, JobInv, JobOk
<1> QED
  BY <1>1, ResolveKeeps DEF deleteHandler

LEMMA SaveWatchlistKeeps == ASSUME Inv, NEW w \in Worker, SaveWatchlist(w) PROVE Inv'
<1>1. CASE Done(w)
  BY <1>1, DoneKeeps DEF SaveWatchlist, At
<1>2. ASSUME NEW m \in Meta, job' = [job EXCEPT ![w].pc = "find",
             ![w].val = [ep |-> NoRef, pos |-> 0, title |-> m.title]]
      PROVE  Inv'
  <2> DEFINE val == [ep |-> NoRef, pos |-> 0, title |-> m.title]
  <2>1. job[w] \in JobT /\ job[w].pc = "detail" /\ job[w].c \in clients
        /\ job[w].cat \in OfKind("catalog") /\ job[w].op = "saveWatchlist"
    BY DEF SaveWatchlist, At, Inv, Types, JobInv, JobOk
  <2>0. m.title \in Titles
    BY DEF Titles
  <2>2. val \in Vals /\ val.pos = 0
    BY <2>0 DEF Vals, Ids
  <2> HIDE DEF val
  <2>3. [job[w] EXCEPT !.pc = "find", !.val = val] \in JobT
    BY <2>1, <2>2 DEF JobT, JobLabels
  <2>4. job' = [job EXCEPT ![w].pc = "find", ![w].val = val]
    BY <1>2 DEF val
  <2>5. OnlyJob(w) /\ job'[w] = [job[w] EXCEPT !.pc = "find", !.val = val]
    BY <2>1, <2>3, <2>4 DEF OnlyJob, Inv, Types, JobT, SaveWatchlist
  <2>6. JobOk(w)'
    BY <2>1, <2>2, <2>5 DEF OnlyJob, aliasVars, Inv, JobInv, JobOk, JobT
  <2>7. ClockTypes'
    BY DEF Inv, ClockTypes, SaveWatchlist
  <2> QED
    BY <2>5, <2>6, <2>7, OnlyJobKeeps
<1> QED
  BY <1>1, <1>2 DEF SaveWatchlist

LEMMA SaveHistoryKeeps == ASSUME Inv, NEW w \in Worker, saveHistory(w) PROVE Inv'
<1>1. CASE Done(w)
  BY <1>1, DoneKeeps DEF saveHistory, At
<1>2. ASSUME NEW x \in OfKind("catalog"), NEW y \in OfKind("episode"),
             job' = [job EXCEPT ![w].pc = "find", ![w].cat = x, ![w].val.ep = y]
      PROVE  Inv'
  <2> DEFINE val == [job[w].val EXCEPT !.ep = y]
  <2>1. job[w] \in JobT /\ job[w].pc = "saveHistory" /\ job[w].c \in clients
        /\ job[w].op = "saveHistory" /\ job[w].val.pos >= 0 /\ x \in Ref /\ y \in Ref
    BY DEF saveHistory, At, Inv, Types, JobInv, JobOk, OfKind
  <2>2. val \in Vals /\ val.pos = job[w].val.pos /\ val.ep = y
    BY <2>1 DEF Vals, JobT
  <2> HIDE DEF val
  <2>3. [job[w] EXCEPT !.pc = "find", !.cat = x, !.val = val] \in JobT
    BY <2>1, <2>2 DEF JobT, JobLabels
  <2>4. job' = [job EXCEPT ![w] = [job[w] EXCEPT !.pc = "find", !.cat = x, !.val = val]]
    BY <1>2, <2>1 DEF val, Inv, Types, JobT
  <2>5. OnlyJob(w) /\ job'[w] = [job[w] EXCEPT !.pc = "find", !.cat = x, !.val = val]
    BY <2>1, <2>3, <2>4 DEF OnlyJob, Inv, Types, JobT, saveHistory
  <2>6. JobOk(w)'
    BY <1>2, <2>1, <2>2, <2>5 DEF OnlyJob, aliasVars, Inv, JobInv, JobOk, JobT
  <2>7. ClockTypes'
    BY DEF Inv, ClockTypes, saveHistory
  <2> QED
    BY <2>5, <2>6, <2>7, OnlyJobKeeps
<1> QED
  BY <1>1, <1>2 DEF saveHistory
---------------------------------------------------------------------------
(***************************************************************************)
(* The other steps of a request that touch no table, and the clock.        *)
(***************************************************************************)
LEMMA EnsureClientKeeps == ASSUME Inv, NEW w \in Worker, EnsureClient(w) PROVE Inv'
<1>1. job[w].pc = "create"
  BY DEF EnsureClient, At
<1>2. ids'[w].pc = "none"
  BY <1>1 DEF EnsureClient, Inv, JobInv, JobOk, aliasVars
<1>3. job'[w] = NoJob
  BY DoneFacts DEF EnsureClient, Inv
<1>4. clients \subseteq clients' /\ clients' \subseteq Token
  BY DEF EnsureClient, Inv, Types
<1>5. OnlyJob(w)
  BY <1>1, <1>3, <1>4, DoneFacts DEF EnsureClient, Inv, OnlyJob, NoJob
<1>6. ClockTypes'
  BY DEF EnsureClient, Inv, ClockTypes
<1> QED
  BY <1>2, <1>3, <1>5, <1>6, NoJobOk, OnlyJobKeeps

LEMMA NextMinuteKeeps == ASSUME Inv, NextMinute PROVE Inv'
<1>1. ClockTypes'
  BY MinuteAssumption DEF NextMinute, Inv, ClockTypes
<1>2. AliasInv' /\ Types'
  BY DEF NextMinute, Inv, Types, AliasInv, AliasTypes, Unique, Asking, Sent, Leads, aliasVars
<1>3. JobInv' /\ TableInv'
  BY DEF NextMinute, Inv, JobInv, JobOk, TableInv, RowOk, aliasVars
<1>4. FoundInv' /\ SaveInv'
  BY DEF NextMinute, Inv, FoundInv, FoundOk, SaveInv, Holds, Alone, RowsIn, Saving, At, TableOf, Key
<1> QED
  BY <1>1, <1>2, <1>3, <1>4 DEF Inv

LEMMA RestartKeeps == ASSUME Inv, Restart PROVE Inv'
<1>1. \A w \in Worker : job'[w] = NoJob /\ ids'[w] = NoAsk
  BY DEF Restart, AliasRestart
<1>2. \A w \in Worker : job'[w].pc = "none" /\ ids'[w].pc = "none"
  BY <1>1 DEF NoJob, NoAsk
<1>3. ClockTypes'
  BY MinuteAssumption DEF Restart, Inv, ClockTypes
<1>4. AliasInv'
  BY <1>2, NothingTyped
  DEF Restart, AliasRestart, Inv, AliasInv, AliasTypes, Unique, Asking, Sent, Leads
<1>5. Types'
  BY NothingTyped DEF Restart, Inv, Types
<1>6. JobInv'
  BY <1>1, <1>2, NoJobOk DEF JobInv
<1>7. TableInv' /\ FoundInv'
  BY <1>2 DEF Restart, Inv, TableInv, RowOk, FoundInv, FoundOk, At
<1>8. SaveInv'
  BY <1>2 DEF Restart, Inv, SaveInv, Holds, Alone, RowsIn, Saving, At
<1> QED
  BY <1>3, <1>4, <1>5, <1>6, <1>7, <1>8 DEF Inv

\* When the alias variables alone change, what is left to show is about them.
LEMMA OnlyAlias ==
    ASSUME Inv, UNCHANGED libraryVars, AliasInv',
           \A w \in Worker : ids'[w].pc # "none" => job[w].pc = "publish"
    PROVE  Inv'
<1>1. ClockTypes' /\ Types'
  BY DEF Inv, ClockTypes, Types, libraryVars
<1>2. JobInv' /\ TableInv'
  BY DEF libraryVars, Inv, JobInv, JobOk, TableInv, RowOk
<1>3. FoundInv' /\ SaveInv'
  BY DEF libraryVars, Inv, FoundInv, FoundOk, SaveInv, Holds, Alone, RowsIn, Saving, At, TableOf, Key
<1> QED
  BY <1>1, <1>2, <1>3 DEF Inv

LEMMA FoundKeeps ==
    ASSUME AliasInv, NEW w \in Worker, NEW label \in {"create", "got"},
           ids[w].pc # "none", Found(w, label), UNCHANGED <<alias, handed>>
    PROVE  AliasInv'
<1>1. ids[w] \in AskT /\ ids[w].ref \in Ref /\ Leads(ids[w].ref, ids[w].id)
  BY DEF AliasInv, AliasTypes, Asking
<1>2. PICK pc \in {"create", "got"}, id \in Ids :
         /\ ids' = [ids EXCEPT ![w].pc = pc, ![w].id = id]
         /\ Leads(ids[w].ref, id)
  <2>1. CASE ids' = [ids EXCEPT ![w].pc = "got"] \/ ids' = [ids EXCEPT ![w].pc = label]
    <3>1. ids[w].id \in Ids
      BY <1>1 DEF AskT
    <3>2. \A pc : [ids EXCEPT ![w].pc = pc] = [ids EXCEPT ![w].pc = pc, ![w].id = ids[w].id]
      BY <1>1 DEF AskT, AliasInv, AliasTypes
    <3> QED
      BY <2>1, <3>1, <3>2, <1>1
  <2>2. ASSUME NEW r \in RowsOf(ids[w].ref),
               ids' = [ids EXCEPT ![w].pc = "got", ![w].id = r.public]
        PROVE  \E pc \in {"create", "got"}, id \in Ids :
                  /\ ids' = [ids EXCEPT ![w].pc = pc, ![w].id = id]
                  /\ Leads(ids[w].ref, id)
    <3>1. r \in alias /\ r.ref = ids[w].ref /\ r.public \in Ids
      BY <2>2 DEF RowsOf, AliasInv, AliasTypes, Ids
    <3> QED
      BY <2>2, <3>1 DEF Leads
  <2> QED
    BY <2>1, <2>2 DEF Found
<1>3. [ids[w] EXCEPT !.pc = pc, !.id = id] \in AskT
  BY <1>1, <1>2 DEF AskT
<1>4. /\ ids' \in [Worker -> AskT]
      /\ ids'[w].ref = ids[w].ref /\ ids'[w].id = id
      /\ \A v \in Worker \ {w} : ids'[v] = ids[v]
  BY <1>1, <1>2, <1>3 DEF AliasInv, AliasTypes, AskT
<1>5. \A x, y : Leads(x, y)' <=> Leads(x, y)
  BY DEF Leads
<1>6. AliasTypes' /\ Unique' /\ Sent'
  BY <1>4, <1>5 DEF AliasInv, AliasTypes, Unique, Sent
<1>7. Asking'
  BY <1>1, <1>2, <1>4, <1>5 DEF AliasInv, Asking
<1> QED
  BY <1>6, <1>7 DEF AliasInv

LEMMA CreateKeeps == ASSUME AliasInv, NEW w \in Worker, EnsureAliasCreate(w) PROVE AliasInv'
<1>1. ids[w] \in AskT /\ ids[w].ref \in Ref /\ Leads(ids[w].ref, ids[w].id)
  BY DEF AliasInv, AliasTypes, Asking, EnsureAliasCreate
<1>2. CASE ids' = [ids EXCEPT ![w].pc = "again"] /\ UNCHANGED alias
  <2>1. [ids[w] EXCEPT !.pc = "again"] \in AskT
    BY <1>1 DEF AskT
  <2>2. /\ ids' \in [Worker -> AskT]
        /\ ids'[w].ref = ids[w].ref /\ ids'[w].id = ids[w].id
        /\ \A v \in Worker \ {w} : ids'[v] = ids[v]
    BY <1>1, <1>2, <2>1 DEF AliasInv, AliasTypes, AskT
  <2>3. \A x, y : Leads(x, y)' <=> Leads(x, y)
    BY <1>2 DEF Leads
  <2>4. AliasTypes' /\ Unique' /\ Sent'
    BY <1>2, <2>2, <2>3 DEF AliasInv, AliasTypes, Unique, Sent, EnsureAliasCreate
  <2>5. Asking'
    BY <1>1, <2>2, <2>3 DEF AliasInv, Asking
  <2> QED
    BY <2>4, <2>5 DEF AliasInv
<1>3. ASSUME NEW u \in Uuid, RowsOf(ids[w].ref) = {}, \A r \in alias : r.public # u,
             alias' = alias \cup {[ref |-> ids[w].ref, public |-> u]},
             ids' = [ids EXCEPT ![w].pc = "got", ![w].id = u]
      PROVE  AliasInv'
  <2>1. [ids[w] EXCEPT !.pc = "got", !.id = u] \in AskT
    BY <1>1 DEF AskT, Ids
  <2>2. /\ ids' \in [Worker -> AskT]
        /\ ids'[w].ref = ids[w].ref /\ ids'[w].id = u
        /\ \A v \in Worker \ {w} : ids'[v] = ids[v]
    BY <1>1, <1>3, <2>1 DEF AliasInv, AliasTypes, AskT
  <2>3. \A x, y : Leads(x, y) => Leads(x, y)'
    BY <1>3 DEF Leads
  <2>4. Leads(ids[w].ref, u)'
    <3> DEFINE r == [ref |-> ids[w].ref, public |-> u]
    <3>1. r \in alias' /\ r.ref = ids[w].ref /\ r.public = u
      BY <1>3
    <3> HIDE DEF r
    <3> QED
      BY <2>2, <3>1 DEF Leads
  <2>5. AliasTypes' /\ Sent'
    <3>1. [ref |-> ids[w].ref, public |-> u] \in [ref : Ref, public : Uuid]
      BY <1>1
    <3>2. UNCHANGED handed
      BY DEF EnsureAliasCreate
    <3>3. AliasTypes'
      BY <1>3, <2>2, <3>1, <3>2 DEF AliasInv, AliasTypes
    <3> QED
      BY <2>3, <3>2, <3>3 DEF AliasInv, Sent
  <2>6. Unique'
    BY <1>3 DEF AliasInv, Unique, RowsOf
  <2>7. Asking'
    BY <1>1, <2>2, <2>3, <2>4 DEF AliasInv, Asking
  <2> QED
    BY <2>5, <2>6, <2>7 DEF AliasInv
<1> QED
  BY <1>2, <1>3 DEF EnsureAliasCreate

LEMMA SendKeeps == ASSUME AliasInv, NEW w \in Worker, Send(w) PROVE AliasInv'
<1>1. ids[w] \in AskT /\ ids[w].ref \in Ref /\ Leads(ids[w].ref, ids[w].id)
  BY DEF AliasInv, AliasTypes, Asking, Send
<1>2. /\ ids' \in [Worker -> AskT] /\ ids'[w].pc = "none"
      /\ \A v \in Worker \ {w} : ids'[v] = ids[v]
  BY NothingTyped DEF Send, AliasInv, AliasTypes, NoAsk
<1>3. \A x, y : Leads(x, y)' <=> Leads(x, y)
  BY DEF Send, Leads
<1>4. AliasTypes' /\ Unique' /\ Sent'
  BY <1>1, <1>2, <1>3 DEF Send, AliasInv, AliasTypes, Unique, Sent, AskT
<1>5. Asking'
  BY <1>2, <1>3 DEF AliasInv, Asking
<1> QED
  BY <1>4, <1>5 DEF AliasInv

LEMMA AliasStepKeeps ==
    ASSUME Inv, NEW w \in Worker, AliasStep(w), UNCHANGED libraryVars
    PROVE  Inv'
<1>1. AliasInv'
  BY FoundKeeps, CreateKeeps, SendKeeps
  DEF AliasStep, EnsureAliasFind, EnsureAliasAgain, Inv
<1>2. ids[w].pc # "none" /\ \A v \in Worker \ {w} : ids'[v] = ids[v]
  BY DEF AliasStep, EnsureAliasFind, EnsureAliasCreate, EnsureAliasAgain, Send, Found,
         Inv, AliasInv, AliasTypes
<1> QED
  BY <1>1, <1>2, OnlyAlias DEF Inv, JobInv, JobOk

LEMMA PublishStepKeeps == ASSUME Inv, NEW w \in Worker, publish(w) PROVE Inv'
<1>0. job[w].pc = "publish" /\ ids[w].pc = "none" /\ job[w] \in JobT
  BY DEF publish, At, Inv, Types
<1>1. CASE Done(w) /\ UNCHANGED aliasVars
  <2>1. OnlyJob(w)
    BY <1>0, <1>1, DoneFacts DEF Inv, OnlyJob, NoJob, publish, Types
  <2>2. ids'[w].pc = "none" /\ ClockTypes'
    BY <1>0, <1>1 DEF aliasVars, Inv, ClockTypes, publish
  <2> QED
    BY <1>1, <2>1, <2>2, DoneFacts, NoJobOk, OnlyJobKeeps DEF Inv
<1>2. ASSUME NEW x \in job[w].todo, public(w, x), job' = [job EXCEPT ![w].todo = @ \ {x}]
      PROVE  Inv'
  <2>1. x \in Ref /\ job[w].todo \ {x} \in SUBSET Ref
    BY <1>0 DEF JobT
  <2>2. [job[w] EXCEPT !.todo = @ \ {x}] \in JobT
    BY <1>0, <2>1 DEF JobT
  <2>3. /\ job' \in [Worker -> JobT]
        /\ job'[w] = [job[w] EXCEPT !.todo = @ \ {x}]
        /\ \A v \in Worker \ {w} : job'[v] = job[v]
    BY <1>2, <2>2 DEF Inv, Types
  <2> DEFINE ask == [pc |-> "find", ref |-> x, id |-> x.name]
  <2>4. ask \in AskT
    BY <2>1 DEF AskT, Ids, Names
  <2>5. /\ ids' \in [Worker -> AskT] /\ ids'[w] = ask
        /\ \A v \in Worker \ {w} : ids'[v] = ids[v]
        /\ UNCHANGED <<alias, handed>>
    BY <1>2, <2>4 DEF public, Inv, AliasInv, AliasTypes
  <2>6. \A y, z : Leads(y, z)' <=> Leads(y, z)
    BY <2>5 DEF Leads
  <2>7. AliasInv'
    <3>1. AliasTypes' /\ Unique' /\ Sent'
      BY <2>5, <2>6 DEF Inv, AliasInv, AliasTypes, Unique, Sent
    <3>2. Asking'
      BY <2>1, <2>5, <2>6 DEF Inv, AliasInv, Asking, Leads
    <3> QED
      BY <3>1, <3>2 DEF AliasInv
  <2>8. Types' /\ ClockTypes'
    BY <2>3 DEF publish, Inv, Types, ClockTypes
  <2>9. \A v \in Worker : /\ job'[v].pc = job[v].pc /\ job'[v].op = job[v].op
                          /\ job'[v].c = job[v].c /\ job'[v].cat = job[v].cat
                          /\ job'[v].val = job[v].val /\ job'[v].row = job[v].row
    BY <1>0, <2>3 DEF JobT
  <2>10. JobInv' /\ TableInv'
    <3>1. JobInv'
      BY <1>0, <2>5, <2>9 DEF publish, Inv, JobInv, JobOk
    <3>2. TableInv'
      BY DEF publish, Inv, TableInv, RowOk
    <3> QED
      BY <3>1, <3>2
  <2>11. \A v \in Worker : /\ At(v, "save")' <=> At(v, "save")
                           /\ TableOf(v)' = TableOf(v) /\ Key(v)' = Key(v)
    BY <2>9 DEF At, TableOf, Key
  <2>12. FoundInv'
    BY <2>9, <2>11 DEF publish, Inv, FoundInv, FoundOk
  <2>13. \A t, k : Saving(t, k)' = Saving(t, k) /\ RowsIn(t, k)' = RowsIn(t, k)
    BY <2>11 DEF Saving, RowsIn, publish
  <2>14. SaveInv'
    <3> SUFFICES ASSUME NEW t \in Tables, NEW k \in Keys, want'[t][k].clean
                 PROVE  Holds(t, k)' /\ Alone(t, k)'
      BY DEF SaveInv
    <3>1. Holds(t, k) /\ Alone(t, k)
      BY DEF Inv, SaveInv, publish
    <3>2. Holds(t, k)'
      BY <3>1, <2>13 DEF Holds, publish
    <3>3. Alone(t, k)'
      BY <3>1, <2>9, <2>13 DEF Alone, Saving
    <3> QED
      BY <3>2, <3>3
  <2> QED
    BY <2>7, <2>8, <2>10, <2>12, <2>14 DEF Inv
<1> QED
  BY <1>1, <1>2 DEF publish
---------------------------------------------------------------------------
(***************************************************************************)
(* The statements on the library's tables.                                 *)
(***************************************************************************)
\* The table and the key of a job on its way to a statement.
LEMMA KeyTyped ==
    ASSUME Inv, NEW w \in Worker, job[w].pc \in {"find", "save", "delete"}
    PROVE  /\ TableOf(w) \in Tables /\ Key(w) \in Keys
           /\ Key(w)[1] = job[w].c /\ Key(w)[2] = job[w].cat
           /\ job[w] \in JobT /\ job[w].c \in clients /\ job[w].cat \in OfKind("catalog")
<1>1. job[w] \in JobT /\ job[w].c \in clients /\ job[w].cat \in OfKind("catalog")
      /\ clients \subseteq Token
  BY DEF Inv, Types, JobInv, JobOk
<1> QED
  BY <1>1 DEF TableOf, Tables, Key, Keys

\* A set of rows has one with the smallest id.
LEMMA SmallestRow ==
    ASSUME NEW S \in SUBSET RowT, S # {}
    PROVE  \E r \in S : \A s \in S : r.id <= s.id
<1> DEFINE N == {r.id : r \in S}
           R == OpToRel(<, Nat)
<1>1. N \subseteq Nat /\ N # {}
  BY DEF RowT
<1>2. \E x \in N : \A y \in N : ~(<<y, x>> \in R)
  BY <1>1, NatLessThanWellFounded, WFMin
<1>3. PICK r \in S : \A s \in S : ~(<<s.id, r.id>> \in R)
  BY <1>2
<1>4. \A s \in S : s.id \in Nat /\ r.id \in Nat
  BY DEF RowT
<1>5. \A a, b \in Nat : <<a, b>> \in R <=> a < b
  BY Zenon DEF OpToRel
<1> HIDE DEF R
<1>6. ASSUME NEW s \in S PROVE ~(s.id < r.id)
  BY <1>3, <1>4, <1>5, Zenon
<1> QED
  BY <1>4, <1>6

LEMMA UpsertFindKeeps == ASSUME Inv, NEW w \in Worker, UpsertFind(w) PROVE Inv'
<1> DEFINE t == TableOf(w)
           k == Key(w)
           rows == RowsIn(t, k)
           row == IF rows = {} THEN NoRow ELSE CHOOSE r \in rows : \A s \in rows : r.id <= s.id
<1>1. job[w].pc = "find" /\ ids[w].pc = "none"
  BY DEF UpsertFind, At, Inv, JobInv, JobOk
<1>2. t \in Tables /\ k \in Keys /\ job[w] \in JobT /\ job[w].c \in clients
      /\ job[w].cat \in OfKind("catalog") /\ k[1] = job[w].c /\ k[2] = job[w].cat
  BY <1>1, KeyTyped
<1>3. CASE Done(w) /\ UNCHANGED want
  BY <1>1, <1>3, DoneKeeps DEF UpsertFind
<1>4. CASE /\ job' = [job EXCEPT ![w].pc = "save", ![w].row = row]
           /\ want' = [want EXCEPT ![t][k].clean = @ /\ Saving(t, k) = {}]
  <2>1. rows \subseteq table[t] /\ rows \subseteq RowT
    BY <1>2 DEF RowsIn, Inv, Types
  <2>2. (rows = {} /\ row = NoRow) \/ row \in rows
    BY <2>1, SmallestRow
  <2>3. row \in RowT
    BY <2>1, <2>2, NothingTyped
  <2>4. row = NoRow \/ row.id >= 1
    BY <2>1, <2>2, <1>2 DEF Inv, TableInv, RowOk
  <2>5. NoRow.id = 0
    BY DEF NoRow
  <2>6. UNCHANGED <<aliasVars, minute, counts, clients, table, serial>>
    BY DEF UpsertFind
  <2> HIDE DEF row
  <2>7. [job[w] EXCEPT !.pc = "save", !.row = row] \in JobT
    BY <1>2, <2>3 DEF JobT, JobLabels
  <2>8. /\ job' \in [Worker -> JobT]
        /\ job'[w] = [job[w] EXCEPT !.pc = "save", !.row = row]
        /\ \A v \in Worker \ {w} : job'[v] = job[v]
    BY <1>4, <2>7 DEF Inv, Types
  <2>9. /\ job'[w].pc = "save" /\ job'[w].row = row /\ job'[w].op = job[w].op
        /\ job'[w].c = job[w].c /\ job'[w].cat = job[w].cat /\ job'[w].val = job[w].val
    BY <1>2, <2>8 DEF JobT
  <2>10. /\ At(w, "save")' /\ ~At(w, "save")
         /\ \A v \in Worker \ {w} : At(v, "save")' <=> At(v, "save")
         /\ \A v \in Worker : TableOf(v)' = TableOf(v) /\ Key(v)' = Key(v)
    BY <1>1, <2>8, <2>9 DEF At, TableOf, Key
  <2>11. \A t2, k2 : Saving(t2, k2)' =
            IF t2 = t /\ k2 = k THEN Saving(t2, k2) \cup {w} ELSE Saving(t2, k2)
    BY <2>10 DEF Saving
  <2>12. \A t2, k2 : RowsIn(t2, k2)' = RowsIn(t2, k2)
    BY <2>6 DEF RowsIn
  <2> DEFINE x == [want[t][k] EXCEPT !.clean = @ /\ Saving(t, k) = {}]
  <2>13. want[t][k] \in WantT
    BY <1>2 DEF Inv, Types
  <2>14. x \in WantT /\ (x.clean => want[t][k].clean /\ Saving(t, k) = {})
         /\ x.val = want[t][k].val
    BY <2>13 DEF WantT
  <2>15. want' = [want EXCEPT ![t][k] = x]
    BY <1>4
  <2> HIDE DEF x, t, k, rows
  <2>16. /\ want' \in [Tables -> [Keys -> WantT]] /\ want'[t][k] = x
         /\ \A t2 \in Tables, k2 \in Keys :
               t2 # t \/ k2 # k => want'[t2][k2] = want[t2][k2]
    BY <1>2, <2>14, <2>15 DEF Inv, Types
  <2>17. ClockTypes' /\ AliasInv' /\ Types'
    BY <2>6, <2>8, <2>16 DEF Inv, ClockTypes, AliasInv, AliasTypes, Unique, Asking, Sent,
                             Leads, Types, aliasVars
  <2>18. JobInv'
    <3>1. JobOk(w)'
      BY <1>1, <1>2, <2>6, <2>9 DEF Inv, JobInv, JobOk, aliasVars
    <3>2. \A v \in Worker \ {w} : JobOk(v)'
      BY <2>6, <2>8 DEF Inv, JobInv, JobOk, aliasVars
    <3> QED
      BY <3>1, <3>2 DEF JobInv
  <2>19. TableInv'
    BY <2>6 DEF Inv, TableInv, RowOk
  <2>20. FoundInv'
    <3>1. row.id # 0 => /\ row \in table[t] /\ row.c = job[w].c /\ row.cat = job[w].cat
                        /\ row.id <= serial[t]
      BY <1>2, <2>1, <2>2, <2>5 DEF rows, RowsIn, Inv, TableInv, RowOk
    <3>2. \A v \in Worker \ {w} : At(v, "save") /\ TableOf(v) = t /\ job[v].row.id = row.id
                                 /\ row.id # 0 => Key(v) = k
      BY <3>1 DEF Inv, FoundInv, FoundOk, Key, k
    <3>3. TableOf(w)' = t /\ Key(w)' = k
      BY <2>10 DEF t, k
    <3>4. FoundOk(w)'
      <4>1. row.id <= serial[t]
        BY <1>2, <2>2, <2>4, <2>5, <3>1 DEF Inv, Types
      <4>2. \A r \in table[t] : r.id = row.id /\ row.id # 0 => r = row
        BY <1>2, <3>1 DEF Inv, TableInv
      <4> QED
        BY <2>4, <2>6, <2>8, <2>9, <2>10, <3>1, <3>2, <3>3, <4>1, <4>2 DEF FoundOk
    <3>5. ASSUME NEW v \in Worker \ {w}, At(v, "save") PROVE FoundOk(v)'
      <4>1. FoundOk(v) /\ TableOf(v)' = TableOf(v) /\ Key(v)' = Key(v) /\ job'[v] = job[v]
        BY <2>8, <2>10 DEF Inv, FoundInv
      <4>2. ASSUME job[v].row.id # 0, NEW u \in Worker, At(u, "save")',
                   TableOf(u)' = TableOf(v), job'[u].row.id = job[v].row.id
            PROVE  Key(u)' = Key(v)
        <5>1. CASE u = w
          BY <5>1, <4>2, <3>2, <3>3, <3>5, <2>9
        <5>2. CASE u # w
          BY <5>2, <4>1, <4>2, <3>5, <2>8, <2>10 DEF FoundOk
        <5> QED
          BY <5>1, <5>2
      <4> QED
        BY <4>1, <4>2, <3>5, <2>6 DEF FoundOk
    <3> QED
      BY <2>10, <3>4, <3>5 DEF FoundInv, FoundOk
  <2>21. SaveInv'
    <3> SUFFICES ASSUME NEW t2 \in Tables, NEW k2 \in Keys, want'[t2][k2].clean
                 PROVE  Holds(t2, k2)' /\ Alone(t2, k2)'
      BY DEF SaveInv
    <3>1. want[t2][k2].clean /\ want'[t2][k2].val = want[t2][k2].val
      BY <2>14, <2>16
    <3>2. Holds(t2, k2) /\ Alone(t2, k2)
      BY <3>1 DEF Inv, SaveInv
    <3>3. Holds(t2, k2)'
      BY <3>1, <3>2, <2>12 DEF Holds
    <3>4. CASE t2 # t \/ k2 # k
      <4>1. Saving(t2, k2)' = Saving(t2, k2)
        BY <3>4, <2>11
      <4>2. \A v \in Saving(t2, k2) : job'[v] = job[v]
        BY <2>8, <2>10 DEF Saving
      <4> QED
        BY <4>1, <4>2, <3>2, <3>3, <2>12 DEF Alone
    <3>5. CASE t2 = t /\ k2 = k
      <4>1. Saving(t2, k2)' = {w}
        BY <3>5, <2>11, <2>14, <2>16
      <4>2. \/ RowsIn(t2, k2) = {} /\ row = NoRow
            \/ RowsIn(t2, k2) = {row}
        BY <3>2, <3>5, <2>2 DEF Holds, rows
      <4> QED
        BY <4>1, <4>2, <3>3, <3>5, <2>9, <2>12 DEF Alone
    <3> QED
      BY <3>4, <3>5
  <2> QED
    BY <2>17, <2>18, <2>19, <2>20, <2>21 DEF Inv
<1> QED
  BY <1>3, <1>4, Zenon DEF UpsertFind

\* What the last statement of a save or a delete leaves of the jobs.
LEMMA LastStatement ==
    ASSUME Inv, NEW w \in Worker, Done(w), job[w].pc \in {"save", "delete"},
           UNCHANGED <<aliasVars, minute, counts, clients>>
    PROVE  /\ ClockTypes' /\ AliasInv' /\ JobInv' /\ job' \in [Worker -> JobT]
           /\ \A v \in Worker : At(v, "save")' <=> v # w /\ At(v, "save")
           /\ \A v \in Worker \ {w} : /\ job'[v] = job[v] /\ TableOf(v)' = TableOf(v)
                                      /\ Key(v)' = Key(v)
           /\ \A t, k : Saving(t, k)' = Saving(t, k) \ {w}
<1>1. job' \in [Worker -> JobT] /\ job'[w] = NoJob /\ \A v \in Worker \ {w} : job'[v] = job[v]
  BY DoneFacts DEF Inv
<1>2. job'[w].pc = "none"
  BY <1>1 DEF NoJob
<1>3. ClockTypes' /\ AliasInv'
  BY DEF Inv, ClockTypes, AliasInv, AliasTypes, Unique, Asking, Sent, Leads, aliasVars
<1>4. ids'[w].pc = "none"
  BY DEF Inv, JobInv, JobOk, aliasVars
<1>5. JobOk(w)'
  BY <1>1, <1>4, NoJobOk
<1>6. \A v \in Worker \ {w} : JobOk(v)'
  BY <1>1 DEF Inv, JobInv, JobOk, aliasVars
<1>7. \A v \in Worker : At(v, "save")' <=> v # w /\ At(v, "save")
  BY <1>1, <1>2 DEF At
<1>8. \A v \in Worker \ {w} : TableOf(v)' = TableOf(v) /\ Key(v)' = Key(v)
  BY <1>1 DEF TableOf, Key
<1>9. \A t, k : Saving(t, k)' = Saving(t, k) \ {w}
  BY <1>7, <1>8 DEF Saving
<1> QED
  BY <1>1, <1>3, <1>5, <1>6, <1>7, <1>8, <1>9 DEF JobInv

LEMMA FailedStatementKeeps ==
    ASSUME Inv, NEW w \in Worker, Done(w), job[w].pc \in {"save", "delete"},
           UNCHANGED <<aliasVars, minute, counts, clients, table, serial, want>>
    PROVE  Inv'
<1>1. Types'
  BY LastStatement DEF Inv, Types
<1>2. TableInv'
  BY DEF Inv, TableInv, RowOk
<1>3. FoundInv'
  BY LastStatement DEF Inv, FoundInv, FoundOk
<1>4. SaveInv'
  <2> SUFFICES ASSUME NEW t \in Tables, NEW k \in Keys, want'[t][k].clean
               PROVE  Holds(t, k)' /\ Alone(t, k)'
    BY DEF SaveInv
  <2>1. Holds(t, k) /\ Alone(t, k)
    BY DEF Inv, SaveInv
  <2>2. Holds(t, k)' /\ RowsIn(t, k)' = RowsIn(t, k)
    BY <2>1 DEF Holds, RowsIn
  <2>3. Saving(t, k)' = Saving(t, k) \ {w} /\ \A v \in Saving(t, k)' : job'[v] = job[v]
    BY LastStatement DEF Saving
  <2> QED
    BY <2>1, <2>2, <2>3 DEF Alone
<1> QED
  BY <1>1, <1>2, <1>3, <1>4, LastStatement DEF Inv

LEMMA DeleteRowsKeeps == ASSUME Inv, NEW w \in Worker, DeleteRows(w) PROVE Inv'
<1> DEFINE t == TableOf(w)
           k == Key(w)
           x == [clean |-> Saving(t, k) = {}, val |-> NoVal]
<1>1. job[w].pc = "delete" /\ Done(w) /\ UNCHANGED <<aliasVars, minute, counts, clients, serial>>
  BY DEF DeleteRows, At
<1>2. t \in Tables /\ k \in Keys
  BY <1>1, KeyTyped
<1>3. CASE UNCHANGED <<table, want>>
  BY <1>1, <1>3, FailedStatementKeeps
<1>4. CASE /\ table' = [table EXCEPT ![t] = @ \ RowsIn(t, k)]
           /\ want' = [want EXCEPT ![t][k] = x]
  <2>1. x \in WantT /\ (x.clean <=> Saving(t, k) = {}) /\ x.val = NoVal
    BY NothingTyped DEF WantT
  <2>2. RowsIn(t, k) = {r \in table[t] : r.c = k[1] /\ r.cat = k[2]}
    BY DEF RowsIn
  <2> HIDE DEF x, t, k
  <2>3. /\ want' \in [Tables -> [Keys -> WantT]] /\ want'[t][k] = x
        /\ \A t2 \in Tables, k2 \in Keys :
              t2 # t \/ k2 # k => want'[t2][k2] = want[t2][k2]
    BY <1>2, <1>4, <2>1 DEF Inv, Types
  <2>4. /\ table' \in [Tables -> SUBSET RowT]
        /\ table'[t] = table[t] \ RowsIn(t, k)
        /\ \A t2 \in Tables \ {t} : table'[t2] = table[t2]
        /\ \A t2 \in Tables : table'[t2] \subseteq table[t2]
    BY <1>2, <1>4 DEF Inv, Types
  <2>5. Types'
    BY <1>1, <2>3, <2>4, LastStatement DEF Inv, Types
  <2>6. TableInv'
    BY <1>1, <2>4 DEF Inv, TableInv, RowOk
  <2>7. FoundInv'
    <3> SUFFICES ASSUME NEW v \in Worker, At(v, "save")' PROVE FoundOk(v)'
      BY DEF FoundInv, FoundOk
    <3>1. /\ v # w /\ At(v, "save") /\ FoundOk(v)
          /\ TableOf(v)' = TableOf(v) /\ Key(v)' = Key(v) /\ job'[v] = job[v]
      BY <1>1, LastStatement DEF Inv, FoundInv
    <3>2. TableOf(v) \in Tables
      BY DEF TableOf, Tables
    <3>3. \A u \in Worker : At(u, "save")' => /\ At(u, "save") /\ TableOf(u)' = TableOf(u)
                                             /\ Key(u)' = Key(u) /\ job'[u] = job[u]
      BY <1>1, LastStatement
    <3> QED
      BY <1>1, <2>4, <3>1, <3>2, <3>3 DEF FoundOk
  <2>8. SaveInv'
    <3> SUFFICES ASSUME NEW t2 \in Tables, NEW k2 \in Keys, want'[t2][k2].clean
                 PROVE  Holds(t2, k2)' /\ Alone(t2, k2)'
      BY DEF SaveInv
    <3>1. Saving(t2, k2)' \subseteq Saving(t2, k2) /\ \A v \in Saving(t2, k2)' : job'[v] = job[v]
      BY <1>1, LastStatement DEF Saving
    <3>2. CASE t2 = t /\ k2 = k
      <4>1. RowsIn(t2, k2)' = {} /\ want'[t2][k2].val = NoVal
        BY <3>2, <2>1, <2>2, <2>3, <2>4 DEF RowsIn
      <4>2. Saving(t2, k2)' = {}
        BY <3>1, <3>2, <2>1, <2>3
      <4> QED
        BY <4>1, <4>2 DEF Holds, Alone
    <3>3. CASE t2 # t \/ k2 # k
      <4>1. want'[t2][k2] = want[t2][k2]
        BY <3>3, <2>3
      <4>2. Holds(t2, k2) /\ Alone(t2, k2)
        BY <4>1 DEF Inv, SaveInv
      <4>3. k = <<k[1], k[2]>> /\ k2 = <<k2[1], k2[2]>>
        BY <1>2 DEF Keys
      <4>4. RowsIn(t2, k2)' = RowsIn(t2, k2)
        BY <3>3, <4>3, <2>2, <2>4 DEF RowsIn
      <4>5. Holds(t2, k2)'
        BY <4>1, <4>2, <4>4 DEF Holds
      <4> QED
        BY <4>2, <4>4, <4>5, <3>1 DEF Alone
    <3> QED
      BY <3>2, <3>3
  <2> QED
    BY <1>1, <2>5, <2>6, <2>7, <2>8, LastStatement DEF Inv
<1> QED
  BY <1>3, <1>4, Zenon DEF DeleteRows

\* The value a save stores.
LEMMA MergedTyped ==
    ASSUME NEW t, NEW old \in Vals, NEW val \in Vals
    PROVE  /\ merged(t, old, val) \in Vals /\ merged(t, old, val).pos = val.pos
           /\ merged(t, old, val).ep = val.ep
           /\ LastSaved(t, old, val) = merged(t, old, val)
BY DEF merged, LastSaved, Vals

LEMMA UpsertSaveKeeps == ASSUME Inv, NEW w \in Worker, UpsertSave(w) PROVE Inv'
<1> DEFINE t == TableOf(w)
           k == Key(w)
           id == IF job[w].row.id = 0 THEN NextId(t) ELSE job[w].row.id
           new == [id |-> id, c |-> k[1], cat |-> k[2],
                   val |-> merged(t, job[w].row.val, job[w].val)]
           x == [want[t][k] EXCEPT !.val = LastSaved(t, @, job[w].val)]
<1>1. job[w].pc = "save" /\ Done(w) /\ UNCHANGED <<aliasVars, minute, counts, clients>>
  BY DEF UpsertSave, At
<1>2. /\ t \in Tables /\ k \in Keys /\ k[1] = job[w].c /\ k[2] = job[w].cat
      /\ job[w] \in JobT /\ job[w].c \in clients /\ job[w].cat \in OfKind("catalog")
  BY <1>1, KeyTyped
<1>3. CASE UNCHANGED <<table, serial, want>>
  BY <1>1, <1>3, FailedStatementKeeps
<1>4. CASE /\ table' = [table EXCEPT ![t] = {r \in @ : r.id # id} \cup {new}]
           /\ serial' = [serial EXCEPT ![t] = IF id > @ THEN id ELSE @]
           /\ want' = [want EXCEPT ![t][k].val = LastSaved(t, @, job[w].val)]
  <2>1. job[w].row \in RowT /\ job[w].val \in Vals /\ job[w].row.val \in Vals
        /\ job[w].row.id \in Nat
    BY <1>2 DEF JobT, RowT
  <2>2. serial[t] \in Nat /\ want[t][k] \in WantT /\ want[t][k].val \in Vals
    BY <1>2 DEF Inv, Types, WantT
  <2>3. FoundOk(w) /\ At(w, "save")
    BY <1>1 DEF Inv, FoundInv, At
  <2>4. /\ id \in Nat /\ id >= 1
        /\ \/ id = serial[t] + 1 /\ job[w].row = NoRow
           \/ id = job[w].row.id /\ id <= serial[t]
    BY <2>1, <2>2, <2>3 DEF FoundOk, NextId
  <2>5. \A r \in table[t] : r.id = id => r.c = k[1] /\ r.cat = k[2]
    <3>1. CASE job[w].row.id = 0
      BY <1>2, <2>2, <3>1 DEF Inv, TableInv, RowOk, NextId
    <3>2. CASE job[w].row.id # 0
      BY <1>2, <2>3, <3>2 DEF FoundOk
    <3> QED
      BY <3>1, <3>2
  <2>6. /\ new \in RowT /\ new.id = id /\ new.c = k[1] /\ new.cat = k[2]
        /\ new.val = merged(t, job[w].row.val, job[w].val)
    <3>1. k[1] \in Token \cup {NoRef} /\ k[2] \in Ref \cup {NoRef}
      BY <1>2 DEF Keys, OfKind
    <3>2. merged(t, job[w].row.val, job[w].val) \in Vals
      BY <2>1, MergedTyped
    <3> HIDE DEF t, k, id
    <3> QED
      BY <2>4, <3>1, <3>2 DEF RowT
  <2>7. x \in WantT /\ (x.clean <=> want[t][k].clean)
        /\ x.val = LastSaved(t, want[t][k].val, job[w].val)
    <3>1. LastSaved(t, want[t][k].val, job[w].val) \in Vals
      BY <2>1, <2>2, MergedTyped
    <3> QED
      BY <2>2, <3>1 DEF WantT
  <2>8. want' = [want EXCEPT ![t][k] = x]
    BY <1>4
  <2>9. t = "history" => job[w].op = "saveHistory"
    BY <1>1 DEF TableOf, Inv, JobInv, JobOk
  <2>10. job[w].val.pos >= 0 /\ (t = "history" => job[w].val.ep \in OfKind("episode"))
    BY <1>1, <2>9 DEF Inv, JobInv, JobOk
  <2>11. w \in Saving(t, k)
    BY <2>3 DEF Saving
  <2>12. \A v \in Worker : At(v, "save") /\ TableOf(v) = t /\ job[v].row.id = id => Key(v) = k
    <3> SUFFICES ASSUME NEW v \in Worker, At(v, "save"), TableOf(v) = t, job[v].row.id = id
                 PROVE  Key(v) = k
      OBVIOUS
    <3>1. job[v].row.id <= serial[t]
      BY DEF Inv, FoundInv, FoundOk
    <3>2. job[w].row.id # 0
      BY <2>2, <3>1 DEF NextId
    <3> QED
      BY <2>3, <3>2 DEF FoundOk
  <2>13. table[t] \subseteq RowT
    BY <1>2 DEF Inv, Types
  <2> HIDE DEF t, k, id, new, x
  <2>14. /\ want' \in [Tables -> [Keys -> WantT]] /\ want'[t][k] = x
         /\ \A t2 \in Tables, k2 \in Keys :
               t2 # t \/ k2 # k => want'[t2][k2] = want[t2][k2]
    BY <1>2, <2>7, <2>8 DEF Inv, Types
  <2>15. /\ table' \in [Tables -> SUBSET RowT]
         /\ table'[t] = {r \in table[t] : r.id # id} \cup {new}
         /\ \A t2 \in Tables \ {t} : table'[t2] = table[t2]
    BY <1>2, <1>4, <2>6, <2>13 DEF Inv, Types
  <2>16. /\ serial' \in [Tables -> Nat] /\ serial'[t] >= serial[t] /\ serial'[t] >= id
         /\ \A t2 \in Tables : serial'[t2] >= serial[t2]
    BY <1>2, <1>4, <2>2, <2>4 DEF Inv, Types
  <2>17. Types'
    BY <1>1, <2>14, <2>15, <2>16, LastStatement DEF Inv, Types
  <2>18. TableInv'
    <3>1. ASSUME NEW t2 \in Tables, t2 = t, NEW r, r = new PROVE RowOk(t2, r)'
      <4>1. new.id >= 1 /\ new.id <= serial'[t]
        BY <2>4, <2>6, <2>16, <1>2
      <4>2. new.c \in clients' /\ new.cat \in OfKind("catalog")
        BY <1>1, <1>2, <2>6
      <4>3. t = "history" => new.val.ep \in OfKind("episode")
        BY <2>1, <2>6, <2>10, MergedTyped
      <4> QED
        BY <3>1, <4>1, <4>2, <4>3 DEF RowOk
    <3>2. \A t2 \in Tables : \A r \in table[t2] : RowOk(t2, r)'
      <4> SUFFICES ASSUME NEW t2 \in Tables, NEW r \in table[t2] PROVE RowOk(t2, r)'
        OBVIOUS
      <4>1. RowOk(t2, r) /\ r.id \in Nat /\ serial[t2] \in Nat /\ serial'[t2] \in Nat
        BY <2>16 DEF Inv, TableInv, Types, RowT
      <4> QED
        BY <1>1, <2>16, <4>1 DEF RowOk
    <3>3. \A t2 \in Tables : \A r, s \in table'[t2] : r.id = s.id => r = s
      BY <2>6, <2>15 DEF Inv, TableInv
    <3>4. \A t2 \in Tables : \A r \in table'[t2] : r \in table[t2] \/ (t2 = t /\ r = new)
      BY <2>15
    <3> QED
      BY <3>1, <3>2, <3>3, <3>4 DEF TableInv
  <2>19. FoundInv'
    <3> SUFFICES ASSUME NEW v \in Worker, At(v, "save")' PROVE FoundOk(v)'
      BY DEF FoundInv, FoundOk
    <3>1. /\ v # w /\ At(v, "save") /\ FoundOk(v)
          /\ TableOf(v)' = TableOf(v) /\ Key(v)' = Key(v) /\ job'[v] = job[v]
      BY <1>1, LastStatement DEF Inv, FoundInv
    <3>2. TableOf(v) \in Tables /\ job[v].row.id \in Nat
      BY DEF TableOf, Tables, Inv, Types, JobT, RowT
    <3>3. \A u \in Worker : At(u, "save")' => /\ At(u, "save") /\ TableOf(u)' = TableOf(u)
                                             /\ Key(u)' = Key(u) /\ job'[u] = job[u]
      BY <1>1, LastStatement
    <3>4. job[v].row.id <= serial'[TableOf(v)]
      BY <2>16, <3>1, <3>2 DEF FoundOk, Inv, Types
    <3>5. ASSUME job[v].row.id # 0, NEW r \in table'[TableOf(v)], r.id = job[v].row.id
          PROVE  r.c = job[v].c /\ r.cat = job[v].cat
      <4>1. CASE r \in table[TableOf(v)]
        BY <3>1, <3>5, <4>1 DEF FoundOk
      <4>2. CASE r \notin table[TableOf(v)]
        <5>1. TableOf(v) = t /\ r = new
          BY <2>15, <3>2, <3>5, <4>2
        <5>2. Key(v) = k
          BY <2>6, <2>12, <3>1, <3>5, <5>1
        <5>3. k[1] = job[v].c /\ k[2] = job[v].cat
          BY <5>2 DEF Key
        <5> QED
          BY <2>6, <5>1, <5>3
      <4> QED
        BY <4>1, <4>2
    <3> QED
      BY <3>1, <3>3, <3>4, <3>5 DEF FoundOk
  <2>20. SaveInv'
    <3> SUFFICES ASSUME NEW t2 \in Tables, NEW k2 \in Keys, want'[t2][k2].clean
                 PROVE  Holds(t2, k2)' /\ Alone(t2, k2)'
      BY DEF SaveInv
    <3>1. Saving(t2, k2)' = Saving(t2, k2) \ {w} /\ \A v \in Saving(t2, k2)' : job'[v] = job[v]
      BY <1>1, LastStatement DEF Saving
    <3>2. CASE t2 = t /\ k2 = k
      <4>1. want[t][k].clean /\ Holds(t, k) /\ Alone(t, k)
        BY <1>2, <3>2, <2>7, <2>14 DEF Inv, SaveInv
      <4>2. Saving(t2, k2)' = {}
        BY <2>11, <3>1, <3>2, <4>1 DEF Alone
      <4>3. \/ RowsIn(t, k) = {} /\ job[w].row = NoRow
            \/ RowsIn(t, k) = {job[w].row}
        BY <2>11, <4>1 DEF Alone
      <4>4. want[t][k].val = job[w].row.val
        <5>1. CASE RowsIn(t, k) = {} /\ job[w].row = NoRow
          BY <4>1, <5>1 DEF Holds, NoRow
        <5>2. CASE RowsIn(t, k) = {job[w].row}
          BY <4>1, <5>2 DEF Holds
        <5> QED
          BY <4>3, <5>1, <5>2
      <4>5. want'[t][k].val = new.val /\ new.val # NoVal
        <5>1. new.val.pos = job[w].val.pos /\ want'[t][k].val = new.val
          BY <2>1, <2>6, <2>7, <2>14, <4>4, MergedTyped
        <5>2. NoVal.pos = -1
          BY DEF NoVal
        <5> QED
          BY <5>1, <5>2, <2>10
      <4>6. RowsIn(t2, k2)' = {new}
        <5>1. \A r \in RowsIn(t, k) : r.id = id
          <6>1. CASE RowsIn(t, k) = {}
            BY <6>1
          <6>2. CASE RowsIn(t, k) = {job[w].row}
            <7>1. job[w].row \in table[t]
              BY <6>2 DEF RowsIn
            <7>2. job[w].row.id >= 1
              BY <1>2, <7>1 DEF Inv, TableInv, RowOk
            <7> QED
              BY <6>2, <7>2 DEF id
          <6> QED
            BY <4>3, <6>1, <6>2
        <5> QED
          BY <2>6, <2>15, <3>2, <5>1 DEF RowsIn
      <4> QED
        BY <3>2, <4>2, <4>5, <4>6 DEF Holds, Alone
    <3>3. CASE t2 # t \/ k2 # k
      <4>1. want'[t2][k2] = want[t2][k2]
        BY <3>3, <2>14
      <4>2. Holds(t2, k2) /\ Alone(t2, k2)
        BY <4>1 DEF Inv, SaveInv
      <4>3. k = <<k[1], k[2]>> /\ k2 = <<k2[1], k2[2]>>
        BY <1>2 DEF Keys
      <4>4. RowsIn(t2, k2)' = RowsIn(t2, k2)
        BY <3>3, <4>3, <2>5, <2>6, <2>15 DEF RowsIn
      <4>5. Holds(t2, k2)'
        BY <4>1, <4>2, <4>4 DEF Holds
      <4> QED
        BY <4>2, <4>4, <4>5, <3>1 DEF Alone
    <3> QED
      BY <3>2, <3>3
  <2> QED
    BY <1>1, <2>17, <2>18, <2>19, <2>20, LastStatement DEF Inv
<1> QED
  BY <1>3, <1>4, Zenon DEF UpsertSave
---------------------------------------------------------------------------
\* Every step of every request, the clock and a restart keep the invariant.
LEMMA InvNext == Inv /\ [Next]_vars => Inv'
<1> SUFFICES ASSUME Inv, [Next]_vars PROVE Inv'
  OBVIOUS
<1>1. CASE UNCHANGED vars
  <2>1. UNCHANGED libraryVars /\ UNCHANGED aliasVars
    BY <1>1 DEF vars
  <2>2. AliasInv'
    BY <2>1 DEF Inv, AliasInv, AliasTypes, Unique, Asking, Sent, Leads, aliasVars
  <2> QED
    BY <2>1, <2>2, OnlyAlias DEF Inv, JobInv, JobOk, aliasVars
<1>2. ASSUME NEW w \in Worker, WorkerStep(w) PROVE Inv'
  BY <1>2, RequireClient, EnsureSession, EnsureClientKeeps, SaveWatchlistHandlerKeeps,
     SaveWatchlistKeeps, SaveHistoryKeeps, UpsertFindKeeps, UpsertSaveKeeps,
     DeleteHandlerKeeps, DeleteRowsKeeps, BrowseKeeps, WatchlistKeeps, HistoryKeeps,
     ContinueWatchingKeeps, PublishStepKeeps, AliasStepKeeps
  DEF WorkerStep
<1> QED
  BY <1>1, <1>2, ArriveKeeps, NextMinuteKeeps, RestartKeeps DEF Next

THEOREM Invariance == Spec => []Inv
BY InvInit, InvNext, PTL DEF Spec

\* Every variable has its type and every row belongs to a client and a catalog,
\* whatever requests, failures and restarts there are.
THEOREM TypeCorrect == Spec => []TypeOK
<1>1. Inv => TypeOK
  <2> SUFFICES ASSUME Inv PROVE TypeOK
    OBVIOUS
  <2>1. minute \in 0..MaxMinute /\ DOMAIN counts \subseteq 0..minute /\ clients \subseteq Token
    BY DEF Inv, ClockTypes, Types
  <2>2. ASSUME NEW t \in Tables, NEW r \in table[t]
        PROVE  /\ r.id \in 1..serial[t] /\ r.c \in clients
               /\ r.cat \in OfKind("catalog")
               /\ t = "history" => r.val.ep \in OfKind("episode")
               /\ \A s \in table[t] : s.id = r.id => s = r
    <3>1. r.id \in Nat /\ serial[t] \in Nat
      BY DEF Inv, Types, RowT
    <3> QED
      BY <3>1 DEF Inv, TableInv, RowOk
  <2>3. \A w \in Worker : /\ job[w].pc \in JobLabels /\ job[w].todo \subseteq Ref
                          /\ ids[w].pc # "none" => job[w].pc = "publish"
    BY DEF Inv, Types, JobT, JobInv, JobOk
  <2>4. \A r \in alias : r.ref \in Ref /\ r.public \in Uuid
    BY DEF Inv, AliasInv, AliasTypes
  <2> QED
    BY <2>1, <2>2, <2>3, <2>4 DEF TypeOK
<1> QED
  BY <1>1, Invariance, PTL

\* Saves and deletes that have not overlapped leave what a map would hold.
THEOREM SavesKeepOrder == Spec => []SavesInOrder
<1>1. Inv => SavesInOrder
  <2> SUFFICES ASSUME Inv, NEW t \in Tables, NEW k \in Keys, want[t][k].clean
               PROVE  /\ {r.val : r \in RowsIn(t, k)} = {want[t][k].val} \ {NoVal}
                      /\ \A r, s \in RowsIn(t, k) : r = s
    BY DEF SavesInOrder
  <2>1. Holds(t, k)
    BY DEF Inv, SaveInv
  <2> QED
    BY <2>1 DEF Holds
<1> QED
  BY <1>1, Invariance, PTL

\* Whatever a client was sent for an id resolves to that id and no other: two
\* rows never share a public id, and no public id looks like an internal one.
THEOREM HandedIdsResolve == Spec => []HandedResolve
<1>1. Inv => HandedResolve
  <2> SUFFICES ASSUME Inv, NEW h \in handed, NEW y \in Ref
               PROVE  Resolves(h[1].kind, h[2], y) <=> y = h[1]
    BY DEF HandedResolve
  <2>1. h[1] \in Ref /\ Leads(h[1], h[2])
    BY DEF Inv, AliasInv, AliasTypes, Sent
  <2>2. \A r \in alias : r.ref \in Ref /\ r.public \in Uuid
    BY DEF Inv, AliasInv, AliasTypes
  <2>3. \A r, s \in alias : r.public = s.public => r = s
    BY DEF Inv, AliasInv, Unique
  <2>4. ASSUME Resolves(h[1].kind, h[2], y) PROVE y = h[1]
    <3>1. y.kind = h[1].kind
      BY <2>4 DEF Resolves
    <3>2. CASE h[2] = y.name
      BY <3>1, <3>2, <2>1, <2>2, QualifiedAssumption DEF Leads
    <3>3. ASSUME NEW r \in alias, r.public = h[2], r.ref = y PROVE y = h[1]
      BY <3>3, <2>1, <2>2, <2>3, QualifiedAssumption DEF Leads
    <3> QED
      BY <2>4, <3>2, <3>3 DEF Resolves
  <2>5. Resolves(h[1].kind, h[2], h[1])
    BY <2>1 DEF Leads, Resolves
  <2> QED
    BY <2>4, <2>5
<1> QED
  BY <1>1, Invariance, PTL
---------------------------------------------------------------------------
(***************************************************************************)
(* Rows and continue watching.                                             *)
(***************************************************************************)
\* Only the last statement of a save or delete writes a table.
LEMMA StepOnTable ==
    ASSUME [Next]_vars
    PROVE  UNCHANGED table \/ \E w \in Worker : UpsertSave(w) \/ DeleteRows(w)
<1>1. CASE NextMinute \/ Restart \/ UNCHANGED vars
  BY <1>1 DEF NextMinute, Restart, vars, libraryVars
<1>2. ASSUME NEW w \in Worker, Arrive(w) PROVE UNCHANGED table
  BY <1>2 DEF Arrive, rateLimit
<1>3. ASSUME NEW w \in Worker, WorkerStep(w), ~UpsertSave(w), ~DeleteRows(w)
      PROVE  UNCHANGED table
  BY <1>3 DEF WorkerStep, requireClient, ensureSession, EnsureClient, saveWatchlist,
       SaveWatchlist, saveHistory, UpsertFind, deleteHandler, browse, watchlist,
       history, continueWatching, publish, libraryVars
<1> QED
  BY <1>1, <1>2, <1>3 DEF Next

LEMMA SaveOwnRows ==
    ASSUME Inv, NEW w \in Worker, UpsertSave(w), NEW t \in Tables, NEW k \in Keys,
           t # TableOf(w) \/ k # Key(w)
    PROVE  RowsIn(t, k)' = RowsIn(t, k)
<1> DEFINE u == TableOf(w)
           id == IF job[w].row.id = 0 THEN NextId(u) ELSE job[w].row.id
           new == [id |-> id, c |-> Key(w)[1], cat |-> Key(w)[2],
                   val |-> merged(u, job[w].row.val, job[w].val)]
<1>1. job[w].pc = "save" /\ u \in Tables /\ Key(w) = <<job[w].c, job[w].cat>>
  BY DEF UpsertSave, At, TableOf, Tables, Key
<1>2. CASE UNCHANGED table
  BY <1>2 DEF RowsIn
<1>3. CASE table' = [table EXCEPT ![u] = {r \in @ : r.id # id} \cup {new}]
  <2>1. table \in [Tables -> SUBSET RowT] /\ serial[u] \in Nat
    BY <1>1 DEF Inv, Types
  <2>2. \A r \in table[u] : r.id = id => r.c = job[w].c /\ r.cat = job[w].cat
    <3>1. CASE job[w].row.id = 0
      <4>1. id = serial[u] + 1
        BY <3>1 DEF NextId
      <4>2. \A r \in table[u] : r.id \in Nat /\ r.id <= serial[u]
        BY <1>1, <2>1 DEF Inv, TableInv, RowOk, RowT
      <4> HIDE DEF id, u
      <4> QED
        BY <2>1, <4>1, <4>2
    <3>2. CASE job[w].row.id # 0
      BY <1>1, <3>2 DEF Inv, FoundInv, FoundOk, At
    <3> QED
      BY <3>1, <3>2
  <2>3. new.c = job[w].c /\ new.cat = job[w].cat
    BY <1>1
  <2> HIDE DEF new, id, u
  <2>4. t # u => table'[t] = table[t]
    BY <1>3, <2>1
  <2>5. table'[u] = {r \in table[u] : r.id # id} \cup {new}
    BY <1>1, <1>3, <2>1
  <2>6. CASE t # u
    BY <2>4, <2>6 DEF RowsIn
  <2>7. CASE t = u
    <3>1. k[1] # job[w].c \/ k[2] # job[w].cat
      BY <1>1, <2>7 DEF Keys, u
    <3> QED
      BY <2>2, <2>3, <2>5, <2>7, <3>1 DEF RowsIn
  <2> QED
    BY <2>6, <2>7
<1> QED
  BY <1>2, <1>3 DEF UpsertSave

LEMMA DeleteOwnRows ==
    ASSUME Inv, NEW w \in Worker, DeleteRows(w), NEW t \in Tables, NEW k \in Keys,
           t # TableOf(w) \/ k # Key(w)
    PROVE  RowsIn(t, k)' = RowsIn(t, k)
<1> DEFINE u == TableOf(w)
<1>1. u \in Tables /\ Key(w) = <<job[w].c, job[w].cat>> /\ table \in [Tables -> SUBSET RowT]
  BY DEF TableOf, Tables, Key, Inv, Types
<1>2. CASE UNCHANGED table
  BY <1>2 DEF RowsIn
<1>3. CASE table' = [table EXCEPT ![u] = @ \ RowsIn(u, Key(w))]
  <2>1. table'[u] = {r \in table[u] : ~(r.c = job[w].c /\ r.cat = job[w].cat)}
    BY <1>1, <1>3 DEF RowsIn
  <2>2. t # u => table'[t] = table[t]
    BY <1>1, <1>3
  <2>3. CASE t # u
    BY <2>2, <2>3 DEF RowsIn
  <2>4. CASE t = u
    <3>1. k[1] # job[w].c \/ k[2] # job[w].cat
      BY <1>1, <2>4 DEF Keys
    <3> HIDE DEF u
    <3> QED
      BY <2>1, <2>4, <3>1 DEF RowsIn
  <2> QED
    BY <2>3, <2>4
<1> QED
  BY <1>2, <1>3 DEF DeleteRows

\* No request writes a row of another client or catalog, however saves, deletes
\* and restarts interleave and although rows are written by their id.
THEOREM RowsAreOwn == Spec => OwnRowsOnly
<1>1. ASSUME Inv, [Next]_vars, NEW t \in Tables, NEW k \in Keys, RowsIn(t, k)' # RowsIn(t, k)
      PROVE  \E w \in Worker : /\ At(w, "save") \/ At(w, "delete")
                               /\ TableOf(w) = t /\ Key(w) = k
  <2>1. PICK w \in Worker : UpsertSave(w) \/ DeleteRows(w)
    BY <1>1, StepOnTable DEF RowsIn
  <2>2. TableOf(w) = t /\ Key(w) = k
    BY <1>1, <2>1, SaveOwnRows, DeleteOwnRows
  <2>3. At(w, "save") \/ At(w, "delete")
    BY <2>1 DEF UpsertSave, DeleteRows
  <2> QED
    BY <2>2, <2>3
<1>2. Inv /\ [Next]_vars =>
        [\A t \in Tables : \A k \in Keys : RowsIn(t, k)' # RowsIn(t, k) =>
            \E w \in Worker : /\ At(w, "save") \/ At(w, "delete")
                              /\ TableOf(w) = t /\ Key(w) = k]_vars
  BY <1>1
<1> QED
  BY <1>2, Invariance, PTL DEF Spec, OwnRowsOnly

\* Blank parts are filled from the row, the watchlist and the provider in this
\* order: who is not asked has nothing that would be used.
LEMMA ListCompleted ==
    ASSUME NEW h, NEW wl, NEW d PROVE Completed(h, wl, d)
<1> SUFFICES ASSUME NEW i \in DOMAIN h, IsFirst(h, i)
             PROVE  LET r == h[i]
                        w == lookup(wl, r.cat)
                        p == IF r.cat \in DOMAIN d THEN d[r.cat] ELSE NoMeta
                        x == items(h, wl, d)[i]
                    IN  /\ x.title = FirstNonBlank(<<r.title, w.title, p.title>>)
                        /\ x.cover = FirstNonBlank(<<r.cover, w.cover, p.cover>>)
  BY DEF Completed
<1> DEFINE r == h[i]
           w == lookup(wl, r.cat)
           p == IF r.cat \in DOMAIN d THEN d[r.cat] ELSE NoMeta
           asked == collectMissing(h, wl) \cap DOMAIN d
           f == IF r.cat \in asked THEN d[r.cat] ELSE NoMeta
<1>1. /\ items(h, wl, d)[i].title = FirstNonBlank(<<r.title, w.title, f.title>>)
      /\ items(h, wl, d)[i].cover = FirstNonBlank(<<r.cover, w.cover, f.cover>>)
  <2>1. f = IF r.cat \in DOMAIN [c \in asked |-> d[c]] THEN [c \in asked |-> d[c]][r.cat]
            ELSE NoMeta
    OBVIOUS
  <2> HIDE DEF f, w
  <2> QED
    BY <2>1 DEF items, buildItems, w
<1>2. ~Full(r) /\ ~Full(w) => r.cat \in collectMissing(h, wl)
  BY DEF collectMissing
<1>3. f = p \/ Full(r) \/ Full(w)
  BY <1>2
<1> HIDE DEF f, p, w, r
<1>4. /\ FirstNonBlank(<<r.title, w.title, f.title>>) = FirstNonBlank(<<r.title, w.title, p.title>>)
      /\ FirstNonBlank(<<r.cover, w.cover, f.cover>>) = FirstNonBlank(<<r.cover, w.cover, p.cover>>)
  BY <1>3 DEF FirstNonBlank, Full
<1> QED
  BY <1>1, <1>4 DEF f, p, w, r

\* Whatever rows the tables hold and the provider answers, ContinueWatching
\* completes the newest row of each catalog as if it had asked for every one.
THEOREM ContinueCompletes == Spec => []ContinueRight
<1>1. EveryListCompleted
  BY ListCompleted DEF EveryListCompleted
<1>2. ContinueRight
  BY <1>1 DEF ContinueRight
<1> QED
  BY <1>2, PTL
---------------------------------------------------------------------------
(***************************************************************************)
(* The alias table implements AliasRegistry.                               *)
(***************************************************************************)
\* A step that changes neither the rows nor what was sent is a stutter.
OnlyIds == UNCHANGED <<alias, handed>>

LEMMA BoundIs ==
    ASSUME Unique
    PROVE  /\ DOMAIN Bound = {r.ref : r \in alias}
           /\ \A r \in alias : Bound[r.ref] = r.public
<1>1. ASSUME NEW r \in alias PROVE (CHOOSE s \in alias : s.ref = r.ref) = r
  BY DEF Unique
<1> QED
  BY <1>1 DEF Bound

LEMMA StepOnIds ==
    ASSUME Next
    PROVE  OnlyIds \/ \E w \in Worker : EnsureAliasCreate(w) \/ Send(w)
<1>1. CASE NextMinute \/ Restart
  BY <1>1 DEF NextMinute, Restart, AliasRestart, OnlyIds, aliasVars
<1>2. ASSUME NEW w \in Worker, Arrive(w) PROVE OnlyIds
  BY <1>2 DEF Arrive, rateLimit, OnlyIds, aliasVars
<1>3. ASSUME NEW w \in Worker, WorkerStep(w), ~AliasStep(w) PROVE OnlyIds
  BY <1>3 DEF WorkerStep, requireClient, ensureSession, EnsureClient, saveWatchlist,
       SaveWatchlist, saveHistory, UpsertFind, UpsertSave, deleteHandler, DeleteRows,
       browse, watchlist, history, continueWatching, publish, public, OnlyIds, aliasVars
<1>4. ASSUME NEW w \in Worker, AliasStep(w) PROVE OnlyIds \/ EnsureAliasCreate(w) \/ Send(w)
  BY <1>4 DEF AliasStep, EnsureAliasFind, EnsureAliasAgain, OnlyIds
<1> QED
  BY <1>1, <1>2, <1>3, <1>4 DEF Next

\* Creating a row binds its id, sending an id hands it out, nothing else shows.
LEMMA StepRegisters ==
    ASSUME Inv, Inv', [Next]_vars
    PROVE  [Registry!Next]_<<Bound, handed>>
<1>0. Unique /\ Unique'
  BY DEF Inv, AliasInv
<1>1. CASE OnlyIds
  BY <1>1 DEF OnlyIds, Bound
<1>2. ASSUME NEW w \in Worker, Send(w) PROVE Registry!Next
  <2> DEFINE x == ids[w].ref
             v == ids[w].id
  <2>1. x \in Ref /\ (v = x.name \/ \E r \in alias : r.ref = x /\ r.public = v)
    BY <1>2 DEF Send, Inv, AliasInv, Asking, Leads
  <2>2. v \in Uuid \cup {x.name}
    BY <2>1 DEF Inv, AliasInv, AliasTypes
  <2>3. v = x.name \/ (x \in DOMAIN Bound /\ v = Bound[x])
    BY <1>0, <2>1, BoundIs
  <2>4. handed' = handed \cup {<<x, v>>} /\ Bound' = Bound
    BY <1>2 DEF Send, Bound
  <2>5. Registry!Hand(x, v)
    BY <2>3, <2>4 DEF Registry!Hand
  <2> QED
    BY <2>1, <2>2, <2>5 DEF Registry!Next
<1>3. ASSUME NEW w \in Worker, EnsureAliasCreate(w), ~OnlyIds PROVE Registry!Next
  <2> DEFINE x == ids[w].ref
  <2>1. PICK u \in Uuid : /\ RowsOf(x) = {} /\ \A r \in alias : r.public # u
                          /\ alias' = alias \cup {[ref |-> x, public |-> u]}
    BY <1>3 DEF EnsureAliasCreate, OnlyIds
  <2>2. x \in Ref /\ UNCHANGED handed
    BY <1>3 DEF EnsureAliasCreate, Inv, AliasInv, Asking
  <2> HIDE DEF x
  <2>3. x \notin DOMAIN Bound /\ \A y \in DOMAIN Bound : Bound[y] # u
    BY <1>0, <2>1, BoundIs DEF RowsOf
  <2>4. /\ DOMAIN Bound' = {r.ref : r \in alias'}
        /\ \A r \in alias' : Bound'[r.ref] = r.public
    <3>1. ASSUME NEW r \in alias' PROVE (CHOOSE s \in alias' : s.ref = r.ref) = r
      BY <1>0 DEF Unique
    <3> QED
      BY <3>1 DEF Bound
  <2>5. DOMAIN Bound' = DOMAIN Bound \cup {x}
    <3>1. DOMAIN Bound = {r.ref : r \in alias}
      BY <1>0, BoundIs
    <3>2. {r.ref : r \in alias'} = {r.ref : r \in alias} \cup {x}
      <4> DEFINE n == [ref |-> x, public |-> u]
      <4>1. alias' = alias \cup {n} /\ n.ref = x
        BY <2>1
      <4> HIDE DEF n
      <4> QED
        BY <4>1
    <3> QED
      BY <2>4, <3>1, <3>2
  <2>6. \A y \in DOMAIN Bound' : Bound'[y] = IF y = x THEN u ELSE Bound[y]
    <3> DEFINE n == [ref |-> x, public |-> u]
    <3>1. n \in alias' /\ n.ref = x /\ n.public = u
      BY <2>1
    <3>2. \A r \in alias' : r \in alias \/ r = n
      BY <2>1
    <3>3. \A r \in alias : r \in alias' /\ r.ref # x
      BY <2>1 DEF RowsOf
    <3> HIDE DEF n
    <3> QED
      BY <1>0, <2>4, <3>1, <3>2, <3>3, BoundIs
  <2>7. Bound' = [y \in DOMAIN Bound' |-> Bound'[y]]
    BY DEF Bound
  <2>8. Registry!Bind(x, u)
    BY <2>2, <2>3, <2>5, <2>6, <2>7 DEF Registry!Bind
  <2> QED
    BY <2>2, <2>8 DEF Registry!Next
<1>4. CASE UNCHANGED vars
  BY <1>1, <1>4 DEF vars, aliasVars, OnlyIds
<1> QED
  BY <1>1, <1>2, <1>3, <1>4, StepOnIds

\* Every behaviour of the client API is one of the registry: an id is bound
\* once, for ever, and only its name or what it is bound to is handed out.
THEOREM AliasesImplementRegistry == Spec => AliasesRegister
<1>1. Init => Registry!Init
  <2> SUFFICES ASSUME Init PROVE Registry!Init
    OBVIOUS
  <2>1. alias = {} /\ handed = {}
    BY DEF Init, AliasInit
  <2>2. Bound = << >>
    BY <2>1 DEF Bound
  <2> QED
    BY <2>1, <2>2 DEF Registry!Init
<1> QED
  BY <1>1, Invariance, StepRegisters, PTL DEF Spec, AliasesRegister, Registry!Spec
===========================================================================
