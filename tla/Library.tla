------------------------------ MODULE Library ------------------------------
(***************************************************************************)
(* The client API (internal/httpserver/library_handlers.go, middleware.go  *)
(* and the handlers of public_handlers.go that publish ids) over identity, *)
(* library, identifiers and the tables they share.  A worker handles one   *)
(* request at a time: the rate limit, the client's token, its ids, and the *)
(* statements of the service, one per step.  Any statement may fail.       *)
(***************************************************************************)
EXTENDS Integers, Sequences, Aliases, ContinueWatching

CONSTANTS
    Token,       \* what randomToken may return
    Meta,        \* [pos, title] of a save; title "" stands for blank title,
                 \* cover and provider, which UpsertHistory treats alike
    PublicRPM,   \* ANIME_PUBLIC_RATE_LIMIT_RPM
    MaxMinute,   \* bound on the clock
    MaxRow       \* bound on the serial ids of a table

VARIABLES
    minute,      \* the clock, in minutes
    counts,      \* counts[m]: rateCounter's count of a minute, for one address
    clients,     \* the tokens in anonymous_clients_v2
    table,       \* table["watchlist"], table["history"]: rows [id, c, cat, val]
    serial,      \* serial[t]: the last id the table has given to a row
    job,         \* job[w]: the request a worker is handling
    want         \* want[t][k]: [clean, val], a history variable: what saves
                 \* and deletes of k one after the other would leave, and
                 \* whether they have been one after the other
ASSUME MetaAssumption == Meta \subseteq [pos : Nat, title : STRING]
ASSUME MinuteAssumption == MaxMinute \in Nat
libraryVars == <<minute, counts, clients, table, serial, job, want>>
vars == <<aliasVars, libraryVars>>

Tables == {"watchlist", "history"}
OfKind(kind) == {x \in Ref : x.kind = kind}
Keys == Token \X OfKind("catalog")
NoVal == [ep |-> NoRef, pos |-> -1, title |-> ""]
NoRow == [id |-> 0, c |-> NoRef, cat |-> NoRef, val |-> NoVal]
NoJob == [pc |-> "none", op |-> "none", c |-> NoRef, cat |-> NoRef,
          val |-> NoVal, row |-> NoRow, todo |-> {}]

Init ==
    /\ AliasInit
    /\ minute = 0 /\ counts = << >>
    /\ clients \in SUBSET Token        \* those of earlier days
    /\ table = [t \in Tables |-> {}] /\ serial = [t \in Tables |-> 0]
    /\ job = [w \in Worker |-> NoJob]
    /\ want = [t \in Tables |-> [k \in Keys |-> [clean |-> TRUE, val |-> NoVal]]]

At(w, label) == job[w].pc = label
Goto(w, label) == job' = [job EXCEPT ![w].pc = label]
Done(w) == job' = [job EXCEPT ![w] = NoJob]
RowsIn(t, k) == {r \in table[t] : r.c = k[1] /\ r.cat = k[2]}
---------------------------------------------------------------------------
(***************************************************************************)
(* Requests and middleware.  Clients send ids they have been sent, or the  *)
(* qualified ids themselves.                                               *)
(***************************************************************************)
Given(kind) == {x.name : x \in OfKind(kind)}
               \cup {h[2] : h \in {g \in handed : g[1].kind = kind}}
Protected(op) == [NoJob EXCEPT !.pc = "client", !.op = op]
WithCatalog == {[Protected(op) EXCEPT !.cat = v] :
    op \in {"saveWatchlist", "deleteWatchlist", "deleteHistory"}, v \in Given("catalog")}
WithEpisode(v, y, m) == [Protected("saveHistory") EXCEPT !.cat = v,
                            !.val = [ep |-> y, pos |-> m.pos, title |-> m.title]]
SaveHistories == {WithEpisode(v, y, m) :
    v \in Given("catalog"), y \in Given("episode"), m \in Meta}
Lists == {Protected(op) : op \in {"watchlist", "history", "continueWatching"}}

Count(m) == IF m \in DOMAIN counts THEN counts[m] ELSE 0

\* One over the limit is as good as any count above it.
Increment(m) == IF Count(m) > PublicRPM THEN Count(m) ELSE Count(m) + 1

\* A request arrives; over the limit it is refused and ends there.
rateLimit(w, request) ==
    /\ At(w, "none")
    /\ counts' = [m \in DOMAIN counts \cup {minute} |->
                     IF m = minute THEN Increment(m) ELSE counts[m]]
    /\ job' = IF Increment(minute) > PublicRPM THEN job
              ELSE [job EXCEPT ![w] = request]
    /\ UNCHANGED <<aliasVars, minute, clients, table, serial, want>>

\* Variant that lets any token pass.
requireClientAny(w) ==
    /\ At(w, "client")
    /\ Goto(w, job[w].op) \/ Done(w)
    /\ UNCHANGED <<aliasVars, minute, counts, clients, table, serial, want>>

\* An unknown token, or a failing lookup, ends the request.
requireClient(w) ==
    /\ At(w, "client")
    /\ (job[w].c \in clients /\ Goto(w, job[w].op)) \/ Done(w)
    /\ UNCHANGED <<aliasVars, minute, counts, clients, table, serial, want>>

\* Ensure: a known token stays; for any other, and when the lookup fails, a
\* new client is made.
ensureSession(w) ==
    /\ At(w, "session")
    /\ (job[w].c \in clients /\ Done(w)) \/ Goto(w, "create")
    /\ UNCHANGED <<aliasVars, minute, counts, clients, table, serial, want>>

EnsureClient(w) ==
    /\ At(w, "create")
    /\ clients' \in {clients} \cup {clients \cup {t} : t \in Token}
    /\ Done(w)
    /\ UNCHANGED <<aliasVars, minute, counts, table, serial, want>>
---------------------------------------------------------------------------
(***************************************************************************)
(* Saving and deleting.                                                    *)
(***************************************************************************)
\* The job goes on with the catalog its id resolves to, or ends.
ResolveCatalogID(w, label) ==
    \/ \E x \in OfKind("catalog") :
          /\ Resolves("catalog", job[w].cat, x)
          /\ job' = [job EXCEPT ![w].pc = label, ![w].cat = x]
    \/ Done(w)

saveWatchlist(w) ==
    /\ At(w, "saveWatchlist")
    /\ ResolveCatalogID(w, "detail")
    /\ UNCHANGED <<aliasVars, minute, counts, clients, table, serial, want>>

\* SaveWatchlist takes the title from the provider.
SaveWatchlist(w) ==
    /\ At(w, "detail")
    /\ \/ \E m \in Meta : job' = [job EXCEPT ![w].pc = "find",
             ![w].val = [ep |-> NoRef, pos |-> 0, title |-> m.title]]
       \/ Done(w)
    /\ UNCHANGED <<aliasVars, minute, counts, clients, table, serial, want>>

\* Both ids are resolved; the rows of the alias table never change, so one
\* step can look both up.
saveHistory(w) ==
    /\ At(w, "saveHistory")
    /\ \/ \E x \in OfKind("catalog"), y \in OfKind("episode") :
             /\ Resolves("catalog", job[w].cat, x) /\ Resolves("episode", job[w].val.ep, y)
             /\ job' = [job EXCEPT ![w].pc = "find", ![w].cat = x, ![w].val.ep = y]
       \/ Done(w)
    /\ UNCHANGED <<aliasVars, minute, counts, clients, table, serial, want>>

TableOf(w) == IF job[w].op \in {"saveHistory", "deleteHistory"}
              THEN "history" ELSE "watchlist"
Key(w) == <<job[w].c, job[w].cat>>
Saving(t, k) == {w \in Worker : At(w, "save") /\ TableOf(w) = t /\ Key(w) = k}

\* The first statement of UpsertWatchlist and UpsertHistory: the row with the
\* smallest id, if there is one.
UpsertFind(w) ==
    LET t == TableOf(w)
        k == Key(w)
        rows == RowsIn(t, k)
    IN
    /\ At(w, "find")
    /\ \/ /\ job' = [job EXCEPT ![w].pc = "save", ![w].row =
                        IF rows = {} THEN NoRow
                        ELSE CHOOSE r \in rows : \A s \in rows : r.id <= s.id]
          /\ want' = [want EXCEPT ![t][k].clean = @ /\ Saving(t, k) = {}]
       \/ Done(w) /\ UNCHANGED want
    /\ UNCHANGED <<aliasVars, minute, counts, clients, table, serial>>

\* UpsertHistory does not let a blank title replace one that it found.
merged(t, old, val) ==
    IF t = "history" /\ val.title = "" THEN [val EXCEPT !.title = old.title] ELSE val

\* What a map would hold for the key after the save.
LastSaved(t, old, val) ==
    CASE t = "history" /\ val.title = "" -> [val EXCEPT !.title = old.title]
      [] OTHER -> val

\* The primary key comes from a sequence, which does not go back.
NextId(t) == serial[t] + 1

\* The second statement.  gorm's Save updates the row of the id it found,
\* inserts it again when it has gone meanwhile, and inserts a new row when
\* none was found.
UpsertSave(w) ==
    LET t   == TableOf(w)
        k   == Key(w)
        id  == IF job[w].row.id = 0 THEN NextId(t) ELSE job[w].row.id
        new == [id |-> id, c |-> k[1], cat |-> k[2],
                val |-> merged(t, job[w].row.val, job[w].val)]
    IN
    /\ At(w, "save")
    /\ \/ /\ id <= MaxRow
          /\ table' = [table EXCEPT ![t] = {r \in @ : r.id # id} \cup {new}]
          /\ serial' = [serial EXCEPT ![t] = IF id > @ THEN id ELSE @]
          /\ want' = [want EXCEPT ![t][k].val = LastSaved(t, @, job[w].val)]
       \/ UNCHANGED <<table, serial, want>>
    /\ Done(w)
    /\ UNCHANGED <<aliasVars, minute, counts, clients>>

deleteHandler(w) ==
    /\ At(w, "deleteWatchlist") \/ At(w, "deleteHistory")
    /\ ResolveCatalogID(w, "delete")
    /\ UNCHANGED <<aliasVars, minute, counts, clients, table, serial, want>>

\* Variant that deletes the row it finds first.
DeleteRowsFirst(w) ==
    LET t == TableOf(w)
        k == Key(w)
        rows == RowsIn(t, k)
    IN
    /\ At(w, "delete")
    /\ \/ /\ table' = [table EXCEPT ![t] = {r \in @ :
                r \in rows => \E s \in rows : s.id < r.id}]
          /\ want' = [want EXCEPT ![t][k] = [clean |-> Saving(t, k) = {}, val |-> NoVal]]
       \/ UNCHANGED <<table, want>>
    /\ Done(w)
    /\ UNCHANGED <<aliasVars, minute, counts, clients, serial>>

\* DeleteWatchlist and DeleteHistory: every row of the client and catalog.
DeleteRows(w) ==
    LET t == TableOf(w)
        k == Key(w)
    IN
    /\ At(w, "delete")
    /\ \/ /\ table' = [table EXCEPT ![t] = @ \ RowsIn(t, k)]
          /\ want' = [want EXCEPT ![t][k] = [clean |-> Saving(t, k) = {}, val |-> NoVal]]
       \/ UNCHANGED <<table, want>>
    /\ Done(w)
    /\ UNCHANGED <<aliasVars, minute, counts, clients, serial>>
---------------------------------------------------------------------------
(***************************************************************************)
(* Reading.  A response publishes the ids in it one after the other, in    *)
(* an order that does not matter.                                          *)
(***************************************************************************)
Publish(w, refs) == job' = [job EXCEPT ![w].pc = "publish", ![w].todo = refs]
RowsFor(t, c) == {r \in table[t] : r.c = c}

\* home, search, schedule, index, the discovery pages, catalogDetail and
\* catalogEpisodes: whatever ids the pages list.
browse(w) ==
    /\ At(w, "browse")
    /\ \E refs \in SUBSET Ref : Publish(w, refs)
    /\ UNCHANGED <<aliasVars, minute, counts, clients, table, serial, want>>

watchlist(w) ==
    /\ At(w, "watchlist")
    /\ Publish(w, {r.cat : r \in RowsFor("watchlist", job[w].c)}) \/ Done(w)
    /\ UNCHANGED <<aliasVars, minute, counts, clients, table, serial, want>>

\* ListHistory, in history and as the first read of ContinueWatching.
history(w) ==
    LET rows == RowsFor("history", job[w].c) IN
    /\ At(w, "history") \/ At(w, "continueWatching")
    /\ \/ job' = [job EXCEPT ![w].todo = {r.cat : r \in rows} \cup {r.val.ep : r \in rows},
                             ![w].pc = IF @ = "history" THEN "publish" ELSE "meta"]
       \/ Done(w)
    /\ UNCHANGED <<aliasVars, minute, counts, clients, table, serial, want>>

\* The watchlist and the provider's details for what has no title yet: only
\* a failing ListWatchlist shows.  ContinueWatching says what is made of it.
continueWatching(w) ==
    /\ At(w, "meta")
    /\ Goto(w, "publish") \/ Done(w)
    /\ UNCHANGED <<aliasVars, minute, counts, clients, table, serial, want>>

publish(w) ==
    /\ At(w, "publish") /\ ids[w].pc = "none"
    /\ \/ /\ job[w].todo = {} /\ Done(w) /\ UNCHANGED aliasVars
       \/ LET x == CHOOSE y \in job[w].todo : TRUE IN
          /\ job[w].todo # {}
          /\ public(w, x)
          /\ job' = [job EXCEPT ![w].todo = @ \ {x}]
    /\ UNCHANGED <<minute, counts, clients, table, serial, want>>
---------------------------------------------------------------------------
NextMinute ==
    /\ minute < MaxMinute
    /\ minute' = minute + 1
    /\ UNCHANGED <<aliasVars, counts, clients, table, serial, job, want>>

\* The process ends and starts again, in a later minute: the tables are left,
\* and what clients remember.
Restart ==
    /\ minute < MaxMinute
    /\ AliasRestart
    /\ job' = [w \in Worker |-> NoJob] /\ counts' = << >> /\ minute' = minute + 1
    /\ UNCHANGED <<clients, table, serial, want>>

Arrive(w) ==
    \E request \in {[NoJob EXCEPT !.pc = p] : p \in {"session", "browse"}}
                   \cup WithCatalog \cup SaveHistories \cup Lists, c \in Token :
        rateLimit(w, [request EXCEPT !.c = c])

WorkerStep(w) ==
    \/ requireClient(w) \/ ensureSession(w) \/ EnsureClient(w)
    \/ saveWatchlist(w) \/ SaveWatchlist(w) \/ saveHistory(w)
    \/ UpsertFind(w) \/ UpsertSave(w) \/ deleteHandler(w) \/ DeleteRows(w)
    \/ browse(w) \/ watchlist(w) \/ history(w) \/ continueWatching(w) \/ publish(w)
    \/ AliasStep(w) /\ UNCHANGED libraryVars

Next == (\E w \in Worker : Arrive(w) \/ WorkerStep(w)) \/ NextMinute \/ Restart

Spec == Init /\ [][Next]_vars
---------------------------------------------------------------------------
JobLabels == {"none", "client", "session", "create", "saveWatchlist", "detail",
              "saveHistory", "find", "save", "deleteWatchlist", "deleteHistory",
              "delete", "browse", "watchlist", "history", "continueWatching",
              "meta", "publish"}

\* Every variable has its type; rows belong to clients that exist and have
\* ids the table has given, and only a publishing job is asking for an id.
TypeOK ==
    /\ minute \in 0..MaxMinute /\ DOMAIN counts \subseteq 0..minute
    /\ clients \subseteq Token
    /\ \A t \in Tables : \A r \in table[t] :
          /\ r.id \in 1..serial[t] /\ r.c \in clients
          /\ r.cat \in OfKind("catalog")
          /\ t = "history" => r.val.ep \in OfKind("episode")
          /\ \A s \in table[t] : s.id = r.id => s = r
    /\ \A w \in Worker : /\ job[w].pc \in JobLabels
                         /\ job[w].todo \subseteq Ref
                         /\ ids[w].pc # "none" => job[w].pc = "publish"
    /\ \A r \in alias : r.ref \in Ref /\ r.public \in Uuid

\* As long as saves and deletes of a client's catalog have not overlapped
\* since a delete that met no save, the table holds what they would leave in
\* a map: nothing, or one row with the last position and the last title that
\* was not blank.  (Overlapping ones leave two rows, or the deleted one.)
SavesInOrder ==
    \A t \in Tables : \A k \in Keys : want[t][k].clean =>
        {r.val : r \in RowsIn(t, k)} = {want[t][k].val} \ {NoVal}
        /\ \A r, s \in RowsIn(t, k) : r = s

\* The rows of a client's catalog change only by a save or delete of that
\* client and catalog, although gorm saves a row by the id it found before:
\* the id of a row that has been deleted meanwhile is nobody else's.
OwnRowsOnly ==
    [][\A t \in Tables : \A k \in Keys : RowsIn(t, k)' # RowsIn(t, k) =>
          \E w \in Worker : /\ At(w, "save") \/ At(w, "delete")
                            /\ TableOf(w) = t /\ Key(w) = k]_vars

\* When a request goes on to complete the history it has read, it completes
\* the newest row of every catalog, whatever the tables and the provider hold.
ContinueRight == (\E w \in Worker : At(w, "meta")) => EveryListCompleted

\* The table implements AliasRegistry: one public id per internal id, for ever.
Registry == INSTANCE AliasRegistry WITH bound <- Bound, Public <- Uuid
AliasesRegister == Registry!Spec
===========================================================================
