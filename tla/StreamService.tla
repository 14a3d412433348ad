--------------------------- MODULE StreamService ---------------------------
(***************************************************************************)
(* The stream service (internal/service/stream) over the memory cache and  *)
(* the stream_caches_v2 table: Resolve, Refresh and Invalidate.            *)
(*                                                                         *)
(* A Caller runs one call at a time, one cache, database or provider       *)
(* access per step; no lock is held from one step to the next.  Calls of   *)
(* Invalidate are always followed by Refresh (retryMediaFetch,             *)
(* refreshStreamAsync), so the two are one call here.                      *)
(*                                                                         *)
(* UpsertStreamCache finds a row and then saves it.  Whatever happened in  *)
(* between, the save either leaves the table as it is (an error, also the  *)
(* one of the unique index) or makes this result the episode's row, so it  *)
(* is one step.  Every database error is dropped by the caller.            *)
(***************************************************************************)
EXTENDS StreamSelect

CONSTANTS
    Episode, Caller,
    Offer,       \* Offer[e]: the candidate lists the provider may return,
                 \* with the life of each signature in url.exp
    StreamTTL,   \* ANIME_STREAM_CACHE_TTL, in ticks
    MaxTime      \* bound on the clock

ASSUME ClockAssumption ==
    MaxTime \in Nat /\ Margin \in Nat /\ StreamTTL \in Nat \ {0}
ASSUME EpisodeAssumption == Episode # {}

VARIABLES
    now,         \* the clock
    mem,         \* mem[e]: [res, ttl, left] of the memory cache
    row,         \* row[e]: the result in the table, with its ExpiresAt
    call,        \* call[p]: [pc, e, at, res, cached] of the caller
    since,       \* since[e]: when the call began that last renewed the episode
    alone        \* alone[e]: the call of the episode that no other overlapped
streamVars == <<now, mem, row, call, since, alone>>

\* since and alone are history variables: no step depends on them.
history == <<since, alone>>

Store(f, k, v) == [x \in DOMAIN f \cup {k} |-> IF x = k THEN v ELSE f[x]]
Without(f, k) == [x \in DOMAIN f \ {k} |-> f[x]]

\* The links of an answer live from the moment the provider signs them.
SignedAt(t, candidates) ==
    [i \in DOMAIN candidates |->
        [candidates[i] EXCEPT !.url.exp = IF @ = 0 THEN 0 ELSE t + @]]

\* Answer[e][t]: what resolve makes of a list the provider returns at time t.
Answer == [e \in Episode |-> [t \in 0..MaxTime |->
              {resolved(SignedAt(t, offer)) : offer \in Offer[e]}]]

\* The results an episode can have, whenever it is asked for.
Answers(e) == UNION {Answer[e][t] : t \in 0..MaxTime}

\* Those the provider has signed from time t to time u.
SignedBetween(e, t, u) == UNION {Answer[e][v] : v \in t..u}

ASSUME OfferAssumption == \A e \in Episode : Offer[e] \subseteq
    {otakudesuCandidates(page) : page \in OtakuPages}
    \cup {ExtractStreamCandidates(page) : page \in KuraPages}

NoResult == [cands |-> << >>, preferred |-> 0]
NoCall == [pc |-> "none", e |-> CHOOSE e \in Episode : TRUE, at |-> 0,
           res |-> NoResult, cached |-> FALSE]

Labels == {"none", "mem", "evict", "row", "purge", "fill", "ask", "persist",
           "upsert", "forget", "delete", "done", "failed", "sent"}
InCall(p) == call[p].pc \in Labels \ {"none", "done", "failed", "sent"}
Overlaps(p, e) == \E q \in Caller \ {p} : InCall(q) /\ call[q].e = e

StreamInit ==
    /\ now = 0 /\ mem = << >> /\ row = << >>
    /\ call = [p \in Caller |-> NoCall]
    /\ since = [e \in Episode |-> 0] /\ alone = [e \in Episode |-> {}]

\* Variant that has no time to live for a result that is already expired.
streamMemoryTTLZero(at, result) ==
    LET left == resultExpiresAt(result) - at
    IN  IF Signed(result) = {} \/ left > StreamTTL THEN StreamTTL ELSE left

\* The memory cache keeps a result for the configured time at most, and no
\* longer than its links live; an expired result for a second.
streamMemoryTTL(at, result) ==
    LET left == resultExpiresAt(result) - at
    IN  IF Signed(result) = {} THEN StreamTTL
        ELSE IF left <= 0 THEN 1 ELSE IF left < StreamTTL THEN left ELSE StreamTTL

Cached(e, at, result) ==
    LET t == streamMemoryTTL(at, result)
    IN  Store(mem, e, [res |-> result, ttl |-> t, left |-> t])

\* A Get that hits starts the item's time to live again (ttlcache touches
\* items on a hit unless told not to).
Touched(e) == [mem EXCEPT ![e].left = mem[e].ttl]

Begin(p, e, label) ==
    /\ call' = [call EXCEPT ![p] = [NoCall EXCEPT !.pc = label, !.e = e, !.at = now]]
    /\ alone' = [alone EXCEPT ![e] = IF Overlaps(p, e) THEN {} ELSE {p}]
    /\ UNCHANGED since
End(p) ==
    /\ call' = [call EXCEPT ![p] = NoCall]
    /\ alone' = [alone EXCEPT ![call[p].e] = @ \ {p}]
    /\ UNCHANGED since
Resolve(p, e) == Begin(p, e, "mem")
InvalidateAndRefresh(p, e) == Begin(p, e, "forget")

At(p, label) == call[p].pc = label
Goto(p, label) == call' = [call EXCEPT ![p].pc = label]
GotoWith(p, label, result, cached) ==
    call' = [call EXCEPT ![p].pc = label, ![p].res = result, ![p].cached = cached]

\* A statement of p went through: if nobody else was about, the caches are
\* rid of what they held when its call began.
Renewed(p) ==
    LET e == call[p].e IN
    /\ since' = IF p \in alone[e] THEN [since EXCEPT ![e] = call[p].at] ELSE since
    /\ UNCHANGED alone
---------------------------------------------------------------------------
GetMemory(p) ==
    LET e == call[p].e IN
    /\ At(p, "mem")
    /\ IF e \notin DOMAIN mem
       THEN Goto(p, "row") /\ UNCHANGED mem
       ELSE /\ mem' = Touched(e)
            /\ IF resultIsExpired(call[p].at, mem[e].res)
               THEN Goto(p, "evict")
               ELSE GotoWith(p, "done", mem[e].res, TRUE)
    /\ UNCHANGED <<now, row, history>>

EvictMemory(p) ==
    /\ At(p, "evict")
    /\ mem' = Without(mem, call[p].e)
    /\ Goto(p, "row")
    /\ UNCHANGED <<now, row, history>>

\* GetStreamCache reads the row; an expired one it deletes in a second
\* statement.  A failing query counts as a miss.  That resolve then tests the
\* result against the earlier moment its call began changes nothing.
GetStreamCache(p) ==
    LET e == call[p].e IN
    /\ At(p, "row")
    /\ \/ /\ e \in DOMAIN row
          /\ IF resultIsExpired(now, row[e])
             THEN Goto(p, "purge")
             ELSE GotoWith(p, "fill", row[e], TRUE)
       \/ Goto(p, "ask")
    /\ UNCHANGED <<now, mem, row, history>>

\* By primary key: a row another call has refreshed since goes as well, one
\* it has deleted and made anew does not.
DeleteExpiredRow(p) ==
    /\ At(p, "purge")
    /\ row' \in {Without(row, call[p].e), row}
    /\ Goto(p, "ask")
    /\ UNCHANGED <<now, mem, history>>

FillMemory(p) ==
    /\ At(p, "fill")
    /\ mem' = Cached(call[p].e, call[p].at, call[p].res)
    /\ Goto(p, "done")
    /\ UNCHANGED <<now, row, history>>

StreamCandidates(p) ==
    /\ At(p, "ask")
    /\ \/ \E result \in Answer[call[p].e][now] : GotoWith(p, "persist", result, FALSE)
       \/ Goto(p, "failed")
    /\ UNCHANGED <<now, mem, row, history>>

PersistMemory(p) ==
    /\ At(p, "persist")
    /\ mem' = Cached(call[p].e, now, call[p].res)
    /\ Goto(p, "upsert")
    /\ UNCHANGED <<now, row, history>>

UpsertStreamCache(p) ==
    /\ At(p, "upsert")
    /\ \/ row' = Store(row, call[p].e, call[p].res) /\ Renewed(p)
       \/ UNCHANGED <<row, history>>
    /\ Goto(p, "done")
    /\ UNCHANGED <<now, mem>>

\* Variant that removes the row alone.
InvalidateRowOnly(p) ==
    /\ At(p, "forget")
    /\ Goto(p, "delete")
    /\ UNCHANGED <<now, mem, row, history>>

\* Invalidate: the memory entry, then the row.
Invalidate(p) ==
    /\ At(p, "forget")
    /\ mem' = Without(mem, call[p].e)
    /\ Goto(p, "delete")
    /\ UNCHANGED <<now, row, history>>

\* Variant that resolves the stream after it, where the code refreshes it.
DeleteStreamCacheResolve(p) ==
    /\ At(p, "delete")
    /\ \/ row' = Without(row, call[p].e) /\ Renewed(p)
       \/ UNCHANGED <<row, history>>
    /\ Goto(p, "mem")
    /\ UNCHANGED <<now, mem>>

\* The Refresh that follows asks the provider, whatever the caches hold.
DeleteStreamCache(p) ==
    /\ At(p, "delete")
    /\ \/ row' = Without(row, call[p].e) /\ Renewed(p)
       \/ UNCHANGED <<row, history>>
    /\ Goto(p, "ask")
    /\ UNCHANGED <<now, mem>>

StreamStep(p) ==
    \/ GetMemory(p) \/ EvictMemory(p) \/ GetStreamCache(p) \/ DeleteExpiredRow(p)
    \/ FillMemory(p) \/ StreamCandidates(p) \/ PersistMemory(p)
    \/ UpsertStreamCache(p) \/ Invalidate(p) \/ DeleteStreamCache(p)

\* A tick of the clock; items whose time is up leave the memory cache.  No
\* call takes as long as the margin resultExpiresAt leaves.
Tick ==
    /\ now < MaxTime
    /\ \A p \in Caller : call[p].pc # "none" => now - call[p].at < Margin
    /\ now' = now + 1
    /\ mem' = [e \in {x \in DOMAIN mem : mem[x].left > 1} |->
                  [mem[e] EXCEPT !.left = @ - 1]]
    /\ UNCHANGED <<row, call, history>>

\* The process ends and starts again: only the table is left.
StreamRestart ==
    /\ mem' = << >>
    /\ call' = [p \in Caller |-> NoCall]
    /\ alone' = [e \in Episode |-> {}]
    /\ UNCHANGED <<now, row, since>>
===========================================================================
