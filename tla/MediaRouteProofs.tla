------------------------- MODULE MediaRouteProofs -------------------------
(***************************************************************************)
(* The media and stream routes, for any number of players, resolvers and   *)
(* refreshes: the two services below them keep their invariants, and every *)
(* reply fits the request it answers.                                      *)
(***************************************************************************)
EXTENDS StreamProofs, MediaFetchProofs

RouteTypes ==
    /\ pc \in [Player -> RouteLabels]
    /\ req \in [Player -> Request]
    /\ DOMAIN reply = Player
    /\ throttle \subseteq Episode

\* Where Invalidate and Refresh can be: neither reads a cache.
RefreshLabels == {"forget", "delete", "ask", "persist", "upsert", "done", "failed"}

\* What a handler knows at each of its steps: it fetches, and waits for a
\* refreshed stream, for the request it has, and has not answered it yet.
RouteOk(p) ==
    /\ pc[p] = "idle" <=> req[p] = NoRequest
    /\ pc[p] = "reply" <=> reply[p] # NoReply
    /\ pc[p] \in {"idle", "local", "retry", "reply"} <=> fetch[p].pc = "none"
    /\ pc[p] \in {"fetch", "throttle", "mark"} =>
          fetch[p].url = req[p].url /\ fetch[p].range = req[p].range
    /\ pc[p] \in {"throttle", "mark"} =>
          fetch[p].pc = "done" /\ fetch[p].got # Failed /\ req[p].e \in Episode \ {NoEpisode}
    /\ pc[p] = "retry" => req[p].e \in Episode \ {NoEpisode} /\ call[p].e = req[p].e
    /\ pc[p] = "retry" => call[p].pc \in RefreshLabels /\ ~call[p].cached
    /\ pc[p] # "retry" => call[p] = NoCall
RouteInv == RouteTypes /\ \A p \in Player : RouteOk(p)

Inv == StreamInv /\ FetchInv /\ RouteInv
---------------------------------------------------------------------------
LEMMA Callers ==
    /\ Player \subseteq Caller /\ Resolver \subseteq Caller /\ Task \subseteq Caller
    /\ Player \cap Resolver = {} /\ Player \cap Task = {}
BY CallerAssumption

LEMMA RequestTyped ==
    ASSUME NEW r \in Request
    PROVE  /\ r.url \in Urls /\ r.range \in Ranges /\ r.e \in Episode \cup {NoEpisode}
           /\ r \in AllAsked => r # NoRequest
<1>1. r.url \in Urls /\ r.range \in Ranges
  BY DEF Urls, Ranges
<1>2. r.e \in Episode \cup {NoEpisode}
  <2>1. NoRequest.e = NoEpisode
    BY DEF NoRequest
  <2> QED
    BY <2>1, AskedAssumption DEF Request
<1>3. ASSUME r \in AllAsked PROVE r # NoRequest
  <2>1. NoRequest.url.file = ""
    BY DEF NoRequest
  <2>2. r.url.file \in AllowedFile
    BY <1>3, AskedAssumption
  <2> QED
    BY <2>1, <2>2, FileAssumption
<1> QED
  BY <1>1, <1>2, <1>3

LEMMA PlayerTyped ==
    ASSUME Inv, NEW p \in Player
    PROVE  /\ p \in Caller /\ RouteOk(p) /\ pc[p] \in RouteLabels /\ req[p] \in Request
           /\ req[p].url \in Urls /\ req[p].range \in Ranges
           /\ req[p].e \in Episode \cup {NoEpisode} /\ p \in DOMAIN reply
           /\ Key(p) = <<fetch[p].url, fetch[p].range>>
BY Callers, RequestTyped, KeyTyped DEF Inv, RouteInv, RouteTypes

LEMMA RepliesDiffer ==
    /\ Failed # NoReply
    /\ \A u, h : <<u, h>> # NoReply /\ <<u, h>> # Failed
<1>1. Len(Failed) = 1 /\ Len(NoReply) = 0
  BY DEF Failed, NoReply
<1>2. \A u, h : Len(<<u, h>>) = 2
  OBVIOUS
<1> QED
  BY <1>1, <1>2

\* The handler of p takes a step.
Aside(p) ==
    \A q \in Player \ {p} :
        /\ pc'[q] = pc[q] /\ req'[q] = req[q] /\ reply'[q] = reply[q]
        /\ fetch'[q] = fetch[q] /\ call'[q] = call[q]

LEMMA RouteStep ==
    ASSUME Inv, NEW p \in Player, RouteTypes', Aside(p), RouteOk(p)'
    PROVE  RouteInv'
<1> SUFFICES ASSUME NEW q \in Player PROVE RouteOk(q)'
  BY DEF RouteInv
<1>1. CASE q = p
  BY <1>1
<1>2. CASE q # p
  BY <1>2, PlayerTyped DEF Aside, RouteOk
<1> QED
  BY <1>1, <1>2

\* Services that change nothing keep their invariants.
LEMMA StreamIdle == ASSUME StreamInv, UNCHANGED streamVars PROVE StreamInv'
<1>1. UNCHANGED <<now, mem, row, call, since, alone>>
  BY DEF streamVars
<1>2. StreamTypes' /\ MemOk(mem)' /\ RowOk(row)'
  BY <1>1 DEF StreamInv, StreamTypes, MemOk, RowOk, EntryOk
<1>3. MemFresh' /\ RowFresh'
  BY <1>1 DEF StreamInv, MemFresh, RowFresh, Fresh
<1>4. CallsOk' /\ CallsFresh'
  BY <1>1 DEF StreamInv, CallsOk, CallsFresh, CallOk, CallFresh, Fresh
<1>5. AlonesOk'
  BY <1>1 DEF StreamInv, AlonesOk, AloneOk, Alone, Settled, InCall
<1> QED
  BY <1>2, <1>3, <1>4, <1>5 DEF StreamInv

LEMMA FetchIdle == ASSUME FetchInv, UNCHANGED fetchVars PROVE FetchInv'
<1>1. UNCHANGED <<buf, flight, fetch>>
  BY DEF fetchVars
<1>2. FetchTypes' /\ FlightOk' /\ JoinedOk' /\ OneLeader'
  BY <1>1 DEF FetchInv, FetchTypes, FlightOk, JoinedOk, OneLeader, Joined, Leads, Key,
              coalescingRangeKey
<1>3. BufOk' /\ GotsOk'
  BY <1>1 DEF FetchInv, BufOk, GotsOk, GotOk, Key, coalescingRangeKey
<1> QED
  BY <1>2, <1>3 DEF FetchInv

\* A step of a call concerns its caller only, and leads from Invalidate through
\* the provider: a refresh never has a result out of a cache.
Refreshing(c) == c.pc \in RefreshLabels /\ ~c.cached
LEMMA StreamStepAside ==
    ASSUME StreamInv, NEW p \in Caller, StreamStep(p)
    PROVE  /\ InCall(p) /\ call'[p].e = call[p].e
           /\ Refreshing(call[p]) => Refreshing(call'[p])
           /\ \A q \in Caller \ {p} : call'[q] = call[q]
<1>1. call[p] \in CallT /\ call \in [Caller -> CallT] /\ now \in 0..MaxTime
      /\ call[p].e \in Episode
  BY CallTyped DEF StreamInv, StreamTypes
<1>2. InCall(p)
  BY DEF StreamStep, GetMemory, EvictMemory, GetStreamCache, DeleteExpiredRow, FillMemory,
     StreamCandidates, PersistMemory, UpsertStreamCache, Invalidate, DeleteStreamCache, At,
     InCall, Labels
<1>3. \/ \E label : Goto(p, label)
      \/ \E label, result, cached : GotoWith(p, label, result, cached)
  BY DEF StreamStep, GetMemory, EvictMemory, GetStreamCache, DeleteExpiredRow, FillMemory,
     StreamCandidates, PersistMemory, UpsertStreamCache, Invalidate, DeleteStreamCache
<1>4. ASSUME NEW label, Goto(p, label)
      PROVE  call'[p].e = call[p].e /\ \A q \in Caller \ {p} : call'[q] = call[q]
  BY <1>1, <1>4 DEF Goto, CallT
<1>5. ASSUME NEW label, NEW result, NEW cached, GotoWith(p, label, result, cached)
      PROVE  call'[p].e = call[p].e /\ \A q \in Caller \ {p} : call'[q] = call[q]
  BY <1>1, <1>5 DEF GotoWith, CallT
<1>6. ASSUME Refreshing(call[p]) PROVE Refreshing(call'[p])
  <2>1. ASSUME NEW label \in {"delete", "ask", "upsert", "done", "failed"}, Goto(p, label)
        PROVE  Refreshing(call'[p])
    <3>1. Moved(p, label, call[p].res, call[p].cached)
      BY <2>1, GotoMoves DEF Labels
    <3> QED
      BY <1>6, <3>1 DEF Refreshing, RefreshLabels, Moved
  <2>2. ASSUME NEW result \in Answer[call[p].e][now], GotoWith(p, "persist", result, FALSE)
        PROVE  Refreshing(call'[p])
    <3>1. result \in Results
      BY <1>1 DEF Answers, Base, Results
    <3>2. Moved(p, "persist", result, FALSE)
      BY <2>2, <3>1, GotoWithMoves DEF Labels
    <3> QED
      BY <3>2 DEF Refreshing, RefreshLabels, Moved
  <2>3. call[p].pc \in {"forget", "delete", "ask", "persist", "upsert"}
    BY <1>2, <1>6 DEF Refreshing, RefreshLabels, InCall
  <2>4. \/ \E label \in {"delete", "ask", "upsert", "done", "failed"} : Goto(p, label)
        \/ \E result \in Answer[call[p].e][now] : GotoWith(p, "persist", result, FALSE)
    BY <2>3 DEF StreamStep, GetMemory, EvictMemory, GetStreamCache, DeleteExpiredRow, FillMemory,
       StreamCandidates, PersistMemory, UpsertStreamCache, Invalidate, DeleteStreamCache, At
  <2> QED
    BY <2>1, <2>2, <2>4
<1> QED
  BY <1>2, <1>3, <1>4, <1>5, <1>6
---------------------------------------------------------------------------
(***************************************************************************)
(* Replies.                                                                *)
(***************************************************************************)
LEMMA ReplyAnswers ==
    ASSUME Inv, NEW p \in Player, NEW x, Reply(p, x), Fits(req[p], x), x # NoReply,
           pc[p] \notin {"idle", "reply"}
    PROVE  /\ Source!Answer(p)
           /\ pc'[p] = "reply" /\ req' = req /\ reply'[p] = x
           /\ pc' \in [Player -> RouteLabels] /\ DOMAIN reply' = Player
           /\ \A q \in Player \ {p} : pc'[q] = pc[q] /\ reply'[q] = reply[q]
<1>1. /\ pc' = [pc EXCEPT ![p] = "reply"] /\ req' = req
      /\ reply' = [reply EXCEPT ![p] = x]
  BY DEF Reply, Advance
<1>2. pc \in [Player -> RouteLabels] /\ DOMAIN reply = Player
  BY DEF Inv, RouteInv, RouteTypes
<1>3. reply'[p] = x /\ req[p] # NoRequest /\ reply[p] = NoReply
  BY <1>1, <1>2, PlayerTyped DEF RouteOk
<1>4. Source!Answer(p)
  BY <1>1, <1>3 DEF Source!Answer
<1> QED
  BY <1>1, <1>2, <1>3, <1>4 DEF RouteLabels

\* After the reply the handler has nothing under way.
LEMMA ReplyKeeps ==
    ASSUME Inv, NEW p \in Player, NEW x, Reply(p, x), Fits(req[p], x), x # NoReply,
           pc[p] \notin {"idle", "reply"}, fetch'[p].pc = "none", call'[p] = NoCall,
           \A q \in Player \ {p} : fetch'[q] = fetch[q] /\ call'[q] = call[q],
           throttle' \subseteq Episode
    PROVE  RouteInv' /\ Source!Answer(p)
<1>1. /\ Source!Answer(p)
      /\ pc'[p] = "reply" /\ req' = req /\ reply'[p] = x
      /\ pc' \in [Player -> RouteLabels] /\ DOMAIN reply' = Player
      /\ \A q \in Player \ {p} : pc'[q] = pc[q] /\ reply'[q] = reply[q]
  BY ReplyAnswers
<1>2. RouteTypes' /\ Aside(p)
  BY <1>1 DEF Inv, RouteInv, RouteTypes, Aside
<1>3. RouteOk(p)'
  BY <1>1, PlayerTyped DEF RouteOk
<1> QED
  BY <1>1, <1>2, <1>3, RouteStep

\* The handler goes on without a reply.
LEMMA AdvanceKeeps ==
    ASSUME Inv, NEW p \in Player, NEW label \in RouteLabels, Advance(p, label),
           UNCHANGED <<req, reply, throttle>>,
           \A q \in Player \ {p} : fetch'[q] = fetch[q] /\ call'[q] = call[q],
           RouteOk(p)'
    PROVE  RouteInv'
<1>1. pc \in [Player -> RouteLabels] /\ pc' = [pc EXCEPT ![p] = label]
  BY DEF Inv, RouteInv, RouteTypes, Advance
<1>2. pc' \in [Player -> RouteLabels] /\ \A q \in Player \ {p} : pc'[q] = pc[q]
  BY <1>1
<1>3. RouteTypes' /\ Aside(p)
  BY <1>2 DEF Inv, RouteInv, RouteTypes, Aside
<1> QED
  BY <1>3, RouteStep

LEMMA FetchedFits ==
    ASSUME Inv, NEW p \in Player, pc[p] \in {"fetch", "throttle", "mark"},
           fetch[p].pc = "done", fetch[p].got # Failed
    PROVE  Fits(req[p], fetch[p].got) /\ fetch[p].got # NoReply
<1>1. fetch[p].got = Key(p)
  BY DEF Inv, FetchInv, GotsOk, GotOk
<1>2. fetch[p].got = <<req[p].url, req[p].range>>
  BY <1>1, PlayerTyped DEF RouteOk
<1> QED
  BY <1>2, RepliesDiffer DEF Fits
---------------------------------------------------------------------------
(***************************************************************************)
(* The steps of mediaRoute.                                                *)
(***************************************************************************)
\* What a step has to show: the invariant, and a step of MediaSource.
Good == Inv' /\ (Source!Next \/ UNCHANGED <<req, reply>>)

LEMMA MediaRouteKeeps ==
    ASSUME Inv, NEW p \in Player, NEW r \in Asked[p], mediaRoute(p, r)
    PROVE  Good
<1>1. pc[p] = "idle" /\ req' = [req EXCEPT ![p] = r] /\ pc' = [pc EXCEPT ![p] = "local"]
      /\ UNCHANGED <<streamVars, fetchVars, reply, throttle>>
  BY DEF mediaRoute, Advance
<1>2. r \in AllAsked /\ r \in Request
  BY DEF AllAsked, Request
<1>3. r # NoRequest /\ req[p] = NoRequest
  BY <1>1, <1>2, RequestTyped, PlayerTyped DEF RouteOk
<1>4. UNCHANGED <<fetch, call>>
  BY <1>1 DEF fetchVars, streamVars
<1>5. RouteTypes' /\ Aside(p) /\ pc'[p] = "local" /\ req'[p] = r
  BY <1>1, <1>2, <1>4 DEF Inv, RouteInv, RouteTypes, Aside, RouteLabels
<1>6. RouteOk(p)'
  BY <1>1, <1>3, <1>4, <1>5, PlayerTyped DEF RouteOk
<1>7. Inv'
  BY <1>1, <1>5, <1>6, RouteStep, StreamIdle, FetchIdle DEF Inv
<1>8. Source!Ask(p)
  BY <1>1, <1>2, <1>3 DEF Source!Ask
<1> QED
  BY <1>7, <1>8 DEF Good, Source!Next

LEMMA TryLocalKeeps == ASSUME Inv, NEW p \in Player, tryLocal(p) PROVE Good
<1>1. pc[p] = "local" /\ UNCHANGED <<streamVars, throttle>>
  BY DEF tryLocal
<1>2. fetch[p].pc = "none" /\ call[p] = NoCall /\ UNCHANGED call /\ throttle' \subseteq Episode
  BY <1>1, PlayerTyped DEF RouteOk, streamVars, Inv, RouteInv, RouteTypes
<1>3. CASE Reply(p, <<req[p].url, req[p].range>>) /\ UNCHANGED fetchVars
  <2>1. Fits(req[p], <<req[p].url, req[p].range>>)
    BY DEF Fits
  <2>2. UNCHANGED fetch
    BY <1>3 DEF fetchVars
  <2>3. RouteInv' /\ Source!Answer(p)
    BY <1>1, <1>2, <1>3, <2>1, <2>2, ReplyKeeps, RepliesDiffer
  <2> QED
    BY <1>1, <1>3, <2>3, StreamIdle, FetchIdle DEF Inv, Good, Source!Next
<1>4. CASE Fetch(p, req[p].url, req[p].range) /\ Advance(p, "fetch") /\ UNCHANGED <<req, reply>>
  <2>1. /\ FetchInv' /\ Others(p) /\ fetch'[p].url = req[p].url
        /\ fetch'[p].range = req[p].range /\ fetch'[p].pc \notin {"none", "done"}
    BY <1>2, <1>4, PlayerTyped, FetchKeeps DEF Inv
  <2>2. pc'[p] = "fetch" /\ req'[p] = req[p] /\ reply'[p] = reply[p]
    BY <1>4 DEF Advance, Inv, RouteInv, RouteTypes
  <2>3. RouteOk(p)'
    BY <1>1, <1>2, <2>1, <2>2, PlayerTyped DEF RouteOk
  <2>4. RouteInv'
    BY <1>1, <1>2, <1>4, <2>1, <2>3, AdvanceKeeps, Callers DEF Others, RouteLabels
  <2> QED
    BY <1>1, <1>4, <2>1, <2>4, StreamIdle DEF Inv, Good
<1> QED
  BY <1>3, <1>4 DEF tryLocal

LEMMA FetchFailedKeeps == ASSUME Inv, NEW p \in Player, fetchFailed(p) PROVE Good
<1>1. pc[p] = "fetch" /\ fetch[p].pc = "done" /\ ClearFetch(p)
      /\ UNCHANGED <<now, mem, row, buf, flight, throttle>>
  BY DEF fetchFailed, Fetched
<1>2. FetchInv' /\ Others(p) /\ fetch'[p].pc = "none"
  BY <1>1, ClearFetchKeeps DEF Inv
<1>3. p \in Caller /\ call[p] = NoCall /\ throttle' \subseteq Episode
  BY <1>1, PlayerTyped DEF RouteOk, Inv, RouteInv, RouteTypes
<1>4. CASE /\ req[p].e # NoEpisode /\ InvalidateAndRefresh(p, req[p].e)
           /\ Advance(p, "retry") /\ UNCHANGED <<req, reply>>
  <2>1. req[p].e \in Episode \ {NoEpisode}
    BY <1>4, PlayerTyped
  <2>2. /\ StreamInv' /\ call'[p].e = req[p].e /\ Refreshing(call'[p])
        /\ \A q \in Caller \ {p} : call'[q] = call[q]
    BY <1>1, <1>3, <1>4, <2>1, BeginKeeps DEF Inv, InvalidateAndRefresh, Refreshing, RefreshLabels
  <2>3. pc'[p] = "retry" /\ req'[p] = req[p] /\ reply'[p] = reply[p]
    BY <1>4 DEF Advance, Inv, RouteInv, RouteTypes
  <2>4. RouteOk(p)'
    BY <1>1, <1>2, <2>1, <2>2, <2>3, PlayerTyped DEF RouteOk, Refreshing
  <2>5. RouteInv'
    BY <1>1, <1>2, <1>4, <2>2, <2>4, AdvanceKeeps, Callers DEF Others, RouteLabels
  <2> QED
    BY <1>2, <1>4, <2>2, <2>5 DEF Inv, Good
<1>5. CASE Reply(p, Failed) /\ UNCHANGED <<call, history>>
  <2>1. Fits(req[p], Failed)
    BY DEF Fits
  <2>2. RouteInv' /\ Source!Answer(p)
    BY <1>1, <1>2, <1>3, <1>5, <2>1, ReplyKeeps, RepliesDiffer DEF Others
  <2>3. StreamInv'
    BY <1>1, <1>5, StreamIdle DEF Inv, streamVars, history
  <2> QED
    BY <1>2, <2>2, <2>3 DEF Inv, Good, Source!Next
<1> QED
  BY <1>4, <1>5 DEF fetchFailed

\* The bytes go to the client, who has got nothing yet.
LEMMA ReplyGotKeeps ==
    ASSUME Inv, NEW p \in Player, pc[p] \in {"fetch", "throttle", "mark"},
           fetch[p].pc = "done", fetch[p].got # Failed,
           Reply(p, fetch[p].got), ClearFetch(p), UNCHANGED <<flight, buf>>,
           \A q \in Player : call'[q] = call[q], throttle' \subseteq Episode
    PROVE  FetchInv' /\ RouteInv' /\ Source!Answer(p)
<1>1. FetchInv' /\ Others(p) /\ fetch'[p].pc = "none"
  BY ClearFetchKeeps DEF Inv
<1>2. Fits(req[p], fetch[p].got) /\ fetch[p].got # NoReply
  BY FetchedFits
<1>3. call[p] = NoCall
  BY PlayerTyped DEF RouteOk
<1> QED
  BY <1>1, <1>2, <1>3, ReplyKeeps DEF Others

LEMMA FetchedKeeps == ASSUME Inv, NEW p \in Player, fetched(p) PROVE Good
<1>1. pc[p] = "fetch" /\ fetch[p].pc = "done" /\ fetch[p].got # Failed
      /\ UNCHANGED <<streamVars, buf, flight, throttle>> /\ UNCHANGED call
  BY DEF fetched, Fetched, streamVars
<1>2. throttle' \subseteq Episode /\ StreamInv'
  BY <1>1, StreamIdle DEF Inv, RouteInv, RouteTypes
<1>3. CASE Reply(p, fetch[p].got) /\ ClearFetch(p)
  BY <1>1, <1>2, <1>3, ReplyGotKeeps DEF Inv, Good, Source!Next
<1>4. CASE req[p].e # NoEpisode /\ Advance(p, "throttle") /\ UNCHANGED <<fetch, req, reply>>
  <2>1. req[p].e \in Episode \ {NoEpisode}
    BY <1>4, PlayerTyped
  <2>2. pc'[p] = "throttle" /\ req'[p] = req[p] /\ reply'[p] = reply[p]
    BY <1>4 DEF Advance, Inv, RouteInv, RouteTypes
  <2>3. RouteOk(p)'
    BY <1>1, <1>4, <2>1, <2>2, PlayerTyped DEF RouteOk
  <2>4. RouteInv'
    BY <1>1, <1>4, <2>3, AdvanceKeeps DEF RouteLabels
  <2>5. FetchInv'
    BY <1>1, <1>4, FetchIdle DEF Inv, fetchVars
  <2> QED
    BY <1>2, <1>4, <2>4, <2>5 DEF Inv, Good
<1> QED
  BY <1>3, <1>4 DEF fetched

LEMMA RetryKeeps == ASSUME Inv, NEW p \in Player, retryMediaFetch(p) PROVE Good
<1> DEFINE result == call[p].res
           link == result.cands[result.preferred].url
<1>1. pc[p] = "retry" /\ End(p)
      /\ UNCHANGED <<now, mem, row, fetchVars, throttle>> /\ UNCHANGED fetch
  BY DEF retryMediaFetch, fetchVars
<1>2. /\ p \in Caller /\ fetch[p].pc = "none" /\ req[p].e \in Episode /\ call[p].e = req[p].e
      /\ throttle' \subseteq Episode
  BY <1>1, PlayerTyped DEF RouteOk, Inv, RouteInv, RouteTypes
<1>3. StreamInv' /\ call'[p] = NoCall /\ \A q \in Caller \ {p} : call'[q] = call[q]
  BY <1>1, <1>2, EndKeeps DEF Inv
<1>4. FetchInv'
  BY <1>1, FetchIdle DEF Inv
<1>5. ASSUME NEW x, Reply(p, x), Fits(req[p], x), x # NoReply PROVE Good
  <2>1. RouteInv' /\ Source!Answer(p)
    BY <1>1, <1>2, <1>3, <1>5, ReplyKeeps, Callers
  <2> QED
    BY <1>3, <1>4, <2>1 DEF Inv, Good, Source!Next
<1>6. CASE Reply(p, Failed)
  BY <1>5, <1>6, RepliesDiffer DEF Fits
<1>7. CASE call[p].pc = "done" /\ result.preferred # 0 /\ Reply(p, <<link, req[p].range>>)
  <2>1. result \in Answers(req[p].e)
    BY <1>2, <1>7, CallTyped DEF CallOk, Inv
  <2>2. req[p].e # NoEpisode
    BY <1>1, PlayerTyped DEF RouteOk
  <2>3. Fits(req[p], <<link, req[p].range>>)
    BY <1>7, <2>1, <2>2 DEF Fits
  <2> QED
    BY <1>5, <1>7, <2>3, RepliesDiffer
<1> QED
  BY <1>6, <1>7 DEF retryMediaFetch

LEMMA RefreshAsyncKeeps == ASSUME Inv, NEW p \in Player, refreshStreamAsync(p) PROVE Good
<1>1. pc[p] = "throttle" /\ UNCHANGED <<streamVars, buf, flight, throttle>> /\ UNCHANGED call
  BY DEF refreshStreamAsync, streamVars
<1>2. throttle' \subseteq Episode /\ StreamInv'
  BY <1>1, StreamIdle DEF Inv, RouteInv, RouteTypes
<1>3. CASE Reply(p, fetch[p].got) /\ ClearFetch(p)
  <2>1. fetch[p].pc = "done" /\ fetch[p].got # Failed
    BY <1>1, PlayerTyped DEF RouteOk
  <2> QED
    BY <1>1, <1>2, <1>3, <2>1, ReplyGotKeeps DEF Inv, Good, Source!Next
<1>4. CASE Advance(p, "mark") /\ UNCHANGED <<req, reply, fetch>>
  <2>1. pc'[p] = "mark" /\ req'[p] = req[p] /\ reply'[p] = reply[p]
    BY <1>4 DEF Advance, Inv, RouteInv, RouteTypes
  <2>2. RouteOk(p)'
    BY <1>1, <1>4, <2>1, PlayerTyped DEF RouteOk
  <2>3. RouteInv'
    BY <1>1, <1>4, <2>2, AdvanceKeeps DEF RouteLabels
  <2>4. FetchInv'
    BY <1>1, <1>4, FetchIdle DEF Inv, fetchVars
  <2> QED
    BY <1>2, <1>4, <2>3, <2>4 DEF Inv, Good
<1> QED
  BY <1>3, <1>4 DEF refreshStreamAsync

LEMMA StartRefreshKeeps == ASSUME Inv, NEW p \in Player, startRefresh(p) PROVE Good
<1>1. pc[p] = "mark" /\ throttle' = throttle \cup {req[p].e}
      /\ Reply(p, fetch[p].got) /\ ClearFetch(p)
      /\ UNCHANGED <<now, mem, row, buf, flight>>
  BY DEF startRefresh
<1>2. fetch[p].pc = "done" /\ fetch[p].got # Failed /\ req[p].e \in Episode
  BY <1>1, PlayerTyped DEF RouteOk
<1>3. throttle' \subseteq Episode
  BY <1>1, <1>2 DEF Inv, RouteInv, RouteTypes
<1>4. PICK t \in Task : InvalidateAndRefresh(t, req[p].e)
  BY DEF startRefresh
<1>5. StreamInv' /\ \A q \in Caller \ {t} : call'[q] = call[q]
  BY <1>1, <1>2, <1>4, BeginKeeps, Callers DEF Inv, InvalidateAndRefresh
<1>6. \A q \in Player : call'[q] = call[q]
  BY <1>5, Callers
<1> QED
  BY <1>1, <1>2, <1>3, <1>5, <1>6, ReplyGotKeeps DEF Inv, Good, Source!Next

LEMMA ReturnedKeeps == ASSUME Inv, NEW p \in Player, returned(p) PROVE Good
<1>1. /\ pc[p] = "reply" /\ pc' = [pc EXCEPT ![p] = "idle"]
      /\ req' = [req EXCEPT ![p] = NoRequest] /\ reply' = [reply EXCEPT ![p] = NoReply]
      /\ UNCHANGED <<streamVars, fetchVars, throttle>> /\ UNCHANGED <<call, fetch>>
  BY DEF returned, Advance, streamVars, fetchVars
<1>2. RouteTypes' /\ Aside(p) /\ pc'[p] = "idle" /\ req'[p] = NoRequest /\ reply'[p] = NoReply
  BY <1>1 DEF Inv, RouteInv, RouteTypes, Aside, RouteLabels, Request
<1>3. RouteOk(p)' /\ reply[p] # NoReply
  BY <1>1, <1>2, PlayerTyped DEF RouteOk
<1>4. RouteInv'
  BY <1>2, <1>3, RouteStep
<1>5. Source!Return(p)
  BY <1>1, <1>3 DEF Source!Return
<1> QED
  BY <1>1, <1>4, <1>5, StreamIdle, FetchIdle DEF Inv, Good, Source!Next
---------------------------------------------------------------------------
(***************************************************************************)
(* Steps of the services, and of the others.                               *)
(***************************************************************************)
\* Nothing that concerns a player's call changes.
LEMMA RouteIdle ==
    ASSUME Inv, StreamInv', UNCHANGED <<fetchVars, routeVars>>,
           \A q \in Player : call'[q] = call[q]
    PROVE  Good
<1>1. UNCHANGED <<fetch, pc, req, reply, throttle>>
  BY DEF fetchVars, routeVars
<1>2. RouteInv'
  BY <1>1 DEF Inv, RouteInv, RouteTypes, RouteOk
<1> QED
  BY <1>1, <1>2, FetchIdle DEF Inv, Good

LEMMA FetchWorkKeeps == ASSUME Inv, NEW p \in Player, FetchWork(p) PROVE Good
<1>1. FetchInv' /\ Quiet
  BY FetchStepKeeps DEF FetchWork, Inv
<1>2. UNCHANGED <<streamVars, pc, req, reply, throttle>> /\ UNCHANGED call
  BY DEF FetchWork, routeVars, streamVars
<1>3. RouteTypes'
  BY <1>2 DEF Inv, RouteInv, RouteTypes
<1>4. ASSUME NEW q \in Player PROVE RouteOk(q)'
  <2>1. RouteOk(q)
    BY PlayerTyped
  <2>2. (fetch'[q].pc = "none") <=> (fetch[q].pc = "none")
    BY <1>1 DEF Quiet
  <2>3. /\ fetch'[q].url = fetch[q].url /\ fetch'[q].range = fetch[q].range
        /\ fetch[q].pc = "done" => fetch'[q] = fetch[q]
    BY <1>1 DEF Quiet
  <2> QED
    BY <1>2, <2>1, <2>2, <2>3 DEF RouteOk
<1> QED
  BY <1>1, <1>2, <1>3, <1>4, StreamIdle DEF Inv, RouteInv, Good

\* A player has a call only while it waits for a refreshed stream.
LEMMA StreamWorkKeeps == ASSUME Inv, NEW p \in Caller, StreamWork(p) PROVE Good
<1>1. StreamInv' /\ InCall(p) /\ call'[p].e = call[p].e
      /\ (Refreshing(call[p]) => Refreshing(call'[p]))
      /\ \A q \in Caller \ {p} : call'[q] = call[q]
  BY StreamStepKeeps, StreamStepAside DEF StreamWork, Inv
<1>2. UNCHANGED <<fetchVars, routeVars>> /\ UNCHANGED <<fetch, pc, req, reply, throttle>>
  BY DEF StreamWork, fetchVars, routeVars
<1>3. RouteTypes'
  BY <1>2 DEF Inv, RouteInv, RouteTypes
<1>4. ASSUME NEW q \in Player PROVE RouteOk(q)'
  <2>1. RouteOk(q) /\ q \in Caller
    BY PlayerTyped
  <2>2. CASE q # p
    BY <1>1, <1>2, <2>1, <2>2 DEF RouteOk
  <2>3. CASE q = p
    <3>1. pc[p] = "retry"
      BY <1>1, <2>1, <2>3, NoCallTyped DEF RouteOk, InCall
    <3> QED
      BY <1>1, <1>2, <2>1, <2>3, <3>1 DEF RouteOk, Refreshing
  <2> QED
    BY <2>2, <2>3
<1> QED
  BY <1>1, <1>2, <1>3, <1>4, FetchIdle DEF Inv, RouteInv, Good

LEMMA ResolverKeeps ==
    ASSUME Inv, NEW p \in Resolver,
           (\E e \in Episode : streamResolve(p, e)) \/ ResolverStep(p)
    PROVE  Good
<1>1. p \in Caller /\ p \notin Player
  BY Callers
<1>2. ASSUME NEW e \in Episode, streamResolve(p, e) PROVE Good
  BY <1>1, <1>2, BeginKeeps, RouteIdle, Callers DEF streamResolve, Resolve, Inv
<1>3. CASE respond(p)
  BY <1>1, <1>3, RespondKeeps, RouteIdle, Callers DEF respond, Inv
<1>4. CASE responded(p)
  BY <1>1, <1>4, EndKeeps, RouteIdle, Callers DEF responded, Inv
<1> QED
  BY <1>1, <1>2, <1>3, <1>4, StreamWorkKeeps DEF ResolverStep

LEMMA TaskKeeps == ASSUME Inv, NEW t \in Task, TaskStep(t) PROVE Good
<1>1. t \in Caller /\ t \notin Player
  BY Callers
<1>2. CASE refreshEnds(t)
  BY <1>1, <1>2, EndKeeps, RouteIdle, Callers DEF refreshEnds, Inv
<1> QED
  BY <1>1, <1>2, StreamWorkKeeps DEF TaskStep

LEMMA BufferKeeps ==
    ASSUME Inv, BufferExpires, UNCHANGED <<streamVars, routeVars>> PROVE Good
<1>1. UNCHANGED <<fetch, call, pc, req, reply, throttle>>
  BY DEF BufferExpires, streamVars, routeVars
<1>2. RouteInv'
  BY <1>1 DEF Inv, RouteInv, RouteTypes, RouteOk
<1> QED
  BY <1>1, <1>2, BufferExpiresKeeps, StreamIdle DEF Inv, Good

LEMMA ThrottleKeeps == ASSUME Inv, throttleExpires PROVE Good
<1>1. throttle' \subseteq throttle /\ UNCHANGED <<streamVars, fetchVars, pc, req, reply>>
  BY DEF throttleExpires
<1>2. UNCHANGED <<fetch, call>>
  BY <1>1 DEF fetchVars, streamVars
<1>3. RouteInv'
  BY <1>1, <1>2 DEF Inv, RouteInv, RouteTypes, RouteOk
<1> QED
  BY <1>1, <1>3, FetchIdle, StreamIdle DEF Inv, Good

LEMMA RestartGood == ASSUME Inv, Restart PROVE Good
<1>1. StreamInv'
  BY RestartKeeps DEF Restart, Inv
<1>2. FetchInv'
  <2>1. FetchTypes' /\ \A p \in Player : fetch'[p].pc = "none"
    BY NoFetchTyped DEF Restart, FetchTypes
  <2>2. FlightOk' /\ BufOk'
    BY DEF Restart, FlightOk, BufOk
  <2>3. JoinedOk' /\ OneLeader' /\ GotsOk'
    BY <2>1 DEF JoinedOk, OneLeader, GotsOk, GotOk, Joined, Leads, Leading
  <2> QED
    BY <2>1, <2>2, <2>3 DEF FetchInv
<1>3. RouteInv'
  BY NoFetchTyped, Callers DEF Restart, StreamRestart, RouteInv, RouteTypes, RouteOk, RouteLabels,
     Request
<1>4. Source!Restart
  BY DEF Restart, Source!Restart
<1> QED
  BY <1>1, <1>2, <1>3, <1>4 DEF Inv, Good, Source!Next

LEMMA InitInv == ASSUME Init PROVE Inv /\ Source!Init
<1>1. StreamInv
  BY StreamInitInv DEF Init
<1>2. FetchInv
  BY NothingFetched DEF Init
<1>3. RouteInv
  BY NoFetchTyped, Callers DEF Init, StreamInit, RouteInv, RouteTypes, RouteOk, RouteLabels, Request
<1> QED
  BY <1>1, <1>2, <1>3 DEF Inv, Init, Source!Init

LEMMA NextGood == ASSUME Inv, Next PROVE Good
<1>1. ASSUME NEW p \in Player, NEW r \in Asked[p], mediaRoute(p, r) PROVE Good
  BY <1>1, MediaRouteKeeps
<1>2. ASSUME NEW p \in Player, PlayerStep(p) PROVE Good
  BY <1>2, TryLocalKeeps, FetchFailedKeeps, FetchedKeeps, RetryKeeps, RefreshAsyncKeeps,
     StartRefreshKeeps, ReturnedKeeps, FetchWorkKeeps, StreamWorkKeeps, Callers DEF PlayerStep
<1>3. CASE Tick /\ UNCHANGED <<fetchVars, routeVars>>
  BY <1>3, TickKeeps, RouteIdle DEF Tick, Inv
<1> QED
  BY <1>1, <1>2, <1>3, ResolverKeeps, TaskKeeps, BufferKeeps, ThrottleKeeps, RestartGood DEF Next

LEMMA StepGood == ASSUME Inv, [Next]_vars PROVE Good
<1>1. CASE UNCHANGED vars
  <2>1. UNCHANGED <<streamVars, fetchVars, routeVars>> /\ UNCHANGED call
    BY <1>1 DEF vars, streamVars
  <2> QED
    BY <2>1, StreamIdle, RouteIdle DEF Inv
<1> QED
  BY <1>1, NextGood
---------------------------------------------------------------------------
\* The invariant the other theorems follow from: stream service, fetcher and
\* handlers each keep their own through every step of the others.
THEOREM Invariance == Spec => []Inv
<1>1. Init => Inv
  BY InitInv
<1>2. Inv /\ [Next]_vars => Inv'
  BY StepGood DEF Good
<1> QED
  BY <1>1, <1>2, PTL DEF Spec

\* Every variable has its type, and a call is under way exactly where a
\* handler waits.
THEOREM TypeCorrect == Spec => []TypeOK
<1>1. ASSUME Inv PROVE TypeOK
  <2> USE <1>1
  <2>1. now \in 0..MaxTime /\ DOMAIN call = Caller
    BY DEF Inv, StreamInv, StreamTypes
  <2>6. since \in [Episode -> 0..now] /\ alone \in [Episode -> SUBSET Caller]
    BY DEF Inv, StreamInv, StreamTypes
  <2>2. /\ DOMAIN mem \subseteq Episode /\ DOMAIN row \subseteq Episode
        /\ \A e \in DOMAIN mem : mem[e].res \in Answers(e) /\ mem[e].left \in 1..mem[e].ttl
        /\ \A e \in DOMAIN row : row[e] \in Answers(e)
    BY DEF Inv, StreamInv, MemOk, EntryOk, RowOk
  <2>3. ASSUME NEW p \in Caller
        PROVE  call[p].pc \in Labels /\ call[p].e \in Episode /\ call[p].at \in 0..now
    BY CallTyped DEF Inv, CallOk, CallT
  <2>4. DOMAIN fetch = Player /\ \A p \in Player : fetch[p].pc \in FetchLabels
    BY DEF Inv, FetchInv, FetchTypes, FetchT
  <2>5. \A p \in Player : RouteOk(p)
    BY PlayerTyped
  <2> QED
    BY <2>1, <2>2, <2>3, <2>4, <2>5, <2>6 DEF TypeOK, Inv, RouteInv, RouteTypes, RouteOk
<1> QED
  BY <1>1, Invariance, PTL

\* Fetching a key upstream is one request's business: singleflight and the
\* second look at the buffer inside it (Fetch) let no second one through.
THEOREM UpstreamOnce == Spec => []OneUpstream
<1>1. ASSUME Inv PROVE OneUpstream
  BY <1>1 DEF Inv, FetchInv, GotsOk, GotOk, OneLeader, Leads, Leading, OneUpstream
<1> QED
  BY <1>1, Invariance, PTL

\* Nobody waits in singleflight for a call that nobody makes: whoever leads
\* leaves together with its followers.
THEOREM NoFollowerAlone == Spec => []FollowersLed
<1>1. ASSUME Inv PROVE FollowersLed
  <2> SUFFICES ASSUME NEW p \in Player, fetch[p].pc = "wait"
               PROVE  \E q \in Player : /\ fetch[q].pc \in {"again", "upstream", "keep", "settle"}
                                        /\ Key(q) = Key(p)
    BY DEF FollowersLed
  <2>1. Key(p) \in DOMAIN flight
    BY <1>1 DEF Inv, FetchInv, JoinedOk, Joined
  <2>2. PICK q \in flight[Key(p)] : Leads(q)
    BY <1>1, <2>1 DEF Inv, FetchInv, FlightOk
  <2>3. q \in Player /\ Key(q) = Key(p)
    BY <1>1, <2>1 DEF Inv, FetchInv, FlightOk
  <2> QED
    BY <2>2, <2>3 DEF Leads, Leading
<1> QED
  BY <1>1, Invariance, PTL

\* A renewal lasts: a call of the stream service that no other call of its
\* episode overlapped, and one of whose statements went through, has rid the
\* caches for good of what they held when it began.
THEOREM RenewedForGood == Spec => []RenewalLasts
<1>1. ASSUME Inv PROVE RenewalLasts
  BY <1>1 DEF Inv, StreamInv, MemFresh, RowFresh, CallsFresh, CallFresh, Fresh, RenewalLasts
<1> QED
  BY <1>1, Invariance, PTL

\* retryMediaFetch never has the link again that failed: what Refresh gives it
\* was signed since, whatever overlapping calls left in the caches.
THEOREM RetriesRenewed == Spec => []RetryRenewed
<1>1. ASSUME Inv PROVE RetryRenewed
  <2> SUFFICES ASSUME NEW p \in Player, pc[p] = "retry", call[p].pc = "done"
               PROVE  call[p].res \in SignedBetween(req[p].e, call[p].at, now)
    BY DEF RetryRenewed
  <2>1. call[p].e = req[p].e /\ ~call[p].cached /\ CallOk(call[p])
    BY <1>1, PlayerTyped, CallTyped DEF Inv, RouteOk
  <2> QED
    BY <2>1 DEF CallOk
<1> QED
  BY <1>1, Invariance, PTL

\* A link out of the caches still works when streamResolve answers: the margin
\* of resultExpiresAt outlasts the call.
THEOREM CachedLinksLive == Spec => []LinkLives
<1>1. ASSUME Inv PROVE LinkLives
  <2> SUFFICES ASSUME NEW p \in Resolver, call[p].pc = "done", call[p].cached,
                      NEW i \in DOMAIN call[p].res.cands
               PROVE  LET u == call[p].res.cands[i].url IN u.exp = 0 \/ now < u.exp
    BY DEF LinkLives
  <2>1. /\ call[p].e \in Episode /\ call[p].res \in Answers(call[p].e) /\ now \in Nat
        /\ call[p].at \in Nat /\ now - call[p].at <= Margin
        /\ ~resultIsExpired(call[p].at, call[p].res)
    BY <1>1, CallTyped, Callers DEF CallOk, Inv
  <2> QED
    BY <2>1, MarginCovers
<1> QED
  BY <1>1, Invariance, PTL

\* The caches keep upstream links: the rewriting of streamResolve works on a
\* copy.
THEOREM NoProxiedLinkCached == Spec => []CachedLinksUpstream
<1>1. ASSUME Inv PROVE CachedLinksUpstream
  <2>1. /\ \A e \in DOMAIN mem : e \in Episode /\ mem[e].res \in Answers(e)
        /\ \A e \in DOMAIN row : e \in Episode /\ row[e] \in Answers(e)
    BY <1>1 DEF Inv, StreamInv, MemOk, EntryOk, RowOk
  <2> QED
    BY <2>1, AnswersUpstream DEF CachedLinksUpstream
<1> QED
  BY <1>1, Invariance, PTL

\* The routes implement MediaSource: coalescing, buffering, retrying and the
\* refresh of slow streams never send one request's bytes to another.
THEOREM RouteImplementsSource == Spec => RepliesFit
<1>1. Init => Source!Init
  BY InitInv
<1>2. Inv /\ [Next]_vars => [Source!Next]_<<req, reply>>
  BY StepGood DEF Good
<1> QED
  BY <1>1, <1>2, Invariance, PTL DEF Spec, RepliesFit, Source!Spec
===========================================================================
