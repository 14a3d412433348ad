---------------------------- MODULE MediaRoute ----------------------------
(***************************************************************************)
(* The media and stream routes (internal/httpserver/public_handlers.go)    *)
(* over the stream service and the media fetcher: streamResolve hands out  *)
(* links, mediaRoute fetches them for players, retries a failed fetch with *)
(* a refreshed link and renews a slow stream in a goroutine (a Task).      *)
(***************************************************************************)
EXTENDS StreamService, MediaFetch

CONSTANTS
    Resolver,      \* requests in streamResolve
    Task,          \* goroutines of refreshStreamAsync
    Asked,         \* Asked[p]: the requests player p makes, [e, url, range]
    NoEpisode,     \* a request without episodeId
    AllowedFile    \* the files on hosts the media proxy may fetch from

VARIABLES
    pc,        \* pc[p]: where player p is in mediaRoute
    req,       \* req[p]: its request
    reply,     \* reply[p]: the response written to it
    throttle   \* episodes with a fresh refresh marker
routeVars == <<pc, req, reply, throttle>>
vars == <<streamVars, fetchVars, routeVars>>

ASSUME CallerAssumption ==
    Caller = Player \cup Resolver \cup Task
    /\ Player \cap Resolver = {} /\ (Player \cup Resolver) \cap Task = {}
AllAsked == UNION {Asked[p] : p \in Player}
ASSUME AskedAssumption ==
    \A r \in AllAsked : r.url.file \in AllowedFile /\ r.e \in Episode \cup {NoEpisode}
ASSUME FileAssumption == "" \notin AllowedFile

NoRequest == [e |-> NoEpisode, url |-> [file |-> "", exp |-> 0, local |-> FALSE],
              range |-> [kind |-> "none", a |-> 0, b |-> 0]]

NoReply == << >>

\* mediaproxy.Fetch refuses other hosts, this server's own among them, and an
\* expired signature is refused upstream.
CanFetch(u) == u.file \in AllowedFile /\ ~u.local /\ (u.exp = 0 \/ now < u.exp)

Init ==
    /\ StreamInit
    /\ buf = << >> /\ flight = << >> /\ throttle = {}
    /\ fetch = [p \in Player |-> NoFetch(NoRequest.url, NoRequest.range)]
    /\ pc = [p \in Player |-> "idle"]
    /\ req = [p \in Player |-> NoRequest]
    /\ reply = [p \in Player |-> NoReply]

Advance(p, label) == pc' = [pc EXCEPT ![p] = label]

\* The handler writes x to the client.
Reply(p, x) ==
    /\ Advance(p, "reply")
    /\ reply' = [reply EXCEPT ![p] = x]
    /\ UNCHANGED req
---------------------------------------------------------------------------
(***************************************************************************)
(* streamResolve answers with a copy of the result whose direct links lead *)
(* through the media route; the cached result keeps the upstream's.        *)
(***************************************************************************)
streamResolve(p, e) ==
    /\ call[p].pc = "none"
    /\ Resolve(p, e)
    /\ UNCHANGED <<now, mem, row, fetchVars, routeVars>>

proxyMediaURL(u) == [u EXCEPT !.local = TRUE]
Proxied(result) ==
    [result EXCEPT !.cands = [i \in DOMAIN @ |->
        IF @[i].direct THEN [@[i] EXCEPT !.url = proxyMediaURL(@)] ELSE @[i]]]

\* Variant that rewrites the candidates it shares with the memory cache.
respondInPlace(p) ==
    LET e == call[p].e IN
    /\ call[p].pc = "done"
    /\ GotoWith(p, "sent", Proxied(call[p].res), FALSE)
    /\ mem' = IF e \in DOMAIN mem /\ mem[e].res = call[p].res
              THEN [mem EXCEPT ![e].res = Proxied(@)] ELSE mem
    /\ UNCHANGED <<now, row, history, fetchVars, routeVars>>

respond(p) ==
    /\ call[p].pc = "done"
    /\ GotoWith(p, "sent", Proxied(call[p].res), FALSE)
    /\ UNCHANGED <<now, mem, row, history, fetchVars, routeVars>>

\* The response is on its way, or the handler answered provider_failed.
responded(p) ==
    /\ call[p].pc \in {"sent", "failed"}
    /\ End(p)
    /\ UNCHANGED <<now, mem, row, fetchVars, routeVars>>
---------------------------------------------------------------------------
(***************************************************************************)
(* mediaRoute.  A request without a URL, or for another host, is answered  *)
(* at once and changes nothing.  With an episode the startup cache and the *)
(* predictive cache may have the range; StartupCache and PredictiveCache   *)
(* say when, here either may happen.                                       *)
(***************************************************************************)
mediaRoute(p, r) ==
    /\ pc[p] = "idle"
    /\ req' = [req EXCEPT ![p] = r]
    /\ Advance(p, "local")
    /\ UNCHANGED <<streamVars, fetchVars, reply, throttle>>

tryLocal(p) ==
    /\ pc[p] = "local"
    /\ \/ /\ req[p].e # NoEpisode
          /\ Reply(p, <<req[p].url, req[p].range>>)
          /\ UNCHANGED fetchVars
       \/ /\ Fetch(p, req[p].url, req[p].range)
          /\ Advance(p, "fetch")
          /\ UNCHANGED <<req, reply>>
    /\ UNCHANGED <<streamVars, throttle>>

Fetched(p) == pc[p] = "fetch" /\ fetch[p].pc = "done"
ClearFetch(p) ==
    fetch' = [fetch EXCEPT ![p] = NoFetch(NoRequest.url, NoRequest.range)]

\* A failed fetch is retried once, unless the request has no episode or its
\* id cannot be resolved any more.
fetchFailed(p) ==
    /\ Fetched(p) /\ fetch[p].got = Failed
    /\ \/ /\ req[p].e # NoEpisode
          /\ InvalidateAndRefresh(p, req[p].e)
          /\ Advance(p, "retry")
          /\ UNCHANGED <<req, reply>>
       \/ Reply(p, Failed) /\ UNCHANGED <<call, history>>
    /\ ClearFetch(p)
    /\ UNCHANGED <<now, mem, row, buf, flight, throttle>>

\* A slow answer to the start of an episode renews its stream.
fetched(p) ==
    /\ Fetched(p) /\ fetch[p].got # Failed
    /\ \/ Reply(p, fetch[p].got) /\ ClearFetch(p)
       \/ /\ req[p].e # NoEpisode /\ isStartupRange(req[p].range)
          /\ Advance(p, "throttle")
          /\ UNCHANGED <<fetch, req, reply>>
    /\ UNCHANGED <<streamVars, buf, flight, throttle>>

\* retryMediaFetch: the refreshed result's preferred stream, same range.  A
\* result without a preferred stream has no candidate either.
retryMediaFetch(p) ==
    /\ pc[p] = "retry" /\ call[p].pc \in {"done", "failed"}
    /\ LET result == call[p].res
           link   == result.cands[result.preferred].url
       IN  \/ /\ call[p].pc = "done" /\ result.preferred # 0 /\ CanFetch(link)
              /\ Reply(p, <<link, req[p].range>>)
           \/ Reply(p, Failed)
    /\ End(p)
    /\ UNCHANGED <<now, mem, row, fetchVars, throttle>>

\* refreshStreamAsync looks the marker up, and sets it in a second call.
refreshStreamAsync(p) ==
    /\ pc[p] = "throttle"
    /\ IF req[p].e \in throttle
       THEN Reply(p, fetch[p].got) /\ ClearFetch(p)
       ELSE Advance(p, "mark") /\ UNCHANGED <<req, reply, fetch>>
    /\ UNCHANGED <<streamVars, buf, flight, throttle>>

\* At most Task goroutines run at a time.
startRefresh(p) ==
    /\ pc[p] = "mark"
    /\ throttle' = throttle \cup {req[p].e}
    /\ \E t \in Task : call[t].pc = "none" /\ InvalidateAndRefresh(t, req[p].e)
    /\ Reply(p, fetch[p].got) /\ ClearFetch(p)
    /\ UNCHANGED <<now, mem, row, buf, flight>>

refreshEnds(t) ==
    /\ call[t].pc \in {"done", "failed"}
    /\ End(t)
    /\ UNCHANGED <<now, mem, row, fetchVars, routeVars>>

\* The handler has returned; the next request starts from nothing.
returned(p) ==
    /\ pc[p] = "reply"
    /\ Advance(p, "idle")
    /\ req' = [req EXCEPT ![p] = NoRequest]
    /\ reply' = [reply EXCEPT ![p] = NoReply]
    /\ UNCHANGED <<streamVars, fetchVars, throttle>>

throttleExpires ==
    /\ \E e \in throttle : throttle' = throttle \ {e}
    /\ UNCHANGED <<streamVars, fetchVars, pc, req, reply>>

Restart ==
    /\ StreamRestart
    /\ buf' = << >> /\ flight' = << >> /\ throttle' = {}
    /\ fetch' = [p \in Player |-> NoFetch(NoRequest.url, NoRequest.range)]
    /\ pc' = [p \in Player |-> "idle"]
    /\ req' = [p \in Player |-> NoRequest]
    /\ reply' = [p \in Player |-> NoReply]
---------------------------------------------------------------------------
StreamWork(p) == StreamStep(p) /\ UNCHANGED <<fetchVars, routeVars>>
FetchWork(p) ==
    FetchStep(p, CanFetch(fetch[p].url)) /\ UNCHANGED <<streamVars, routeVars>>

PlayerStep(p) ==
    \/ tryLocal(p) \/ fetchFailed(p) \/ fetched(p) \/ retryMediaFetch(p)
    \/ refreshStreamAsync(p) \/ startRefresh(p) \/ returned(p)
    \/ FetchWork(p) \/ StreamWork(p)
ResolverStep(p) == respond(p) \/ responded(p) \/ StreamWork(p)
TaskStep(t) == refreshEnds(t) \/ StreamWork(t)

Next ==
    \/ \E p \in Player : (\E r \in Asked[p] : mediaRoute(p, r)) \/ PlayerStep(p)
    \/ \E p \in Resolver : (\E e \in Episode : streamResolve(p, e)) \/ ResolverStep(p)
    \/ \E t \in Task : TaskStep(t)
    \/ Tick /\ UNCHANGED <<fetchVars, routeVars>>
    \/ BufferExpires /\ UNCHANGED <<streamVars, routeVars>>
    \/ throttleExpires
    \/ Restart

Spec == Init /\ [][Next]_vars

\* Go runs every goroutine; the proxy, the database and the provider all
\* answer or time out.
LiveSpec ==
    /\ Spec
    /\ \A p \in Player : WF_vars(PlayerStep(p))
    /\ \A p \in Resolver : WF_vars(ResolverStep(p))
    /\ \A t \in Task : WF_vars(TaskStep(t))
---------------------------------------------------------------------------
FetchLabels == {"none", "lookup", "do", "wait", "again", "upstream", "keep",
                "settle", "direct", "done"}
RouteLabels == {"idle", "local", "fetch", "retry", "throttle", "mark", "reply"}
Request == AllAsked \cup {NoRequest}

\* Every variable has its type; cached and held results are provider answers
\* for their episode, and a call is under way exactly where a handler waits.
TypeOK ==
    /\ now \in 0..MaxTime
    /\ DOMAIN mem \subseteq Episode /\ DOMAIN row \subseteq Episode
    /\ \A e \in DOMAIN mem : /\ mem[e].res \in Answers(e)
                            /\ mem[e].left \in 1..mem[e].ttl
    /\ \A e \in DOMAIN row : row[e] \in Answers(e)
    /\ DOMAIN call = Caller
    /\ \A p \in Caller : /\ call[p].pc \in Labels /\ call[p].e \in Episode
                         /\ call[p].at \in 0..now
    /\ since \in [Episode -> 0..now] /\ alone \in [Episode -> SUBSET Caller]
    /\ \A p \in Player : pc[p] # "retry" => call[p] = NoCall
    /\ DOMAIN fetch = Player
    /\ \A p \in Player : /\ fetch[p].pc \in FetchLabels
                         /\ pc[p] \in {"idle", "local", "retry", "reply"} <=> fetch[p].pc = "none"
    /\ pc \in [Player -> RouteLabels]
    /\ req \in [Player -> Request]
    /\ throttle \subseteq Episode

\* Fetching a key upstream is one request's business: while it does so nobody
\* else does, and the buffer does not have the key ("upstream call count",
\* media_fetch_test.go), however the lookups, the singleflight group and the
\* end of the buffer's time interleave.
OneUpstream ==
    \A p \in Player : fetch[p].pc = "upstream" =>
        /\ Key(p) \notin DOMAIN buf
        /\ \A q \in Player \ {p} :
              fetch[q].pc \in {"again", "upstream", "keep", "settle"} => Key(q) # Key(p)

\* Nobody waits for a call that nobody makes: as long as a follower waits, a
\* leader of its key is at work, whatever the response and whoever joined
\* last.  RequestsReturn rests on this.
FollowersLed ==
    \A p \in Player : fetch[p].pc = "wait" =>
        \E q \in Player : /\ fetch[q].pc \in {"again", "upstream", "keep", "settle"}
                          /\ Key(q) = Key(p)

\* A renewal lasts.  Once a call that no other of its episode overlapped got
\* its delete or its upsert through, no cache and no call that fills one has a
\* result from before it, whatever happens next: calls that overlap, failing
\* statements (of the same call as well), expiry, restarts.
RenewalLasts ==
    \A e \in Episode :
        LET renewed == SignedBetween(e, since[e], now) IN
        /\ e \in DOMAIN mem => mem[e].res \in renewed
        /\ e \in DOMAIN row => row[e] \in renewed
        /\ \A p \in Caller :
              call[p].e = e /\ call[p].pc \in {"fill", "persist", "upsert"}
                  => call[p].res \in renewed

\* The link a retry fetches was signed after the first fetch had failed: no
\* call that overlaps the Invalidate, and no statement of it that fails, lets
\* retryMediaFetch have the dead link again.
RetryRenewed ==
    \A p \in Player : pc[p] = "retry" /\ call[p].pc = "done" =>
        call[p].res \in SignedBetween(req[p].e, call[p].at, now)

\* A link out of the caches still works when streamResolve answers, although
\* hits prolong the memory cache's time to live and the table may be slow:
\* the margin of resultExpiresAt covers the call.
LinkLives ==
    \A p \in Resolver : call[p].pc = "done" /\ call[p].cached =>
        \A i \in DOMAIN call[p].res.cands :
            LET u == call[p].res.cands[i].url IN u.exp = 0 \/ now < u.exp

\* The caches keep upstream links: no response rewritten for a client gets
\* into them (cloneStreamResult), for the media proxy would refuse its links.
CachedLinksUpstream ==
    \A e \in Episode : \A result \in
        {mem[x].res : x \in DOMAIN mem \cap {e}} \cup {row[x] : x \in DOMAIN row \cap {e}} :
            \A i \in DOMAIN result.cands : ~result.cands[i].url.local

\* A call that asks the provider shows whatever page it reads at its best:
\* nothing playable is hidden, and the best playable stream is preferred.
SelectionRight == (\E p \in Caller : At(p, "ask")) => EveryPageServed

\* A reply fits its request: an error, the bytes it asked for, or the same
\* range of the preferred link of an answer for its episode.
Fits(r, x) ==
    \/ x = Failed
    \/ x = <<r.url, r.range>>
    \/ /\ r.e # NoEpisode
       /\ \E result \in Answers(r.e) :
             /\ result.preferred # 0
             /\ x = <<result.cands[result.preferred].url, r.range>>

\* The route implements MediaSource: coalescing, buffering and retrying never
\* send one request's bytes to another.
Source == INSTANCE MediaSource WITH Request <- AllAsked
RepliesFit == Source!Spec

\* Every media request is answered: the followers of a coalesced fetch, those
\* who must fetch alone after all and those who wait for a refreshed stream.
RequestsReturn == \A p \in Player : pc[p] # "idle" ~> pc[p] = "idle"
===========================================================================
