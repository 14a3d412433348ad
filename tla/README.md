# ZeroNime: a TLA+ model of the backend

ZeroNime is a Go backend that scrapes anime catalogs, resolves episodes to video URLs,
proxies the video, caches what it can of all three, and keeps a watchlist and a history
for anonymous clients. This directory holds TLA+ modules translated from that code, TLC
configurations that check them on small instances, and TLAPS proofs that hold for every
instance. Paths below are relative to the repository.

## 1. Inventory

| component | state | operations | interacts with |
|---|---|---|---|
| startup media cache service (`internal/mediacache/service.go`) | none of its own; one metadata row per episode, head and tail blob per (episode, URL) | `Prewarm`, `isSufficientlyCached`, `TryServeRange` | metadata table, blob store, upstream |
| blob stores (`filesystem.go`, `tiered.go`, `s3.go`) | files in a directory, objects in a bucket | `Put`, `Get` (read-through) | shared by the server and the prewarm command |
| `cmd/prewarm-startup` | worker pool | `Prewarm` for the latest episodes | catalog, stream, startup cache |
| `cmd/purge-startup-cache` | none | deletes all objects, page by page | the bucket only |
| media route (`internal/httpserver/public_handlers.go`) | none | `mediaRoute`: startup cache, predictive cache, fetcher, retry with refreshed stream | all of the above |
| predictive cache (`predictive_startup_cache.go`, `predictive_handlers.go`) | window per client, in-memory entries, files, throttle keys | `primeStartupWindow`, `UpdateWindow`, `pruneInactive` | stream service, its own mediacache.Service |
| stream service (`internal/service/stream`) | memory cache and stream rows | `Resolve`, `Refresh`, `Invalidate` | provider, postgres |
| media fetcher (`media_fetch.go`) | singleflight group, short buffer | `Fetch` | media proxy |
| catalog service (`internal/service/catalog`) | memory cache, catalog and discovery rows | home, search, `Catalog`, refreshes | provider, postgres |
| identifiers, identity, library | alias, client, watchlist and history rows | ensure/resolve alias, session, upsert/list/delete | postgres |
| rate limiting and middleware | counter per address and minute | `Increment`, `requireClient` | every route |
| memory cache (`internal/cache`) | TTL map | get, set, delete | shared by all services |
| providers (`internal/provider`) | none that matters across calls | scrape third-party pages | upstream sites |
| configuration, logging, domain types, image proxy | none | | |

What is hard in this code is not in any single function. Nothing holds a lock or a
transaction across two calls: a row is read and then the blob it names, a blob is
put and then the row that names it, the windows are read and then entries are
deleted. Local writes are visible half done; the directory disappears on a
redeployment, rows and objects do not; a purge does the reverse; every call to a
store or to upstream can fail, and several errors are deliberately dropped.

What makes each part correct:

- startup cache: a hit has exactly the bytes asked for; a row never promises a blob
  that is not there; a redeployed server can restore; every call returns;
- predictive cache: nothing outlives its window; nothing still wanted is removed;
- stream service: a renewed episode stays renewed, a retry gets a new link, and a link
  that is handed out still works; nothing playable on a page is hidden;
- media fetcher and route: one upstream request per range at a time, each caller
  gets the bytes it asked for or an error, and gets it eventually;
- identifiers: one public id per internal id, for ever, and every id a client was
  sent leads back to what it was sent for;
- library: one row per client and title as long as requests do not overlap, with
  the last position and the last title; no request touches the rows of another key;
- catalog: once the provider answers well again, details are served whole, whatever
  the caches kept from before.

`PROJECT.json` lists the hazards one by one with the line where each bites, and the
properties that watch it.

## 2. Modules

| module | models | contents |
|---|---|---|
| `Orders` | `sort.Slice` as the code uses it | lists made of a set |
| `OrderProofs` | | lemmas on these lists, and the least element of a set |
| `MediaRange` | range arithmetic of `service.go` | `parseRange`, `Decide` (which chunk, which slice), `buildCachedPartialResponse`, `wantsTail` |
| `StartupCache` (extends `MediaRange`) | `mediacache.Service`, directory, tiered store, object store, startup rows, purge | the state machine |
| `StartupCacheInv` | | properties and the inductive invariant `IInv` |
| `StartupCacheProofs` | | theorems |
| `PredictiveCache` | predictive handlers, windows, entries, files | the state machine and its properties |
| `PredictiveCacheProofs` | | theorems |
| `StreamSelect` | candidates of both providers, `normalizeCandidates`, `pickPreferredStream`, `resultExpiresAt` | pure operators, `WellServed`, `EveryPageServed` |
| `StreamService` (extends `StreamSelect`) | `internal/service/stream`, memory cache, stream rows, the clock | actions of a call |
| `MediaFetch` | `media_fetch.go` | actions of a fetch |
| `MediaRoute` (extends `StreamService`, `MediaFetch`) | `mediaRoute`, `streamResolve`, `retryMediaFetch`, `refreshStreamAsync`, the proxy's refusals | the composition, its specification and properties |
| `MediaSource` | what the media route promises | abstract specification |
| `StreamProofs`, `MediaFetchProofs`, `MediaRouteProofs` | | lemmas on the service, on the selection and on the fetcher; theorems of the composition |
| `Aliases` | `internal/service/identifiers`, alias rows | actions of `EnsureAlias` |
| `AliasRegistry` | what the identifiers promise | abstract specification |
| `Library` (extends `Aliases`, `ContinueWatching`) | rate limit, `requireClient`, identity, library handlers and their tables, the handlers that publish ids | the composition, its specification and properties |
| `LibraryProofs` | | theorems |
| `ContinueWatching` | `ContinueWatching` of `internal/service/library` | pure operators, `Completed`, `EveryListCompleted` |
| `CatalogService` (extends `EpisodePages`) | `internal/service/catalog`, memory cache, catalog and discovery rows | the state machine and its properties |
| `CatalogProofs` | | theorems |
| `EpisodePages` | `collectEpisodes` of kuramanime | a recursive function, `Found`, `EverySiteWalked` |
| `MCStartupCache`, `MCPredictiveCache`, `MCMediaRoute`, `MCLibrary`, `MCCatalog` | | instances for TLC |

### StartupCache

A *worker* is a goroutine running `Prewarm`, a *reader* one running
`TryServeRange` for `mediaRoute`. `pc[p]` is the next call of goroutine `p`; every
call another goroutine can see is one action:

| `pc` | action | code |
|---|---|---|
| idle (worker) | `Prewarm` | `GetStartupMediaCache` and the row half of `isSufficientlyCached` |
| idle (reader) | `TryServeRange` | row, source key, range, choice of chunk |
| getLocal, getRemote | `GetLocal`, `GetRemote` | `FilesystemStore.Get`, `S3Store.Get` |
| fillOpen, fillWrite | `FillOpen`, `FillWrite` | the ignored local `Put` of `TieredStore.Get` |
| fetchHead, fetchTail | `FetchHead`, `FetchTail` | upstream requests |
| putRemote, putOpen, putWrite | `PutRemote`, `PutOpen`, `PutWrite` | `TieredStore.Put`, or `FilesystemStore.Put` alone |
| upsert | `UpsertStartupMediaCache` | the row; find-then-save is one step because `episode_id` is unique: the loser of a create race fails, which the action allows |
| hit, miss, fail, outOfBounds | `Replied` | the response leaves |

`os.WriteFile` is `OpenLocal` (truncates) and `WriteLocal`; `WriteSome` makes any
longer proper prefix visible in between. `Crash` kills one prewarm run or the
server; `Redeploy` kills everything and empties the directory; `Purge` deletes any
set of objects. Every call may fail where the code handles an error, and an object put
that fails may have taken effect.

A body is a sequence of bytes `<<file, position>>`, so "the right bytes" is a
statement about positions and not about content. A URL's source key (lower-cased
base name) names the file: two signed URLs with one base name are the same file,
which is what the code assumes too. The upstream file does not change. An upstream
answers a range exactly, with the whole file, or (a "capped" server) with a prefix
of the range at most `Cap` long; it always reports the file's length. The reading
of an existing local file does not fail. Content type, quality and container are
left out.

### PredictiveCache

A *task* is one `preparePredictiveWindow` goroutine. Its `pc` goes through record
(throttle), resolve, window, prewarm, snapshot, prune and unlink; in prewarm,
`sub[t][e]` is the position of the goroutine that runs `Prewarm` for episode `e`.
Windows and entries have one lock each, and each critical section is one action.
Chunk files are present or absent here; their bytes are the subject of
`StartupCache`. An announcement is a set of episodes: their order matters to the
code only for the throttle key. `isSufficientlyCached` looks at entry and files in
one step; its outcome only decides whether the chunks are fetched again.

### MediaRoute: stream service, fetcher and routes

A *caller* is anything that calls the stream service: a player in `mediaRoute`, a
resolver in `streamResolve`, a task of `refreshStreamAsync`. `call[p].pc` is the
caller's next access in `resolve`:

| `call[p].pc` | action | code |
|---|---|---|
| mem, evict | `GetMemory`, `EvictMemory` | memory lookup; an expired result is deleted in a second call |
| row, purge | `GetStreamCache`, `DeleteExpiredRow` | the row; an expired one is deleted by its key in a second statement |
| fill | `FillMemory` | a row's result goes to memory |
| ask | `StreamCandidates` | the provider answers or fails |
| persist, upsert | `PersistMemory`, `UpsertStreamCache` | memory first, then the row; the upsert may fail |
| forget, delete | `Invalidate`, `DeleteStreamCache` | memory first, then the row; then `Refresh` asks the provider |

Time is a number of ticks. A link carries the moment its signature ends; a hit
starts the memory entry's time to live again, as ttlcache does. `Tick` assumes that
no call lasts as long as the five minutes `resultExpiresAt` takes off: the request
timeouts are far shorter. `alone` and `since` are history variables for `RenewalLasts`,
which no action reads except to write them: `alone[e]` holds the latest call for `e` if
no other call for `e` was under way at any time during it, and `since[e]` is when the
last such call began that got a statement through. Results are told apart by when they
were signed (`SignedBetween`), to a tick.

A fetch goes lookup, do, again, upstream, keep, settle (the leader), or wait (a
follower), or direct. A response is named by the request it answers, so a reply
that belongs to someone else shows. singleflight is modelled from its use: one call
per key at a time, whose outcome all who came meanwhile get. The startup and the
predictive cache may or may not have a range (`tryLocal`).

### Library: identifiers, identity, library, rate limit

A worker handles one request: `rateLimit`, `requireClient`, resolution of ids, the
statements of the service one by one, and for a response the publication of each
id in it (`ids[w]` goes find, create, again, got). `UpsertFind` and `UpsertSave` are
two steps because the tables have no unique index on client and catalog: what gorm's
`Save` does to a row that has gone, or that someone else has inserted, is spelled
out there. For aliases and for stream, catalog and discovery rows a unique index
makes find-then-save one step or the `again` step of `EnsureAlias`. `handed` is what
clients have been sent; they send back only that or qualified ids. `want` is a
history variable: what a map would hold.

### CatalogService

A call for a detail goes through memory, table and provider, then through the
repairs (own cover, release dates, covers of recommendations) and writes the result
back. Copies of a detail share their `Metadata` map and `Recommendations` slice; the
shared part is an object in `heap`, so a write by one call is seen by the others and
by the cache. Covers and release dates have the few values the repairs tell apart.
`normalizeDetail` deletes two keys of the shared map without a lock. Go ends the process
when it notices two such writes at once ("fatal error: concurrent map writes"); no
statement of the repository is about that, and in the model it is a `Restart`, which may
happen at any moment. `UpsertCatalogCache` reads the shared part and saves the row in one
step, where the code marshals it two statements earlier: the row may be older than the
model's by what others wrote in between, as it is anyway when the upsert comes late.
Pages are raw or normalized. `ProviderRecovers` is external: from then on the
provider answers, with whole details.

## 3. Runs

| run | expects | states | shows |
|---|---|---|---|
| `startup_tiered` | pass | 290 189 | two workers, a reader, object store: `EntryBacked`, `RestoreFinds`, `IInv`, and the action property `ObjectsFinal` |
| `startup_local` | pass | 1.66 M | directory only, three URLs of two files, three kinds of upstream: `ServedBytesRight`, `TypeOK` |
| `startup_purge` | pass | 29 476 | `CallsReturn` with purging and failures |
| `startup_restore` | violation | | `SliceInsideBlob`: a short local file shadows the object |
| `startup_rebuild` | violation | | `RebuiltOnDemand`: nothing rebuilds the cache on demand |
| `startup_resize` | violation | | `ServedBytesRight` across a change of the tail's size |
| `predictive` | pass | 138 648 | `NoStaleEntry`, `StaleEntryCovered`, `TypeOK`, and `StaleEntryGoes` under fairness |
| `predictive_kept` | violation | | `ActiveEntryKept`: pruning with an old view of the windows |
| `stream` | pass | 5.24 M | `RenewalLasts`, `RetryRenewed`, `LinkLives`, `CachedLinksUpstream`, `TypeOK`; the pure `SelectionRight` |
| `media` | pass | 196 k | `OneUpstream`, `FollowersLed`; refinement `RepliesFit`; `RequestsReturn` under fairness |
| `library` | pass | 1.21 M | `HandedResolve`, `SavesInOrder`, `TypeOK`; refinement `AliasesRegister`; the pure `ContinueRight` |
| `catalog` | pass | 4.55 M | `ServedWhole`, `TypeOK`; the pure `EpisodesFound` |

What the properties say, and where they stop:

- `RenewalLasts`: a call that no other call of its episode overlapped, and whose delete
  or upsert went through, renews the episode: from then on no cache, and no call on its
  way to one, has a result signed before that call began. The premise is about calls and
  the outcome of statements, not about what the caches hold; that they hold nothing older
  is the conclusion. One of the two statements is enough: an Invalidate whose delete is
  lost is made good by the upsert of the Refresh behind it. If both are lost the old row
  comes back after a restart. The premise is needed: `Invalidate` empties the memory
  before the row goes, so a `Resolve` between the two puts the invalidated result back
  into memory, where it stays until it expires or is invalidated again; and a call that
  had its result before may store it afterwards. The code has no guard against either;
  without `alone` TLC finds these behaviours. Later calls may overlap as they like: they
  can only put back what was signed since. The mutant is an Invalidate that forgets the
  memory entry.
- `RetryRenewed`: whatever others leave in the caches meanwhile, the link that
  `retryMediaFetch` fetches was signed after the first fetch had failed. It has no
  premise on overlapping calls, because `Refresh` asks the provider instead of reading
  the caches: a `Resolve` in its place (the mutant) gets the dead link again, from a row
  whose delete failed or from a memory entry that another call filled in between.
- `LinkLives`: a cached link still works when `streamResolve` answers. It needs the
  margin: the entry's age is prolonged by hits and the test is made before the table
  is read. Without the margin (the mutant) it fails.
- `OneUpstream`: while a leader is at the upstream nobody else is in the call for that
  key and the buffer does not have it. It is the second look inside singleflight that
  makes it true. Requests for what cannot be buffered are not covered: they all go.
- `FollowersLed`: a request that waits in singleflight has a leader under way for its
  key. It is the safety half of `RequestsReturn`, and the half that can be proved.
- `RepliesFit`: the route implements `MediaSource`. A reply is an error, the range of
  the link asked for, or the same range of the preferred link of some answer for that
  episode. The last is what `retryMediaFetch` sends, also when the refreshed episode
  is another file: the client then continues with the same range of another encoding.
- `SavesInOrder`: as long as saves and deletes of a key have not overlapped since a
  delete that met none, the table is what a map would be. Overlapping ones leave two
  rows, an older position, or a row that was deleted.
- `ServedWhole`: a detail is always normalized, and one that is asked for after the
  provider has recovered and the older calls have ended has its own cover, its
  release dates and a recommendation cover that is not MyAnimeList's.
- `ObjectsFinal`: an object that is stored stays as it is until it is purged, although
  every prewarm of the episode puts it again. It needs one configuration for all
  processes, as `ServedBytesRight` does.
- `SelectionRight`, `ContinueRight`, `EpisodesFound` compare the pure operators with
  what they are for: `EveryPageServed`, `EveryListCompleted` and `EverySiteWalked` for
  all inputs in a constant set, whenever a call is about to use the operators. They
  depend on no other state. TLC takes every input of a small size, the proofs any set
  of inputs.

Bounds. One file is 4 bytes long with a head of 2 and a tail of 1 (or 1 and 1): it
has bytes in the head, in the tail and in neither, and each boundary is met by a
header. The other is 2 bytes: behind a head of 2 there is no tail to ask for, but the
capped server of `startup_local` sends a head of 1, and then the second byte is fetched
as a tail. Two workers are enough for every race between two prewarms of an
episode, since a race is about one key; rows, files and objects of different
episodes do not interact. Two tasks over two episodes give a task that replaces
another's window, prewarms into a window that has moved, and prunes with an old
view. The proofs remove these bounds, and `Limit`, for the safety properties of both
caches; `predictive` lets an episode resolve to one URL only.

`stream`: a player, a resolver and a refreshing task are the three kinds of caller,
and the hazards of the stream service are between two calls for one episode. Links
live 2 or 5 ticks, entries at most 2, with a margin of 1 and `MaxTime = 2`: short links
expire in memory and in the table while calls are under way, long ones stay usable
after a renewal, and the end of a link tells when it was signed. `MaxBuffered = 1`
leaves the buffer to `media`. The pages have up to three links, with the container
named in the quality, in the link, in both or in neither. `media` stops the clock
(`MaxTime = 0`, a link of life 3 never expires, failures remain) and has two players
that ask for equal ranges, different ranges and one too open to coalesce. `Task`
bounds the goroutines of `refreshStreamAsync`. Its `MaxBuffered = 2` is the length of
the ranges asked for.

`library`: two workers, one token, one catalog and one episode, two UUIDs. A race is
about one key or one id; two workers give each. `MaxRow = 2` allows the second row of
a create race. The rate limit of 2 and two minutes bound the number of requests to
four, five with those refused; the counter stops one above the limit, which is as
good as any larger one. A restart takes the process to the next minute. Workers and
UUIDs are interchangeable (`Alike`).

`catalog`: `MaxCalls = 3` calls by two callers, two ids one of which recommends the
other, one page of each kind (memory only, memory only and raw, with a table).
Partial answers have a MyAnimeList cover and some of the dates; the recommended
detail has no episodes at all. With three calls an
older call can overlap the recovery and a later one, and a repaired detail can be
overwritten between them. `EpisodesFound` takes every link structure over three pages
and every set of pages that answer, with limits below and above the number of pages.

Fairness. `LiveSpec` gives each goroutine weak fairness of its own steps and
nothing more: a goroutine that can go on does. Upstream requests carry a deadline
(`withOptionalTimeout`, 45 s for a predictive task), so they return with a body or
an error; database and object-store calls are assumed to return. Requests, crashes,
purges and redeployments are never forced. `DemandSpec`, for `startup_rebuild`,
adds that players go on asking, and that the manual prewarm command is not run
again once it has stored a row: the statement under test is about demand.
`MediaRoute`'s `LiveSpec` gives every player, resolver and task weak fairness of its
steps. The upstream, the database and the provider answer or run into a timeout, Go
runs every goroutine, and singleflight wakes its followers with its leader; arriving
requests, ticks, expiry and restarts are not forced.

### What the violations say

- **Short local file** (`tiered.go:27`, `:49`). The local copy is written
  non-atomically, its error is dropped, and any readable file is taken for the blob.
  A failed or unfinished write makes `TryServeRange` slice past the blob although
  the object is intact.
- **No rebuilding** (`public_handlers.go:213`). The server never prewarms the startup
  cache; only the command does. The README promises rebuilding on demand.
- **Resized tail** (`service.go:199`). Blob keys do not name a size or an offset and
  the blob is replaced before the row. Between the two, or after a crash between
  them, wrong bytes are served.
- **Active entry pruned** (`predictive_startup_cache.go:212`). The windows are read
  under the lock and used after it.

## 4. Proofs

### Startup cache

Theorems `CacheRight`, `TypeCorrect`, `RowsAreBacked`, `RestoreSucceeds`, `HitsAreRight`
and `ObjectsStay` state `Spec => []P`, or an action property, for any workers, readers,
episodes, URLs, file lengths and headers, under two assumptions that the code needs:

- `UniformConfig`: all prewarm processes use one head and one tail size.
  `startup_resize` shows that `ServedBytesRight` fails without it.
- `TailsFit`: a server that caps its answers sends at least a whole tail. The code
  stores a shorter tail as if it ended at the file's last byte.

None of the properties is inductive. `ServedBytesRight` says something about a
reply; what makes it true is what the blob read before it contained, which depends
on who wrote that key. The invariant `IInv` is the statement behind it: under the
two assumptions the body a key is ever given is a function of the key, `Blob(k)`;
hence two writers of a key can only write the same bytes. `IInv` says that

- every local file is a prefix of `Blob(k)` and every object equals it
  (`StoresRight`), so a slice that fits inside a local file is right even when the
  file is half written;
- every row, and every entry a goroutine holds between reading a row and using it,
  records the true sizes and is backed by objects if nobody purges (`Kept`);
- a worker between fetch and upsert holds the body of the key it puts, and has
  stored the head before it goes on.

A proof step is split by action; an action is the change of one goroutine (a
*move*) plus a change of one store, so each conjunct is proved for the goroutine
that moves and by a frame lemma for the others. Objects are never removed without
purging, which is what keeps entries backed while others write; with `StoresRight`
before and after a step that is `ObjectsFinal`.

### Predictive cache

`StaleEntryCovered` is the inductive strengthening of `NoStaleEntry`: an entry
outside every window has a running task that has not yet looked, or did not see it
as active, or has it on its list. The interesting steps are `UpdateWindow` (which
can make entries stale: the task itself will prune), `pruneInactive` and `Snapshot`
(what it did not see as active, it has on its list), and the upsert of a goroutine
whose window has gone (its own task is still before its pruning). Theorems
`TypeCorrect`, `StaleCovered`, `NothingOutlivesItsWindow` hold for any clients,
tasks, episodes and URLs.

### Identifiers and library

`LibraryProofs` proves `TypeCorrect`, `HandedIdsResolve`, `SavesKeepOrder`,
`RowsAreOwn`, `ContinueCompletes` and `AliasesImplementRegistry` for any workers,
tokens, ids, limits and bounds, from three assumptions: names of a kind tell internal
ids apart and are never UUIDs (`QualifiedAssumption`: a qualified id has a colon, a UUID
has none), positions and titles are typed (`MetaAssumption`), and the clock's bound is a
number.

The inductive invariant `Inv` adds to the types

- `AliasInv`: the unique indexes hold, and an id that is on its way to a client, or
  was sent, is the internal id or the public id of its row (`Leads`). Rows never go,
  so what leads somewhere once always does; uniqueness makes it lead nowhere else;
- `JobInv`: what a job knows at each step, for instance that a save has a resolved
  catalog and an existing client;
- `TableInv`, `FoundInv`: row ids are given once, and the id a save has found belongs
  to its key, in the table and for every other save that found it. Otherwise a save
  could overwrite another key's row;
- `SaveInv`: a key that is clean has at most one save under way, and that save has
  seen the row there is. `SavesInOrder` alone is not inductive: nothing in it ties the
  row a save holds to the row it will replace.

Steps fall into those that change one job and no table (one lemma), `UpsertFind`,
`UpsertSave`, `DeleteRows`, publication and restart. The refinement maps the alias
rows to `Bound`, the public id of each internal id; `BoundIs` says that it is a
function given uniqueness, `StepRegisters` that each step binds, hands, or stutters.

`RowsAreOwn` is about two clients where `library` has one, so it is proved and not
checked by a run: the rows of a client and catalog change only by a save or delete that
is for that client and catalog (`OwnRowsOnly`). gorm's `Save` writes by the id that was
found in an earlier statement, and when the row has gone it comes back under that id.
That is harmless because a sequence gives each id once; with ids that are used again it
would overwrite another client's row. It follows from `TableInv` and `FoundInv`: a save
replaces or inserts the row of an id that belongs to its own key, or one that the
sequence has not given before. `ContinueCompletes` needs no invariant: it is a statement
about `ContinueWatching` for every history, watchlist and set of details, proved from
the definitions.

### Stream service, fetcher and routes

`MediaRouteProofs` proves `TypeCorrect`, `UpstreamOnce`, `NoFollowerAlone`,
`RenewedForGood`, `RetriesRenewed`, `CachedLinksLive`, `NoProxiedLinkCached` and the
refinement `RouteImplementsSource`, for any players, resolvers, refreshes, episodes, ranges,
lives and times to live. The invariant has one part per component, and each component
is proved to keep its part before the composition is looked at:

- `StreamInv` (`StreamProofs`). What a cache holds for an episode is an answer the
  provider gave for that episode. A call that found a result tested it at `at`, and
  `at` is at most `Margin` ago; `MarginCovers` turns that into `LinkLives`. A memory
  entry may well outlive its links, since hits prolong it, so nothing about the
  entry's age is provable, and nothing is needed: the test is made on every hit.
  `RenewalLasts` is `MemFresh`, `RowFresh` and `CallsFresh`: the results on their way
  into a cache have to be known as well as those that have arrived. It is not inductive,
  for nothing in it says what the caches hold when `since` moves on. That is `AlonesOk`:
  while a call is alone nobody else has its episode in hand, so the memory is still empty
  when its delete goes through, and still has at most its own result when its upsert
  does (`RenewedKeeps`). A result that did not come from a cache was signed since its
  call began (`CallOk`), which makes `RetryRenewed` a matter of where a refresh can be.
- `FetchInv` (`MediaFetchProofs`). Every key in `flight` has a leader, only one, and
  everyone in the flight leads it or waits for that key (`FlightOk`, `JoinedOk`,
  `OneLeader`). `OneUpstream` alone is not inductive: it does not exclude a second
  leader that has yet to look at the buffer. What the buffer holds under a key answers
  the key (`BufOk`), and what a fetch has got is an error or answers it (`GotsOk`).
- `RouteInv`. A handler's fetch, and its call for a refreshed stream, are for the
  request it has, and that call never reads a cache; nothing is under way for a handler that is idle or has replied.

The refinement is proved along with the invariant: each step of a handler keeps `Inv`
and is a step of `MediaSource` or leaves request and reply alone (`Good`). `GotsOk` is
what makes a reply fit.

Assumptions: `ClockAssumption` (numbers; a positive time to live),
`EpisodeAssumption`, `FileAssumption` (the empty name is no allowed file, so a request
differs from no request), the typing of what players ask for, `PagesAssumption` (a page
is a list of links, none of which is a link of this server, with the time its signature
ends) and `OfferAssumption` (what a provider offers for an episode is what it makes of
such a page). That the links of an answer are upstream links with a time is then a
lemma about the selection (`AnswersUpstream`).

`PagesWellServed` (`StreamProofs`) proves `SelectionRight` for pages of any length (with
a stable sort, which `sort.Slice` is up to 12 elements). Sorting, keeping and
deduplicating are defined without recursion: the i-th element of a list made of a set is
the one with i - 1 elements before it, so `InOrderIs` (`OrderProofs`) is a counting
argument: no two elements have the same number before them, hence each number below the
size of the set belongs to one. Each operation is then described by the index function
behind it (`Keeps`, `Sorts`, `DedupeIs`), and `RankedServed` puts them together: sorting
by priority puts a direct link before any other of the same key, so the first of each
key is direct if one is; the filters keep all of these.

### Catalog service

`CatalogProofs` proves `TypeCorrect`, `DetailsServedWhole` and `WalkMissesNothing` for
any callers, ids, pages, details, sites and number of calls. The difficulty is the
sharing: a call writes the cover of a recommendation into an object that other calls,
and the cache, refer to. The invariant says

- `HeapOk`, `MemOk`, `RowOk`: what a cached or held detail refers to exists, and is the
  shared part of a detail of that id: it has a recommendation exactly if the id does;
- `CallOk`: what a call holds at each step, the related detail included, and that it is
  normalized from `normalizeDetail` on, though not before;
- `LateOk`: what a late call has after each repair. The provider does not fail it, so
  it never searches, its cover is its own after the first repair, its dates are all
  there after the second, and the recommendation is right after the third;
- `AllLate`: beside a late call there are late calls only. This is what `LateOk` needs to
  survive the steps of others: the one step that changes a recommendation's cover is
  `WriteCover`, and a late writer writes an own cover.

A step of a call *carries* the objects that are still referred to: no recommendation
comes or goes and nothing normalized becomes raw again (`Carried`); for a late call own
covers stay too (`OwnStay`). Each action is one lemma that shows what it does to the
heap and to its own call; `CallCarried` does the rest. The collector's steps need that
the objects are finitely many, so that `New` exists.

Assumptions: the details have their types, `Rec` maps ids to ids or `NoId`, and
`WholeAssumption`: on its good days the provider has an own cover, and dates for all the
episodes there are. It also excludes an id whose page lists episodes without dates on a
bad day and no episodes on a good one: `refreshEpisodeReleaseDates` does not replace
dates by an answer without episodes, so such a detail keeps its gaps for ever and
`ServedWhole` does not hold of it. The proof asked for that clause.

`WalkMissesNothing` proves `EpisodesFound` for any sites of finitely many pages and any
limits (`SitesAssumption`). `Walk` is a recursive function; that it is defined
(`WalkSteps`) and that every visit keeps `WalkOk` (`WalkRight`) are shown by the least
number of visits for which it would be wrong, since the provers cannot use an induction
theorem. `WalkOk` says that pages are queued once and only if they can be reached, that
what the visited pages link to is queued, and that what they list is known. At the end,
the queue is no longer than the number of pages that can be reached (`QueueBounded`); if
that is within the limit, every queued page was visited, so no link leads out of the
queue and the queue is everything that can be reached. The mutant queues pages twice and
spends its limit on them.

### Model-checked only

`CallsReturn`, `StaleEntryGoes` and `RequestsReturn` are liveness properties under
fairness, which the proof system does not handle. The four violated properties are
refuted by TLC; they have no theorem as they stand (`ServedBytesRight` has one under
`UniformConfig`, which `startup_resize` gives up). Every other property of the passing
runs is a theorem.

## 5. Not modelled

- Providers: the parsing of third-party pages, whose content a model cannot
  enumerate; the pool that adds release dates to episodes, whose workers each write
  an element of their own; the browser that renders a player page.
- Image proxy, configuration, logging, CORS and record types: no state of interest.
- The channel of `cmd/prewarm-startup`: its workers receive until it is closed, so
  the producer is never left waiting.
- In the modelled parts: creation of bucket and client, content types, an upstream
  that gives no length, read errors on local files that exist, request headers of the
  media proxy, which of several search results has the wanted title, the number of
  episodes `normalizeDetail` infers, the write counter, which no route uses.

Two lines of `.env.example` promise more than the code does; both are plain from the
code and have no run: line 41 calls `ANIME_CACHE_TTL` the "General metadata cache
TTL.", but catalog and discovery rows never expire (`GetCatalogCache`,
`GetDiscoveryCache`); line 53 speaks of "Public and write rate limits, in requests per
minute.", and the write counter is never incremented.

## 6. What could follow

1. The startup cache as an implementation of an abstract cache that either answers
   rightly or does not answer, with the refinement proved from `IInv`.
2. An episode that re-resolves to another URL in `PredictiveCache`, with the files it
   leaves behind.
3. Liveness by a measure that each step of a call decreases: the safety half of
   `CallsReturn` and `RequestsReturn` that a proof could state without `ENABLED`.
