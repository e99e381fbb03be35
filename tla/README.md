# Verification of tileserver-go

TLA+ modules for tileserver-go, a server of map tiles from MBTiles files: its
concurrent core, and the decisions it makes of requests and configuration. This
file says what is modelled, what TLC checks, what TLAPS proves, and what is left. `PROJECT.json` lists the runs, the mutants that show each property
can fail, the source lines of every definition, the hazards and the theorems.

## The system

A request passes the middleware chain (outermost first: security headers,
metrics and access log, host policy, the concurrency limiter, panic recovery,
base path, preflight) and reaches a handler. A tile or grid request looks in
the response cache; on a miss it enters a coalescing group, whose leader looks
again, loads the tile from SQLite under a timeout of its own, and adds it to
the cache, while other requests for the same key wait for it.

| Component | State | Operations | Hard behaviour | Correct when |
|---|---|---|---|---|
| `flight.Group` | map of calls under a mutex; per call a done channel and an outcome | `DoContext` | callers arriving in each window of a call's end, waiters whose context ends, panics of `fn` | one `fn` per key at a time, everyone released, nothing retained, nobody given another key's outcome |
| `cache.Cache` | 64 shards: map, LRU list, byte count, capacity; hit and miss counters | `Get`, `Peek`, `Add`, `Stats` | eviction at the limit, updates in place, refusals, a non-atomic `Stats` | exact accounting, LRU and minimal eviction, a lookup returns what was stored |
| tile and grid serving (`tiles.go`) | none of its own; uses the cache, the group and the stores | `serveTile`, `serveGrid`, `cachedResponse`, `loadTile`, `loadGrid` | check-then-act on the cache, the leader's client going, shared errors, negotiation after the load | a right tile, a true "not found", or an error with a cause of its own |
| limiter and recovery (`middleware.go`) | `limit`, a channel used as a semaphore | `concurrencyMiddleware`, `recoverMiddleware` | release on every path | slots taken = requests being served |
| addresses (`tiles.go`, `wmts.go`, `store.go`, `cache.go`) | none | `validXYZ`, `tmsRow`, `NewTileKey`, `NewGridKey`, `serveWMTS` and its limits | packing into a byte and a word, rows counted from the other end, rounding at tile borders | one key and one row per tile; limits cover exactly the tiles that meet the bounds; the two endpoints agree |
| negotiation (`tiles.go`) | none | `parseEncodingPreferences`, `prefersGzip`, `accepts`, `loadTile`, `loadGrid` | the variant is chosen before the load and accepted after it; a shared cache in between | nobody is given an encoding it refused, nobody is refused one it accepts |
| rest of the chain, `metrics.go` | atomic counters | `observabilityMiddleware`, `record`, `serveMetrics` | a scrape between two counters, responses never written, panics half way | what is recorded is what was sent; tile counters agree |
| `policy.go` | host and origin sets, immutable | CORS, preflight and host decisions per request | responses kept by a shared cache for another origin | pages read exactly what the configuration lets them |
| `metadata_cache.go`, `documents.go` | LRU of 8 metadata bundles under a mutex | `get`, the document handlers | building under the lock, failing builds, one client's bundle for another | the base URLs used last are kept; every link is served |
| `mbtiles.Store` | `sql.DB` pool, prepared statements, metadata | `Open`, `Tile`, `Grid`, `Close` | partial failure of `Open`, two queries in `Grid` on a small pool, use after `Close` | no connection or store leaks, no wait for a second connection while holding one |
| `server.New`, `Close` | open stores, `closeOnce` | opening in order, closing | failure of a later source | what was opened is closed, once |
| `cmd/tileserver` | process lifecycle | `run` | signal, serve error, shutdown timeout, deferred close | stores close after the handlers, unless the timeout expired |
| `config` | configuration | `Load`, `Normalize`, `Validate` | defaults filled in before a check or after it, odd paths | an accepted configuration works |

Components interact by calls; what they share between goroutines is the cache,
the group's map, the limiter's channel, the counters, the metadata cache and the
SQLite pools.

## Modules

| Module | Models | Used by |
|---|---|---|
| `Flight` | `internal/flight/flight.go` | instantiated in `TileServing` |
| `FlightProofs` | theorems about `Flight` | instantiated in `TileServingProofs` |
| `CachePromise` | what the server may assume of the cache (abstract) | `LruCache` implements it, `TileServing` is built on it |
| `LruCache` | `internal/cache/cache.go` | extended by `LruUses` |
| `LruUses` | `LruCache` with the history of uses, by which its evictions are judged | |
| `LruCacheProofs` | theorems about both | |
| `TilePromise` | what the server promises a client (abstract) | `TileServing` implements it |
| `TileServing` | limiter, recovery, `serveTile`/`serveGrid`, `cachedResponse` on top of `Flight` and `CachePromise` | |
| `TileServingProofs` | theorems about `TileServing` | |
| `Lifecycle` | `run` of `cmd/tileserver`, `server.New` and `Close`, `mbtiles.Open` and `Close` | |
| `LifecycleProofs` | theorems about `Lifecycle` and about `StorePool` | |
| `StorePool` | the connections of a store: the queries of `Open`, `Tile` and `Grid` in `internal/mbtiles/store.go` | |
| `RequestMetrics` | `internal/server/metrics.go`, `observabilityMiddleware` and every place that counts | |
| `RequestMetricsProofs` | theorems about `RequestMetrics` | |
| `TileAddresses` | `validXYZ`, `tmsRow`, cache keys, WMTS limits (operators) | extended by `TileRequests` |
| `TileRequests` | the checks of `serveTile`, `serveGrid` and `serveWMTS` | |
| `TileRequestsProofs` | theorems about both | |
| `Negotiation` | Accept-Encoding and the conversions of a load (operators) | extended by `Responses` |
| `RequestPolicy` | CORS settings, preflight and host decisions (operators) | extended by `Responses` and `Documents` |
| `Responses` | `Negotiation` and `RequestPolicy` composed into responses, with a shared cache | |
| `ResponsesProofs` | theorems about `Responses` and its operators | |
| `Documents` | paths and URLs of `config`, the routes, the links of documents (operators) | extended by `MetadataCache` |
| `MetadataCache` | `metadata_cache.go` and the requests for documents | |
| `MetadataCacheProofs` | theorems about both | |
| `MC...` | instances for TLC, one per module with a specification | |

A definition whose comment begins with "Variant" is not part of the model: it is
a plausible fault of the definition that follows, and `PROJECT.json` names the
property that notices it.

### Flight

`calls` is `Group.calls`, `call` the heap of call objects (`done` the closed
channel, `outcome` the pair of value and error), `ref` the variable `existing` or
`c` of a caller, `recovered` the leader's variable. `stage` is a program counter
with one value per region between two synchronisation points:

| Action | Code |
|---|---|
| `Share`, `Lead` | the section under `g.mu` (22-38): join the registered call, or register a new one |
| `Join`, `Abandon` | the two cases of the select (28-34); when both channels are ready both are enabled, as Go picks either |
| `FnReturns`, `FnPanics` | the end of `fn` with the assignment of the outcome (43-46, 52) |
| `CloseDone`, `DeleteCall`, `Return` | 47; 48-50; 54-57, where `Return` panics again if a panic was recovered |
| `Prepare`, `ContextEnds` | the caller's side: a new key and context; the context ends (external) |

Object identity matters, since a waiter may still hold a finished call while the
next one for its key is registered. `Lead` allocates any object nobody refers to,
which is what a garbage collector permits.

### LruCache and CachePromise

A lookup and an `Add` hold the shard's mutex throughout, so each is one action,
and `Add` includes its eviction loop: `Survivors` is the part of the list at
which the loop stops, computed from the byte count `used` that the code keeps and
not from the entries, so that a wrong count has its effect. `Count` is the bump of
`hits` or `misses` after the unlock. `Stats` is one action per shard. `hashKey` is
any function `ShardOf`; sizes are any function `SizeOf`.

`CachePromise` says: `Add` stores the value under its key and may forget other
keys, or changes nothing at all. `LruCache` is checked and proved to implement it;
the mapping forgets lists, sizes and counts.

`LruUses` adds to each step the history variable `newer`, the pairs of keys of which
the first was used after the second, so that an eviction is judged by the uses and
not by the list that is meant to record them.

### TileServing and TilePromise

`at` is a request's place in the server, `stage` (Flight's) its place in
`DoContext`; `slots` is `len(limit)`; `cache` is the state of `CachePromise`. Keys
stand for source, tile and encoding variant; `Tile[k]` is what loading `k` yields
while the file is unchanged, `NotFound` for a tile the source lacks. `Faulty` are
the keys whose load can fail, time out or panic.

| Action | Code |
|---|---|
| `Accept`, `TurnAway`, `Release` | `concurrencyMiddleware`: the non-blocking send, the 503, the deferred receive |
| `Hit`, `Miss` | the first lookup of `cachedResponse` |
| `Call` | the call of `DoContext` |
| `PeekHit`, `PeekMiss`, `LoadSucceeds`, `LoadFails`, `LoadPanics` | the function given to it: second lookup, load under the detached context, `Add` |
| `Publish`, `ComeBack` | the end of `DoContext`, for a leader and for a waiter |
| `Settle` | `serveTile`/`serveGrid` after the call: deliver, report, drop if the client has gone; or `recoverMiddleware` |
| `Disconnect` | the client goes while its request is pending (net/http) |

`TilePromise` is the client's view: a request ends with its tile, "not
acceptable" for a tile that exists, "not found" for one that does not, a failure
if loads of that key can fail, "busy" on arrival, or nothing if its own client
left. Whether a client accepts the encoding of the tile it gets is a choice.

### Lifecycle

`phase` is where `run` is: `starting` in `server.New`, `listening` before
`net.Listen`, `serving` at the select, `draining` in `Shutdown`, `awaiting` at the
last receive from `serveError`, `closing` in `Server.Close` (called by `New` when it
fails and by `run`'s defer otherwise), `exited`. `registered` is `Server.sources`,
`handles` the stores whose `sql.DB` takes queries, `serve` the goroutine of `Serve`
with the content of `serveError`, `result` what `run` returns.

| Action | Code |
|---|---|
| `OpenHandle`, `Register`, `OpenFails` | `mbtiles.Open` and the loop of `New` (server.go 69-81): a failure at any step releases the handle and closes what is registered |
| `EncodeFails`, `Started` | the documents encoded by `New` (82-98) |
| `ListenFails`, `Listen` | main.go 103-121 |
| `TakeServeError`, `TakeSignal` | the select (122-130); either, when both are ready |
| `Drained`, `DrainFails`, `Await` | `Shutdown` returns nil, or an error after which `Close` is called (131-136); the last receive (137-140) |
| `CloseStore`, `Exit` | `Server.Close` in any order, the end with whatever handlers are left |
| `Arrive`, `Read`, `ReadEnds`, `Answer` | handlers, which may query their store any number of times, also while it is being closed |
| `ServeFails`, `ServeStops`, `Signal` | net/http and the operating system (external) |

http.Server is modelled by its documented contract: `Shutdown` returns nil when no
connection is active, does not interrupt handlers, and `Serve` returns
ErrServerClosed once it has begun. What `Serve` leaves behind when it fails matters:
connections kept alive bring requests until the process ends, and their stores
close under them. The model allows that, and the property says that `run` then
returns an error.

### StorePool

`limit` is what `SetMaxOpenConns` was given, `held` how many connections each
caller has in hand, `query` and `mode` where it is: waiting for a connection,
reading its row or rows, or leaving them with the `Close` deferred. `prepared` are
the store's statements. database/sql is modelled by its contract: a query takes a
connection or waits, and keeps it until its row is scanned, its statement is
prepared or its rows are read to the end or closed.

| Action | Code |
|---|---|
| `Connect` | the start of a query: ping, metadata, zoom range, the three `Prepare` with their table look-ups, `Tile`, `Grid`, grid data |
| `QueryEnds` | the query's end, and the next one or the end of the call (`AfterOpenQuery`, `AfterGrid`) |
| `QueryFails`, `BadRow`, `CloseRows` | a query that fails; a return from the middle of a loop over rows, and its deferred `Close` |
| `GiveUp` | the context ends while the query waits for a connection |
| `Lookup` | `Tile` or `Grid` on a store that has the statement |

### RequestMetrics

`count` are the atomic counters, the cache's hits and misses included. `observed` is
`observedWriter.status`, `sent` what net/http has sent, `answered` how many clients
were sent each class, `scraped` what a scrape has read so far. `stage` is a
request's place. Each action touches one counter at most, so a scrape can fall
between any two.

| Action | Code |
|---|---|
| `Arrive`, `Enter`, `Record`, `Leave` | `observabilityMiddleware` (200-214) with `record` and the deferred decrement |
| `CountTile`, `Refuse`, `NotFound`, `Serve` | the counting of `serveTile`, `serveGrid`, `serveWMTSTile` |
| `Hit`, `Miss`, `Loaded`, `Shared`, `FailOrDrop` | `cachedResponse`, and `serveTile` after it |
| `ScrapeNext`, `Report` | `serveMetrics`, one counter at a time in `ScrapeOrder` |
| `Header`, `Body`, `Panic`, `Recover` | `WriteHeader`, `Write`, a panic at any of these points, `recoverMiddleware` |
| `Other` | every handler that counts nothing |

The code counts a failed request as one database error, however many queries failed
in it, and `TileCountersAgree` is about that: errors counted are compared with requests
answered by an error, not with errors the database had. A request
dropped because its client has gone writes no header; net/http would send 200, and
`sent` says so by definition. Of such a request `RecordedIsSent` shows only that the
same default is filled in before the status is recorded.

### TileAddresses and TileRequests

`TileAddresses` holds the arithmetic, with the widths of the code as constants:
`Word` is 2^32 and `MaxZoom` 30 in the program, and the theorems are for any values
for which `2^z` fits. Keys are packed as the code packs them, modulo 256 and modulo
`Word`. Bounds are fractions of the world of denominator `Unit`, after projection,
with latitudes beyond the Mercator limit outside 0..`Unit`; the curve of the
projection and the rounding of floating-point numbers are left out.

`TileRequests` asks a layer one question at a time: `AskAddress` is `serveTile` and
`serveGrid` up to the look-up, `AskQuery` and `AskCapabilities` are `serveWMTS`, whose
fifteen checks are the sequence `Checks`, in the code's order and with its exceptions.

### Negotiation, RequestPolicy and Responses

`Negotiation` is `parseEncodingPreferences`, `acceptsGzip`, `acceptsIdentity`,
`prefersGzip`, and `loadTile` and `loadGrid` by the encoding they return for a file
whose data are plain, gzip or begin like gzip and are broken; a grid with data of its
own is merged with them, for which its document must be a JSON object. `RequestPolicy` is the
CORS part of `Validate`, `securityMiddleware`, `preflightMiddleware`, `hostPolicy` and
`requestHost`. `Responses` composes them: `Fetch` is a request that reaches the
server, `Reuse` one that a shared cache answers with a stored public response whose
`Vary` headers agree (external). The properties state what HTTP and the browser make
of a header and of CORS, not what the code makes of them.

### Documents and MetadataCache

`Documents` is `Normalize` on `base_path` and `public_url`, `basePathMiddleware` with
the routes of `Handler` (`Served`), `externalBaseURL`, and the links
`buildMetadataBundle` writes. Paths are sequences of segments, segments sequences of
the parts between dots, so that empty segments, `.`, `..` and identifiers that end
in `.json` are what they are. A path to a tile must end in an extension that its
source takes (`TileRoute`, `ExtensionsOf`); the case of letters and the numbers are left
out here, and a tile format is one part whatever it contains.

| Action | Code |
|---|---|
| `Ask` | `hostMiddleware`, the route and the look-up of the source: 421, 404, or on to `get` |
| `Hit` | `get` with the entry in the map: move to the front, serve |
| `Miss`, `Built`, `BuildFails` | the build under the mutex (74-93), its insertion and the eviction; an error, which is not kept |
| `Leave` | the response is sent |

`lastUsed` is a history variable: the base URLs in the order of their use, from
which the cache's content is judged. A path that would name a source, `/data/json`
among them, is answered 404 if there is no such source (`Exists`).

## Runs

| Run | Instance | Shows |
|---|---|---|
| `flight` | 3 callers, 2 keys, 3 call objects, symmetry | type, coalescing, nothing retained, waiters have a leader, answers are for the key, panics reach the leader only |
| `flight_live` | 2 callers, 2 keys | every `DoContext` returns |
| `lru` | 3 keys in one shard and 1 in another, capacity 3, sizes 1, 2 and 4, one counted lookup | exact accounting, list and map, bounded `Stats`, minimal and least-recent eviction, `CachePromise` |
| `serving` | 3 requests, 2 slots, 2 keys (one faulty, one without a tile), symmetry | no redundant load, no error cached, failures have their own cause, slots exact, `TilePromise` |
| `serving_live` | 2 requests, 1 faulty key | every accepted request ends |
| `lifecycle` | 3 sources, 3 requests, symmetry | handlers have their stores unless `run` fails, a clean end has served all, nothing is left open, errors of `Serve` are reported |
| `lifecycle_live` | 2 sources, 2 requests | after a signal the process ends |
| `pool` | `Open` and 3 readers, pools set to 0, 1 and 2 | nobody holds a connection and waits for another, no path keeps one, a connection taken comes back and `Open` ends without a timeout |
| `metrics` | 2 requests at a time, 3 in all, symmetry | recorded = sent at rest, tile counters agree, a scrape shows no look-up that was not asked for |
| `addresses` | zooms 0 to 3, words of 8, layers of zooms 1 to 2 with 63 bounds, every number from -1 to 4 or missing or wrong | keys and rows are distinct, limits are the tiles that meet the bounds, both endpoints and the capabilities agree |
| `responses` | headers of up to 2 entries, 11 files, 4 sets of origins, 2 origins and none | acceptable encodings, pages read what they may, credentials work |
| `documents` | 2 requests, 2 entries, 17 questions, hosts and base paths as an operator may write them, symmetry | the cache keeps the last used, every link is served, of a tile with its extension |

Why the bounds are enough to meet the hard cases: with three callers a leader, a
waiter on its call and a late-comer meet, while two keys let an object pass from
one key to another; one call object per caller is as many as can be reachable. In
`lru` three small entries fill a shard exactly, a large one evicts one or two
entries, a huge one is refused, and two shards make `Stats` non-atomic; `MaxCount`
bounds the counted lookups and nothing else depends on it. In `serving` two slots
for three requests make a leader and a waiter while a third is turned away or
takes over a slot. In `lifecycle` one source fails to open after another and before a third, and two
handlers read different stores while they are being closed. Requests come again for
ever; outside of `metrics` no counter bounds a behaviour.

In `pool` four callers compete for one connection, and one of them may be in the
middle of rows. In `metrics` (`MaxRequests`) a scrape races with two tile requests one
after the other, and two tile requests with each other; the theorems cover any
number at once. In `addresses` a word of 8 holds the 8 columns of zoom 3 exactly, as
2^32 holds those of zoom 30 with room to spare, and 12ths of the world lie on the
borders of tiles at zooms 0 to 2 and off them at zoom 3. Two entries of a header
are enough for each pair of codings that bear on each other, and for "*" against
one of them. A metadata cache of 2 evicts at the third of its base URLs, which the
hosts, the forwarded hosts and the schemes of `MCQuestions` provide.

Fairness. `Flight` and `TileServing` assume that a goroutine able to take a step
takes it, and that a load ends. The former is Go's scheduler; the latter is the
timeout of `cachedResponse` (149), under which database/sql gives a query up. No
fairness is assumed of clients: they may never come, and never go. Liveness runs
use no symmetry.

`Lifecycle` assumes in addition that the shutdown timer fires, and, of `Close`,
only that it goes on once the queries under way on the stores closed so far are
over: closing a statement can wait for them, new ones do not overtake it. It
assumes nothing of handlers outside a query.

`StorePool` assumes that SQLite answers or fails, that a deferred `Close` runs, and
that a connection that stays free is given to a caller that waits. It assumes of no context that it ends:
`Open` has one without a deadline, so a wait that only a timeout could end would
show. The other modules state no liveness.

Deadlock is checked in all runs but two, whose systems may really stop: `pool`
(`Open` may fail, and nothing reads a store that did not open) and `metrics`
(no request comes after the last).

## Proofs

Every safety property a run checks is the conclusion of a theorem, for all values
of the constants that the module's assumption admits. Eight modules hold the
proofs. In `FlightProofs` (any callers, keys, call objects) and `TileServingProofs`
(any finite set of requests, any keys, any number of slots) the assumptions are
`FlightAssumption` and `TileServingAssumption`: the marks that stand for nil, for the
absent entry and for statuses are no values, and requests are finitely many, which
the count of slots needs.

*Flight.* `OneFlightPerKey` is not inductive. The invariant `IInv` adds: a caller
holds a call exactly while in `DoContext`; the map's entry for a registered
leader's key is its own call (so the delete by key removes no other); a call has
one leader; those waiting for a leader's call want the leader's key; and the
outcome is set, and matches `recovered`, from the end of `fn` on, while `done` is
set by the time the call leaves the map and not before. One lemma per action
shows it preserved. Type correctness, coalescing, "no result is retained", "a
waiter's call is closed or has a leader that will close it", "answers are for the
key" and the action property on panics follow.

*TileServing.* `StepIsFlightStep` shows that each server step is a step of
Flight or leaves it alone (that the leader returns what `fn` of its key may return
rests on the cache holding the truth), so Flight's invariant carries over with
its theorem. On top of it `SInv` adds the agreement of the two program counters,
that a client is pending exactly until it is settled, that a settled answer is
no context error unless that context ended, and the three properties on loads,
cache and failures. `SlotsStep` counts with the theorems on finite sets.
`Refinement` maps each step to one of `TilePromise` or to a stutter, with
`gone` mapped to "pending and its context ended".

*Lifecycle* (any number of sources, any requests; `LifecycleAssumption`: at least
one source, without which `New` returns before the first state). The invariant
ties each phase to what holds in it: handles not registered belong to the source
being opened (so the failure paths release everything), all stores are there from
`Listen` to the first `CloseStore`, requests exist only while serving or draining or
after an error is decided, and an error of `Serve` once decided stays one. One
lemma per group of actions; the four safety properties of the run follow.

*StorePool* (any pool, any finite set of readers; `StorePoolAssumption`). Its
theorems are in `LifecycleProofs`, which extends both modules. The invariant: a caller has one connection exactly while it reads or leaves its rows and
none otherwise, `used` counts those callers, and never passes `limit`, which is at
least 1. `NoHoldAndWait` and `NothingLeaked` follow.

*RequestMetrics* (any finite set of requests; `RequestMetricsAssumption`). The three
properties say what holds at rest or of sums, and none is inductive: what is under
way has to be counted too. `IInv` adds to each relation between counters the number
of requests in the stages between the two increments: hits and misses and those
`counted` are at most the tile requests; requests are answers plus those present;
a class counter is its answers plus those recorded and not gone; an error counter
is at most the answers plus those that are about to be answered by an error, `Final`
being the status a request will have unless something else panics. `OneMember` says
that moving one request changes such a number by one, `Moved` that a step does, and
each part has a frame lemma for the steps that leave it alone. `ScrapeInv` says that
what a scrape has read of hits and misses is at most what they are now.

*LruCache* (any keys, any shards and assignment of keys to them, any positive sizes
and capacity; `LruAssumption`). The invariant is `TypeOK`, `ShardsOK` (in each shard
the list is injective, its members are the keys of the map, `used` is their size and
within the capacity) and `ScanAdds` (what `Stats` has read of the shards it has
passed). Sizes are summed without induction: a set of entries is the set of pairs of
a key and an offset below its size, so that its bytes are a cardinality and adding or
removing an entry is arithmetic on cardinalities. That the eviction loop stops, and
where, is the existence of a longest list that fits, from the well-foundedness of
strict inclusion. What an insertion evicts is judged by the entry used last of
those that go (`Goes`): it would not have fitted beside those that stay. `OrderStays`
shows that moving or adding the new entry at the front leaves the others in their
order, so that this entry is the one right behind the longest list that fits. `HInv` adds `RecencyOK`: the order of each list is the order of the
last uses. Minimal and least-recent eviction follow as action properties, and
`KeepsPromise` maps every step to one of `CachePromise`.

*TileRequests* (any layers, addresses and queries). `TileAddressesAssumption` says of
powers of two that they fit the word and that each is twice the one before,
`TileRequestsAssumption` that layers are as `loadMetadata` and `parseNumbers4` leave
them (`IsLayer`, store.go 306-312 and 358-375). `RowFlip`, `PackingIsInjective` and `LimitsAreTiles` are
about the operators; `LimitsMeetBounds` says that a tile is within the limits
exactly if it meets the bounds, with floor and ceiling replaced by the inequalities
between products that define them, and `LimitsOfNextZoom` that the limits of a zoom
are those of the next one halved. `OnlyValidIsServed` is the invariant that whatever
either endpoint looks up is a valid address, `KeysAndRowsAreDistinct` follows.
`ExactWmts` needs in addition that the answer kept is the one that what was asked
determines (`AnswersAreKept`), and that an exception is that of the first check that
fails.

*Responses* (any configurations, files and requests, headers of any length;
`ResponsesAssumption`). The invariant `RInv`: what is stored is public and the server's
response to the request it is stored for, and what a client has is the server's
response to its own request or to one that agrees with it in the headers the
response varies by. The three properties then are about `Respond` alone, and about
what `Vary` leaves the same. `EncodingsAreAcceptable` is stated, and proved, for headers
that name no coding twice: of two qualities for one coding HTTP does not say
which counts.

*MetadataCache* (any requests, sources, questions and size of the cache;
`MetadataCacheAssumption`, by which configurations are such as `Normalize` does not
refuse for their form: paths are lists, a public URL is absolute). `KeepsLast` makes
`KeepsTheLastUsed` inductive: the list is the beginning of the history `lastUsed`, which
names no base URL twice. `HitKeepsLast` and `BuiltKeepsLast` show it kept by the two
steps that move the list; the second needs that nobody else adds the base URL while
its bundle is built, which is `OneBuilds`, the mutex. `LinksLeadBack` adds that what is
waited for was granted and that what was answered is of the base URL of who asked;
the rest is about paths: every link written below a base path is routed to a handler
whose source exists and takes the extension (`LinksLead`, `ExtensionsLead`), a base path and what follows it part again
(`PathsJoin`), and what the proxy of a public URL cuts off is what `Normalize` put
before it (`EdgeIsCut`).

Model-checked only: liveness (`EveryCallReturns`, `EveryRequestEnds` and the like),
which needs fairness and ENABLED and is out of the prover's reach. The theorems speak
of the models: what the models leave out is below.

## Not modelled

- SQLite, database/sql, net/http and container/list are external: modelled by
  their contract, as far as the code relies on it.
- Floating point: the rounding of `float64`, and the curve of the projection.
- The redirect by which ServeMux answers a path that is not clean: such a path is
  absent in `Documents`, so that no link may rely on it.
- Bodies of responses: ETags, ranges and conditional requests, which
  `http.ServeContent` answers; JSON and XML beyond links and limits; the access log.
- Metadata parsers of `store.go` (bounds, centre, vector layers): data conversion.
  Sums of bytes and durations in the metrics; a scrape may show more responses than
  the requests it has read before, and nothing in the code says otherwise.
- Raster tiles do not negotiate: a client that refuses identity is answered 406 by
  the server but may be given a stored response by a shared cache. The property on
  encodings leaves that case out.
- `config.Load` and `parseFlags`: reading the file and the flags given over it,
  checks of single values, parsing of durations.
- `releasesmoke` is a sequential test tool, `exampleserver` a file server.
- Metrics are taken to be switched off in `TileServing`, and its requests are those
  for a tile of an open source within its zoom range; the former is what
  `RequestMetrics`, the latter what `TileRequests` adds.

## Plan

What is left, the most useful first:

1. `TileServing` joined to `Lifecycle`: after a shutdown that drained no load is
   left on the stores that are closed; after one whose timeout expired a load
   may fail, and what it leaves in the cache is still true.
2. `Stats` and the metrics together: a scrape also reads `cache.Stats`.
3. The flags given over the file in `parseFlags`, and the metadata parsers on small inputs.
