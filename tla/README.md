# A verification of the homepage server and its pages' scripts

The repository is a personal homepage: a static site (Hugo, with a theme of its
own) that is compiled into one Rust binary. The binary serves the site over
HTTP (behind a reverse proxy) and over Gemini (directly, with a certificate of
its own), and feeds live metrics to a dashboard over a WebSocket. This directory
holds TLA+ models of the parts of it that have state, what TLC checks of them on
small instances, and what TLAPS proves of them for every instance.

    tlc -workers 2 -config MCGeminiListener.cfg MCGeminiListener   # one run
    tlapm GeminiListenerProofs.tla                                 # one proof

`PROJECT.json` lists the runs, the lines of code every definition stands for, the
hazards of the code and the properties that cover them, a faulty variant for each
property (an operator whose comment begins with *Faulty*), and the theorems.

## 1. The system

Paths are relative to the root of the repository.

| Component | State it keeps | Operations | Speaks to |
|---|---|---|---|
| Gemini listener (`server/src/main.rs`) | a semaphore of 256 permits; a table of connections per address | accept, two caps, spawn, the drops of guard and permit | kernel, connection tasks |
| Gemini connection (`server/src/gemini.rs`) | buffer and position; TLS session | read with two timeouts, parse, look up, write, shut down | peer, routes |
| Certificate store (`server/src/acme.rs`, `main`) | `gemini.crt`, `gemini.key` | load or generate, write, build the TLS configuration | file system, systemd |
| Metrics (`server/src/metrics.rs`) | three counters, the base of the last snapshot under a lock, the histogram under another | record, increment, decrement, snapshot | router, feed |
| Latency histogram (`server/src/metrics.rs`) | a vector that becomes a ring, and its index | add a sample, percentile | metrics |
| Metrics feed (`server/src/websocket.rs`) | a semaphore of 64 permits; per session two intervals and the time of the last Pong | admit, upgrade, broadcast, ping, receive, end | metrics, browser |
| HTTP router (`server/src/router.rs`) | the routes of its binary; what it promised to caches that are elsewhere | look up, 304, negotiate, cache headers, 404 | browsers, metrics, feed |
| Asset generation (`server/build.rs`) | none (build time) | files to constants and to the routes of both servers | router, Gemini connection |
| Memory game (`themes/wizard/assets/js/memory-game.js`) | board, lock, turn, pairs, score; timers that are never cancelled | start, reset, flip, four timers | DOM |
| Dashboard (`themes/wizard/assets/js/metrics-dashboard.js`) | loading state of the chart library, charts, toggle, socket, reconnect timer | load, toggle, connect, update | feed, DOM |
| Theme toggle, pixel scale (`light_dark.js`, `pixel-scale.js`) | one attribute each, session storage | toggle, follow the system | DOM, dashboard |
| Site sources, scripts, deployment | files | offline conversion, copy and restart | systemd |

How they interact: `main` loads or generates the certificate, spawns the Gemini
listener, and awaits the HTTP server. The listener's loop is one task; it spawns
one task for every connection it admits, which owns the connection's permit and
guard. Every HTTP request is a task that moves the shared counters in three
separate steps; a request for `/__metrics__/ws` spawns a session, a task that owns
its permit, is counted in a gauge, and takes a snapshot of the shared counters
every second. tokio runs these tasks on several threads. The routes are part of the
binary: a deploy stops the server and starts another one with another site, while
browsers hold answers of the first. In the browser, the
scripts are handlers and timers that run one at a time, in an order that the
visitor and the clock decide.

What is hard in it, and which property speaks of it, is the list of hazards in
`PROJECT.json`. In short:

* **Interleaving.** Guards and permits are dropped by other threads while the
  loop stands between its two caps; snapshots read counters before the lock they
  use them under.
* **Conservation.** Slots and gauges are taken in one place and given back in
  another, over many early returns.
* **Waiting.** Handshake, request, broadcast and Ping have timeouts; the Gemini
  reply and the answer to a Ping have none.
* **Segmentation.** A request arrives cut in any way; the terminator and the size
  limit meet at the same byte.
* **Crashes.** The certificate is two files, each created before it is written,
  and any failure of the store ends the process, with systemd starting it again.
* **Deploys.** A page and the assets it names may come from different sites, and an
  answer may arrive after the server that gave it is gone.
* **Names.** Routes and identifiers are derived from file names by rules that map
  different files to one name.
* **Timers.** The game's timers outlive the game that set them.
* **Boundaries.** The end of the vector's growth, the wrap of the ring, ranks of
  few samples, counts that reach zero, the last byte of a buffer.

## 2. The models

Constants of the code are CONSTANTS of the models. `SlotPool` and `LatencyWindow`
are abstract specifications, `Site` is a module of operators, and the others follow
the code step by step.

| Module | Uses | Code |
|---|---|---|
| `SlotPool` | | abstract |
| `GeminiListener` | implements `SlotPool`, twice | `main.rs` |
| `GeminiConnection` | implements a task of `GeminiListener` | `gemini.rs` |
| `CertStore` | | `main.rs`, `acme.rs` |
| `LatencyWindow` | | abstract |
| `LatencyHistogram` | implements `LatencyWindow` | `metrics.rs` |
| `MetricsFeed` | implements `SlotPool` | `metrics.rs`, `router.rs`, `websocket.rs` |
| `WsSession` | | `websocket.rs` |
| `Site` | | `build.rs`, `router.rs`, `gemini.rs` |
| `Delivery` | extends `Site` | `build.rs`, `router.rs`, deploys, a browser |
| `MemoryGame` | | `memory-game.js` |

### GeminiListener (and SlotPool)

`pc` is where `start_gemini_server` stands; `stage[c]` how far a connection has
come: in the backlog, in the loop's hands before either check, then in its own
task (handshake, request, reply, closed, guard dropped). `permits` is the
semaphore, `per_ip` the hash map, a function on the addresses it holds. Every
`try_acquire` and every drop is an action, and actions of different connections
interleave freely. `RefusePerIp` contains the `or_insert(0)` that a refusal makes
and the drop of the permit that its `continue` makes. The guard is dropped before
the permit, because locals are dropped in reverse. `Stop` is the `?` behind `bind`
and `accept`: it ends the loop and leaves the tasks. Connections are reused, so
runs are of any length.

`SlotPool` says what a bounded pool is. The listener implements it twice: the
semaphore over all connections, and the table once per address. `ImplementsPools`
is both.

### GeminiConnection

One connection after its handshake. The peer sends its stream (from a set of
streams of ordinary bytes, CR and LF) in segments of any size, may pause, close,
or be cut off, and need not read. `Read` returns any number of bytes that have
arrived and fit (`AfterRead`): the terminator is looked for at the end of what is
read and nowhere else, and before the size. `Stalled` and `OutOfTime` are the two timeouts, inner and outer; tokio
polls the read before the timers, so neither fires when there is something to
read. Whether a complete request is invalid, names an asset or names nothing is a
choice of the initial state; `Site` has the lookup behind it. The reply is a header and a body in parts, which go
through the TLS session's buffer into the socket's; data is only passed on while
the handler writes or shuts down, so that a handler that returned too early would
leave some behind.

The module refines the connection's stages in `GeminiListener`
(`ImplementsListenerTask`): what the listener's model assumes of the task is what
the handler does.

### CertStore

The boot of the process up to serving, the Gemini listener it spawns, and the two
files. `config` is what the environment asks for: no Gemini, a pair for this boot
only, or one that is kept. `Listen` is the bind of the spawned task, which comes
after `main` has announced it; `ListenerEnds` is its failure, or a failed accept
later, which is logged and takes nothing from the HTTP side. A file is missing, torn
(created or truncated, not completely written), or holds its half of pair *n*.
The key and the certificate are each opened, then written. `Usable` is
`build_tls_config`: both complete and of one pair (rustls compares them). `Crash`
stops the process anywhere; an I/O error ends in the same panic. `HostFailure`
also loses what has not been written back, as nothing is synced (`fallback` is
what may be found instead). `Lose` removes one file. `losses` counts the failures
and removals that did change a file, so that properties can say "as long as
nothing is lost". The pair counts as served when the port is bound, not before.

### LatencyHistogram (and LatencyWindow)

`samples` and `write_idx` as in the code, with the two branches of `add_sample`,
and `percentile` with its sort, truncation and clamp. A sort is any order of the
samples (`Orders`) that makes them ascend, which is all `sort_unstable` promises.
`LatencyWindow` is the
promise: the most recent samples, in order. The refinement mapping reads the
vector from the slot that will be overwritten next.

### MetricsFeed

All of `Metrics` and its callers: a request enters, counts itself, adds its
sample, leaves; a viewer's handshake is answered by the three checks of
`handle_websocket` in their order (`Answer`), it takes a permit, is upgraded or not,
counted, takes snapshots, ends, drops its permit. A snapshot is five steps: the clock, the
total, the gauge, the lock, and what the lock protects. `clock` is
`Instant::now()`, which never gives the same reading twice here; `totalAt` is a
history variable, the total at every reading.

### WsSession

One session's `select!` loop, in ticks of the broadcast interval. Each branch that is
ready may be taken; while a send is awaited nothing else of the loop runs. A send
completes when the buffers have room for it. Intervals make up for missed ticks
(tokio's default). The peer is attentive, mute (keeps up, does not answer), slow (reads
when it likes, and answers or not), stalled (does not read), leaving or gone. It may
change from any of these to a worse one at any moment, and between slow and stalled as
often as it likes; only keeping up is not taken up again, as a slow peer may read as
soon as an attentive one does. `slowed` is a history variable: a peer that was not
keeping up has read something. Time passes only when the loop can do nothing but wait,
and a peer that keeps up has nothing to read that is `PeerLag` old; of a slow one it
asks nothing.

What is said of an attentive peer depends on how the intervals compare with the time
it takes. `SessionAssumption` and `AttentiveAssumption` state that, in place of the
values: a peer leaves messages unread for `PeerLag` ticks at most, less than a send
timeout and than the buffers hold; `PeerDelay`, the time that the answers to its own
Pings can cost the loop, fits twice between two Pings, with three lags; the deadline
leaves room for a Ping interval and `PeerDelay`. The code's 10, 30 and 60 s satisfy
them for a peer that lags a second and sends up to 13 Pings, for instance.
`BoundAssumption` says that the two counters which saturate, silence and overdue
intervals, do so beyond what can happen while the peer keeps up. Past that the model
does not tell how late an interval is, only that it is due.

### Site

What `build.rs` makes of the files below `public/`: the routes of a file for HTTP and
for Gemini, the identifiers of its constants, and the two tables. A path is a sequence
of segments, a segment a name and an extension; an empty segment at the end is the
slash of a directory. `sanitize_ident` is modelled by what it does to such a path: it
keeps the words and forgets what stood between them, so two files may share an
identifier, and what is generated then does not compile (`Compiles`). Two files may
also share a route: `Stripped` gives what is left of a `.gmi` file's name as a segment
of its own, so `style.css.gmi` has the Gemini route of `style.css`. Then the order
in which the file system lists them decides, so `Sites` is the set of the outcomes.
`HttpKey` and `GeminiKey` are the fallbacks of the two lookups, in their order;
`Encoding` is the negotiation.

### Delivery

A visitor who opens one page over and over, a browser with a cache, and a server that
is stopped and started with the same or another build. `Builds` is what can be
installed: any of the trees, read completely or with files skipped after a warning,
if the result compiles. `Reply` is `route` and `serve_asset`: look up, 404, 304 if
`If-None-Match` names the ETag, else the content in an encoding and with a max-age. A
request, its answer and the arrival of the answer are separate steps, with deploys
and the passing of time in between. The browser follows the rules for private caches:
an entry is used without a request while it is younger than the max-age it came with,
counted from the moment it was asked for; then it is revalidated; a 404 removes it; it
may be evicted at any time. The cache, its ages and the visitor are not in the
repository and stand for what the headers of `serve_asset` are addressed to.

`stale` is a history variable: how long ago each content was last to be had at each
path. `pageFrom` is another: how many stops there had been when the server last
answered for the page.

### MemoryGame

The script's own variables under their names, the cards with the class `flipped`
and those with a listener, the final score and the confetti on the page, and the
pending timers. A reset makes a new board and marks the timers of the games
before, of which none is cancelled; a stale reveal turns back cards that are off
the page, but unlocks the board that is on it; an unflip works on whatever cards
are selected when it fires and throws half way if there are none. `hurried` is a
history variable: the game was begun by a reset in the middle of a reveal.
`ResetTurn`, `ResetPairs` and `ResetBoard` are the parts of `resetGame`.

## 3. What TLC checks

| Run | Instance | What it shows |
|---|---|---|
| `gemini_listener` | 5 connections, 2 addresses, 3 permits, 2 per address | permits are conserved; the table is exact; refusals are justified; both pools are implemented; slots come back |
| `gemini_connection` | 9 streams, limit of 3 bytes, timeouts of 2 and 3 ticks, replies larger than the buffers | requests end in the right outcome however they are cut, in bounded time; replies go out whole; the listener's task is implemented |
| `cert_store` | 3 configurations, 3 pairs, 2 crashes, 2 losses | one certificate is served for good while nothing is lost; what is served is what is kept; a boot that can succeed does |
| `latency_histogram` | 5 slots, 3 durations | the ring is the window; percentiles have their rank |
| `metrics_feed` | 2 requests, 3 viewers, 2 permits, 3 requests counted, 4 clock readings | gauges are exact; viewers see themselves; rates count no request from before their time; the feed's pool is implemented |
| `ws_session` | a broadcast every tick, 2, 6, 12 ticks for 10, 30, 60 s; 2 messages of buffer, 1 Ping of the peer | attentive peers are kept; silence is bounded while peers keep up until they stop reading, and ends for every peer; stalled peers are dropped; the last three unless a Pong is being sent to them |
| `delivery` | 4 trees, a file that may be skipped, 3 paths, 2 stops, max-ages of 1 and 2 ticks | caches are honest; nothing is shown past its time; assets are missed only across deploys; directories are found; visitors catch up |
| `memory_game` | 2 pairs, 4 timers, 500 ms a tick | pairs are counted right; the board shows the turn; the board is always unlocked again |

Some of these properties are worth a word.

* `RefusedOnlyAtCap` is stronger than it looks: when the semaphore has no permit,
  none of them is with the loop itself (the loop has one connection at a time),
  so that every refusal at the global cap is due to 256 connections being served.
* `RateCountsSinceBase` compares what a snapshot reports with a history of the total:
  no request is counted that was recorded before the instant of the base. It needs both
  halves of the base to come from the same snapshot, and the clock to be read before the
  count. It bounds a rate from that side only. A snapshot may report too little
  (`metrics_feed_rate`), and too much: requests recorded between its own clock reading
  and its load of the total (`metrics.rs:102-103`) are counted, in a time that ended
  before them.
* `SilenceBounded` is about peers that keep up with the feed until they read nothing any
  more, if they do (`~slowed`). For a peer that reads on but later, each message within
  the send timeout, the code has no such bound. While it waits, broadcasts fall due;
  `select!` may take them, one by one and each at the pace of the peer, before it looks at
  the ping interval. Without `~slowed` the run finds the silence beyond the bound, with
  and without Pings of the peer. What is left for such a peer is `SilentEnds`: its
  session ends, whenever that is, as `select!` does not pass a branch over for ever.
* `CertImpliesKey` is what the order "key, then certificate" buys, beyond the
  permissions the comment mentions: a complete certificate is never alone.
* `OutcomeIsRight` speaks of requests of the right form, which have one terminator,
  at their end. A peer that sends more bytes behind it in the same segment is not
  covered on purpose: `AfterRead` looks at the end of what was read, so whether such
  a request is taken depends on how it is cut.
* `CacheIsHonest` is about the ETag: an answer of 304 can arrive long after it was
  given, for an entry that was cached under another build, and must still vouch for
  that entry. It holds because the ETag is a hash of the content, and because an entry
  counts its age from the question, not from the answer.
* `ShownIsRecent` compares the max-age that the *key* decides with the one that the
  *path* suggests. `MaxAge` looks at the key that was found, with `index.html` added or
  the slash removed, and still never gives a path more time than its own name stands for.
* `MissingOnlyAfterDeploy` says what replacing all assets at once costs: a page
  opened before a deploy may miss an asset after it, and that is the only way to miss one
  of a whole site.
* `PagesFound` has the exception in it that the fallbacks' order makes: a file whose own
  route is `/blog` hides the directory `/blog/` from the path without the slash.

### Disagreements the runs show

Four runs check one statement of a comment or document each, and find it violated.

* `cert_store_torn`: *"generating and persisting a fresh one if either file is
  missing"* (`acme.rs:31-33`). A process killed between the creation of
  `gemini.crt` and its writing leaves a file that exists and is empty. Every later
  boot loads it, fails, and panics. Writing to a temporary file and renaming it
  would close the gap.
* `metrics_feed_rate`: *"Calculate requests per second since last snapshot"*
  (`metrics.rs:106`). When two viewers' snapshots overlap, the one that gets the
  lock second may have the earlier clock: its elapsed time saturates at zero, it
  reports 0.0, and the requests it swapped out of the base appear in no rate.
  Reading the clock and the total under the lock would close it.
* `ws_session_pings`: *"so a blocked write can't wedge the task"*
  (`SECURITY_HARDENING.md:52-57`). The answer to a peer's Ping is the one send
  without a timeout, and a peer that has sent a Ping and stopped reading keeps
  its session. `OnlyPongsWait`, in `ws_session`, says that this is the only way.
* `memory_game_reveal`: *"Enable clicking on cards after the initial reveal"*
  (`memory-game.js:39`). A first click, which starts the game and its reveal, and a reset
  within a second and a half; so would two resets.

Read along the way, without a run of their own, since no state or step is at issue:
`server/README.md:121` gives pages a max-age of 3600, `router.rs:146` one of 300;
"If no pong within 60s the loop breaks" (`SECURITY_HARDENING.md:52-53`), while the
deadline is looked at every 30 s, and later still for a slow reader (`SilenceBounded`);
`build.rs:164-165` expects a `.gmi` beside every page, which nothing checks (a page
without one is not to be had over Gemini); the file that `build.rs` writes when there
is no `public/` lacks the field `content_type` that `gemini.rs` reads, so the program
does not compile then (`GeminiFields`); an asset's three encodings have one ETag and no
`Vary`, which a cache that is shared between browsers could confuse, and which the
private cache modelled here cannot.

### Bounds, and why they are enough

* Listener: three connections of one address against its cap of two and five in
  all against three permits: both caps are reached, in either order, with a
  connection left to be refused. Nothing depends on the size of the caps; the
  theorems of section 4 are for all of them.
* Connection: the limit of 3 makes a buffer of 5; the streams have the terminator
  first, at the end of the buffer, one beyond it, not at all, cut in half, and
  with bytes behind it. The timeouts differ, so that each can be the first.
* Delivery: two stops put a deploy between a page and its asset and another between a
  question and its answer. The two sites that build differ in the page's content, in
  what it names and in an image under the same name; a third tree has two files with
  one identifier, and there is the case of no tree. The first has two files on one Gemini
  route, of which either may win. `blog.gmi` beside `blog/index.gmi`
  meets the exception of `PagesFound`. A month and five minutes keep their order
  as 2 and 1, and ages beyond both are alike (`Cap`). One browser, which accepts gzip,
  is enough, since browsers share nothing; the theorems have any.
* Certificate store: two crashes allow one in the middle of the boot that repairs
  the first; three pairs allow both boots to generate.
* Histogram: five slots and three durations have all orders and repetitions of
  samples that the sort and the ranks tell apart (with one to five samples, the
  50th percentile falls on the first, the last and the inner ranks); the state
  space is finite, so the index wraps any number of times.
* Metrics: two snapshots can overlap in every way with two permits, and the third
  viewer meets the cap. `MaxTotal` and `MaxInstant` bound the length of a run.
  The run uses symmetry, which is sound since it checks safety only.
* Session: the ratio of send timeout, ping interval and deadline is kept, and with it
  what `AttentiveAssumption` asks of them;
  `PeerPings` bounds the Pings a peer sends, as the delay of a loop that answers them
  depends on their number, and one is enough to have a Pong pending at any moment;
  `MaxSilence` (22) is above the bound that `SilenceBounded` states (21), so that
  saturation cannot hide an excess, and `MaxOverdue` above what an interval can be
  overdue while the peer keeps up. `MaxUnread` keeps the queue of a slow peer's
  messages finite: it answers while nothing of it waits to be taken.
* Game: `MaxTimers` admits two reveals beside the two timers of a win. Three
  pairs with five timers give the same results in a few minutes.

The runs take seconds, except `ws_session` (1,065,000 states with liveness, two minutes),
`metrics_feed` (895,000 states, about half a minute) and `delivery` (95,000 states with
liveness, less than a minute). `CHECK_DEADLOCK FALSE` stands where the system may really stop: a stopped listener, a
served boot with its bounds used up, an ended session or connection.

### Fairness

* tokio runs tasks that can run: weak fairness of the loop and of each task.
* Handshake and request are bounded by timeouts, so they end whatever the peer does.
* The reply ends only if the peer reads or hangs up. `PermitsComeBack` is stated for
  the connections in `Reading`, of which this is assumed; `OnlyRepliesWait` says for
  all the others that nothing but the reply can hold a slot. `Reply` is fair for
  `Reading` alone.
* Time passes (`Tick`), but not while something is ready.
* `select!` starts with a branch taken at random, so one that is ready again and again is
  taken in the end: strong fairness of `PingTick` and `Receive`. `SilentEnds` needs it,
  since a send that lasts longer than a tick leaves a broadcast ready every time. Of the
  session's peer it is assumed only that one that keeps up goes on reading.
* The deploy script starts what it stopped, the server answers or refuses, and the browser
  loads what it wants (`Start`, `Answer` and `Refuse`, `Load`). `VisitorsCatchUp` also
  assumes that the visitor comes back (`Open`), as it is about those who do. Nothing is
  assumed of stops and evictions.
* systemd restarts the process: weak fairness of `Boot`. Crashes, losses, refusals
  and everything a peer or player does are never assumed to happen.
* The browser runs timers that are due.

## 4. What is proved

With TLAPS, for every value of the constants that the modules' assumptions admit:
any caps, timeouts, sizes, sites and bounds. Each proof is of an inductive invariant,
with a lemma for each action or group of actions, and the theorems follow from it.

**GeminiListenerProofs.** The invariant

    IInv == TypeOK /\ PermitsConserved /\ TableCountsGuards /\ LoopHandlesOne

is inductive. The parts need each other: the table's counts stay within the cap
because they are cardinalities; a count reaches zero exactly when the last guard
of the address goes, which is why the removal of an entry is right; the permits
add up because each action moves one connection into or out of the set of holders;
and `LoopHandlesOne`, which is checked by no run of its own, says that the loop
has one connection in hand, at the check `pc` stands for. From it follow

* `TypeCorrect`, `PermitsAreConserved`, `TableIsExact`: the invariants of the run;
* `RefusalsAreJustified`: with no permit left, all holders are tasks; with the
  count at the cap, as many guards exist;
* `PermitsRefineSlotPool`, `GuardsRefineSlotPools` and, for both, `ListenerRefinesPools`:
  every step of the listener is a step of the pool or leaves the holders alone.

**GeminiConnectionProofs.** Two invariants, one for the read loop and one for the
reply, over arbitrary streams, limits, bodies and buffers.

* `ReadInv` adds to `OutcomeIsRight` what it leaves unsaid: the loop is there exactly
  while there is no outcome, a request of the right form has then not been read to its
  end, and such a request can never be too long. The last is the boundary of the code:
  the buffer has two bytes more than the limit, and the terminator is looked for
  before the size. From it: `OutcomesAreRight`.
* `ReplyInv` is a conservation law: what the peer has read, followed by what is in
  the socket, in the session and still to be written, is the reply, in order.
  `close_notify` enters the session's buffer once, behind everything (a body must not
  contain it, which `ConnectionAssumption` says of the model's parts), and the handler
  is done when that buffer is empty. From it: `RepliesGoOutWhole`, and that the
  session never holds more than it has room for (`TypeCorrect`).
* `TasksReadThenReply`: the handler implements the task of `GeminiListener`.

**CertStoreProofs.** `Inv` is the type invariant, what each stage of the boot has in
hand (`StageIsStored`) and, as long as nothing was lost, the order of the two files
(`FilesInOrder`: a certificate, even a torn one, has a complete key beside it, and the
key is only written while there is no certificate) and what was ever served
(`ServedIsStored`: nothing but what is on disk). `losses` is in the invariant, because
both fail after a loss, as they should. From it: `CertHasKey`, `PinIsKept`,
`ServedIsKept`, `TypeCorrect`.

**MetricsFeedProofs.** `Counts` says what the gauges, the distance of the two totals and
the permits count, as cardinalities of sets of tasks; `TotalAfterTime` says that the
base's count, and what a snapshot has read, are at least the total at the instant
that goes with it. The second is why the order of the two reads in `snapshot` matters.
From them: `CountersStayExact`, `SnapshotsCountViewers`, `RatesCountSinceBase`,
`FeedRefinesPool`, `TypeCorrect`, for any number of requests and viewers.

**DeliveryProofs.** Three parts. In the first, every cached entry and every answer
under way is as recent as its age says (`EntryHolds`, `ReplyHolds`), in an encoding
the browser named, and with a max-age that fits the path it was asked under (`Fits`).
The case that takes work is a 304 on its way: the entry it vouches for cannot
change until it arrives, as `Receive` alone writes entries and `Evict` waits. From it:
`CacheStaysHonest`, `ShownStaysRecent`, `TypeCorrect`. In the second, `DeployInv` ties
the page that is shown to the site that is up as long as no stop came in between, and
from that `MissesAreDeploys`. The third is about the tables of a build: every key is a
route of a file (`KeysAreRoutes`), a directory's route comes from an index and from
nothing else, and from that the fallbacks of both lookups end at it (`PagesOfBuild`,
`PagesAreFound`). All are for any trees and any names; `SiteAssumption` (an index is
not a fingerprinted name) and `DeliveryAssumption` (pages are kept no longer than
images; files and directories have names) are what they need of the code's constants
and of a file system.

**WsSessionProofs.** `AttentiveStays` and `SilenceStaysBounded` are about time, and their
invariant is a budget of it. A loop that is late catches up by sends, each of which may
wait `PeerLag` ticks for room. `Backlog` is the longest that takes: `DueSends` counts
the broadcasts that are due, the peer's Pings, answered or not, and the send under way,
`Short` how many of them the buffers have no room for, and either all of them wait but the
first few or those that are short do, the first of them for the rest of the lag. The
lemmas on `Backlog` say that an action's send takes nothing from the budget, that a tick
of waiting takes at least a tick, that a Ping of the loop adds one lag and that a loop
with nothing to do has `PeerDelay` at most before it. Then, in `IInv`,

* `InTime`: while the peer reads, the ping interval is overdue by at most `PeerDelay`,
  with the backlog (`Late`) counted in, and the backlog is bounded;
* `SendsEnd`: a send has waited no longer than the peer has left messages unread, so
  that its timeout cannot come;
* `Overdue`: with a peer that has stopped reading, one more wait is all that is added, as
  nothing is sent behind it; this is where `~slowed` comes in, since a read in between
  would make room for one more send, and for its wait;
* `NothingSent`: the wait that is counted is that of the send under way;
* `Checked`: `silence + ping` stays within deadline and interval, since a Ping is sent only
  when the deadline is not over;
* `ClosesLast`, `Answered`: an attentive peer has not closed, and has answered the last
  Ping, or the Ping is about to be sent, in `out`, or its Pong in `in`, each with the time
  it may still take below what is left until the next Ping.

From `InTime`, `Overdue` and `Checked`: `SilenceStaysBounded`. From `SendsEnd`, `Answered` and
`InTime`: the deadline is never over for an attentive peer, hence `AttentiveStays`. The
assumptions are those of section 2. Neither follows without the counting: with buffers
that an attentive peer may leave full, or with delays that do not fit between two Pings,
TLC shows the peer dropped.

**MemoryGameProofs.** `PairsAreCounted`: the cards out of play are pairs of one symbol
and `matchedPairs` is their number, for any set of symbols and any timers. The invariant
adds that the first card of a turn is still in play whenever the script believes to
have one, although stale timers may have forgotten it. `BoardIsShown` needs `BoardInv`,
which says of a game that was not begun in the middle of a reveal that it is in one of
three states: not started (`Fresh`), in its reveal, which ends behind every unflip of the
game before (`Revealing`), or in its turns, where the board is locked exactly while two
cards are up that do not match and one timer is pending that turns them back (`Playing`).
It is the order of the times (`GameAssumption`: an unflip is shorter than a reveal) that
keeps stale unflips out of the turns. `TypeCorrect` has the bound of `matchedPairs`.

**LatencyHistogramProofs.** `TypeCorrect` (the index stays inside the vector and is
0 while it grows) and `RingRefinesWindow`: the refinement of `LatencyWindow`, for
every size and every set of durations. The argument has two cases: while the
vector grows the mapping is the identity and a step appends; afterwards the slot
that is overwritten is the window's oldest, and moving the index makes the rest
the tail. `PercentilesAreRanks` goes in three steps: samples can be sorted, whatever
they are (`CanBeSorted`, by a shortest list that could not); of an ascending order, fewer
than *r* samples are below the *r*-th and at least *r* at or below it (`RankOfAscending`,
by counting places); and the truncated, clamped index is the rank that *p* percent call
for (`RankIndex`).

Only model-checked: all liveness (`PermitsComeBack`, `ReadEnds`, `BootsWhenBootable`,
`VisitorsCatchUp`, `LockIsReleased`, `OnlyRepliesWait`, `OnlyPongsWait`, `SilentEnds`), as
fairness and ENABLED are out of the prover's reach. Every invariant and every other action property
and refinement that a passing run checks is proved.

## 5. What is not modelled

* The dashboard: the presentation of the feed. Its two races (a second call while the
  chart library loads, and a toggle during the load) are in the list of hazards with no
  property; no comment promises anything about them, and what they leave behind is a panel
  shown or hidden.
* The theme toggle and pixel scale: synchronous handlers with one attribute each.
* The hash in `Sec-WebSocket-Accept`: a pure function of one header.
* Compression, and the text of the generated `assets.rs` beyond the names it defines.
* The parsing of Gemini URLs beyond its verdict (`invalid`, or a path).
* TLS itself: the handshake is an action that succeeds or not, the session a
  buffer. HTTP's connection handling is hyper's.
* Uptime, wording, logging.
* Templates, styles, content and the scripts that convert it: offline
  transformations.
* Integer overflow of the 64-bit counters, out of reach at any request rate.

## 6. Plan

Done: every component of the server and the memory game, the composition of build,
router, browser and deploys, and the proofs of section 4.

What is left is the dashboard: loader, toggle and reconnect, if the script ever states
what its view is to follow.
