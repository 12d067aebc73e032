# Nurones MCP: formal models

TLA+ models of nurones-mcp, checked with TLC and, where a property should hold
for every number of tasks, tools or events, proved with TLAPS. Every definition
is taken from the source; `PROJECT.json` says which lines it stands for. Paths
below are relative to the repository.

1. [The system](#1-the-system)
2. [The models](#2-the-models)
3. [What the runs check](#3-what-the-runs-check)
4. [What is proved](#4-what-is-proved)
5. [Findings](#5-findings)
6. [What is not modelled](#6-what-is-not-modelled)
7. [Plan](#7-plan)
8. [Running it](#8-running-it)

## 1. The system

An editor extension spawns a Rust server (`mcp-core`, tokio, several threads).
The server offers an HTTP API: a registry of tools, their execution, policies,
settings, connections and Prometheus metrics. Some tools are extensions that
the server runs as node processes.

    editor extension --spawn, kill, exit event--> mcp-core process
          |                                         |  ServerState (tools, connections, gauges)
          +---- POST/DELETE /api/connections ------>|  policies, settings (file and memory)
    admin UI, SDK --------- HTTP ------------------>|  VirtualConnector (a counter)
                                                    |  ToolExecutor --spawn--> node process per call:
                                                    |    session-compression, web-scraper
    library users --------- calls ----------------->|  InMemoryEventBus, ContextEngine

| component | state | operations | what is hard | what makes it correct |
|---|---|---|---|---|
| **Event bus** `mcp-core/src/event_bus.rs` | log, correlation index, pending batch, handlers, four RwLocks | publish, publish_batch, subscribe, flush_batch | tasks interleave at every lock await; two locks are nested; the batch is tested under one lock acquisition and drained under another | versions count a stream without gaps; the index matches the log; answers are those of the events asked for and no event is lost, but where named; handlers see the log's order; a full batch is flushed; every call returns |
| **Context engine** `mcp-core/src/context.rs` | metric → value, baseline, successes | adjust_metric, record_success, rollback | each step is small, a long series is not; value and baseline move separately | the value stays within the cap of the baseline; the baseline moves no faster than successes allow; the value keeps the documented limit per day (it does not, section 5) |
| **Server state and its endpoints** `mcp-core/src/server_state.rs`, `main.rs` | tools, connections, gauges | create, update, toggle, delete a tool; metrics; connections | a handler takes the lock twice and others run in between; all scrapes share one gauge | a request that nobody came between has exactly the effect it asks for; one that was overtaken undoes no more than what came between |
| **IDE plugins** `plugins/vscode`, `plugins/qoder` | child process handle, status bar, open dialogs, connection id | start, stop, restart, status, toggle, activate, deactivate | callbacks of old processes, answers to old dialogs, a server that restarts, one port for all | the status bar follows the handle; a server is lost only in a known way; the server's list of editors errs only in known ways |
| **Session compression: calls** `extensions/session-compression/src/{index,idempotency}.ts`, `cli.js`, `mcp-core/src/tool_executor.rs` | summaries, index, timeline, records file | one process per call: check, process, write, record, clean up | no lock between processes; truncate-then-write; crashes in between; retries | a record is never ahead of its files; a retry is refused exactly if the work was done |
| **Session compression: tiers** `rbac.ts`, `compressor.ts`, `llm-compressor.ts`, `quality-scorer.ts`, `timestamp-parser.ts`, `index.ts` | none between calls | tier and limit by risk level, date, digest, retry loop, score, rollback, totals | which tier runs after tuning, retry and rollback, and what is reported of it | the tier in use is allowed; requests are bounded; a digest is as long as its limit and its metadata allow; the report is what happened, but for two labels |
| **Web scraper** `extensions/web-scraper/src/index.ts` | none between calls | scrapeSite with scrapeUrl and extractLinks | a breadth-first crawl with depth, page limit, two requests per page, failures, redirects, a web that changes | no page twice, each at its distance, none too deep, none too many, none missing, none of another site asked for |
| **Policies, settings** `policies.rs`, `settings.rs`, `config.rs`, two pages and a tab of `admin-web` | a file and a copy in memory; a draft on each page | load, edit, save, restart | file and memory are written one after the other, and either may fail; saves overlap; pages hold old copies | file and memory agree unless something named went wrong; a page says "saved" of what was written; nothing is lost but to a stale page |
| **Admin UI: console** `admin-web` `page.tsx`, `api.ts` | what the home page and the tools tab show, open forms | poll, toggle, create, edit, update, delete | polls, clicks and refreshes in flight together, answers in any order, tabs unmounted meanwhile | one's own change is shown when its call ends; the page comes to show what the server holds; its parts do not contradict each other |
| **Admin UI: tests; virtual connector** `page.tsx`, `test-tools`, `session-compression` pages, `connector_virtual.rs` | one mark and one verdict per kind of test; a counter that wraps | test, build, execute; connect, disconnect | several requests per test, tests that overlap, one mark for all targets, lost answers | buttons come back; the verdict is that of a test that ended, and is shown; the counter counts connections |
| Tool executor, scaffolding, observability, security helpers, contracts, SDK, examples | none that outlives a request and is read again | – | – | see section 6 |

`main` creates an event bus and a context engine and hands them to no handler
(`main.rs:65`, `main.rs:72`): the two are libraries, and their models are
composed with no other. The other models each hold both sides of one
interaction: editors with the port and the connections of a server, calls of the
session compressor with the files they share, forms with the documents they edit
and the files behind them, the console with the registry it shows, tests with
the connector they count on, a crawl with the web.

`PROJECT.json` lists, under `hazards`, what in this code is hard to test, at its
line, with the property that would notice it going wrong or the reason why there
is none.

## 2. The models

### EventBus, EventStore

One action is what a task does between two lock awaits. The write guards on
`events` and `seen_correlations` are kept until `publish_internal` returns, so
their holders are variables (`eventsLock`, `corrLock`); every other guard is
released before the next await, so the action that takes it is atomic.

| code | model |
|---|---|
| `events`, `seen_correlations`, `handlers`, `pending_batch` | `events`, `correlations`, `handlers`, `batch`; an event id is its position in the log |
| `publish` up to `should_flush` | `Publish` |
| `publish_batch`, `subscribe` | `PublishBatch`, `Subscribe` |
| `flush_batch` | `DrainBatch`, or `FlushEmpty`, after which the `unwrap()` in `publish` panics |
| `check_duplicate`, the lookup of a duplicate | `CheckDuplicate`, `LookupStored` |
| count, push; insert; handlers and return | `StoreEvent`; `RecordCorrelation`; `Notify` |

`overtaken` and `dropped` are history variables: the tasks that are about to
flush while another pushes to the batch or takes it, and the correlation ids
that a failed call left unanswered. `OutcomeAccurate` is stated with them:
`AnswersMatchInput` (each response is that of the event in its position),
`OwnAnswer` (`publish` answers with the event it was given unless overtaken) and
`NothingLost` (an event goes missing only in a call that fails).

`EventStore` is what the bus promises: an event enters the log, is numbered and
indexed at one instant, and with `Idempotent` a known correlation id never
enters twice. The mapping hides an event that is pushed and not yet indexed
(`RecordedLog`), because both locks are held until then, and sets `Idempotent`
only for a single caller (`OneCaller`): for several the code is at-least-once.

Abstractions: data, timestamps and the textual ids are left out; the outcome of
`ContextFrame::validate` is a field of the event; `check_watermark` warns and
changes nothing, so it has no action; a handler's error is only logged.

### ContextEngine

Each method holds one write guard from beginning to end, so each is one action
and calls interleave freely. Values are integers and the percentage is rounded
down; NaN and the infinities are left out (a NaN proposal passes both
comparisons of the clamp and is stored). `origin`, `recorded` and `dayBase` are
history variables: the baseline a metric started with, the successes since, and
the baseline the day began with. `NewDay` is the only step that no code takes:
the code has no notion of a day, the documents do.

### ServerState, ToolCatalog

Every method of `ServerState` takes one lock and gives it back, so a handler
that calls two methods is two actions: `create_tool` is `CreateCheck` and
`CreateRegister`, `update_tool` is `UpdateRead` and `UpdateWrite`, the metrics
handler is `ScrapeRead`, `ScrapeSet` and `ScrapeGather`. Handlers that call one
method are one action. A tool is its flag and the rest (`version` stands for
version, type and permissions, which are copied together). Of the three gauges
the handler sets in the same way the one that counts tools is modelled.
Requests that fail to parse never reach the state and are left out.

`ToolCatalog` is what the endpoints promise. A request is asked for at one
instant, a creation while its name is free, an update while there is a tool, and
carried out at another. `since` holds what the name has stood for in between. An
update puts its own patch on one of these and on nothing else: when nobody came
between there is only one, so exactly the fields that were given change, and a
creation replaces nothing. When somebody did, an update may put back the fields
the tool had earlier, so that it undoes a toggle, and a creation may replace the
tool that came between: two overlapping creations of one name both answer
"created" in spite of the check that answers 409 (`main.rs:331`). The catalogue
states exactly how far the two go. A deleted tool never comes back through an
update even then. For handlers that do not overlap `since` is a single state.

`sizes` and `window` do the same for scrapes. `sizes` are the numbers of tools
there were during a scrape; `window` adds those that the scrapes under way had
seen when it began, but not what these were allowed themselves, so it does not
grow along a chain of overlapping scrapes.

### IdePlugin

An extension is single-threaded JavaScript: an action is what it does between
two awaits or one "on" callback. `activate` and each open dialog are
continuations with a `pc` of their own. A server process is unborn, starting,
listening, deaf (it could not bind the port: `start_api_server` logs the error
and the process stays), exited (its exit event is on its way) or reaped. The
HTTP request and the server's handler are two steps; the handler and the
response are one, as nothing in the extension depends on when it arrives except
the end of `activate`. A connection id is drawn once per activation, so it is
the editor. `overlapped` and `late` are history variables: the editors that
spawned a server before the exit of an earlier one was reported, and those whose
registration was handled after they had closed. They make `ServersTracked` and
`ListedEditors` say when exactly a server or an entry of its list is lost track
of. Heartbeats change only `last_activity`, which nothing reads. The
Qoder plugin is the same program with other ports; the model assumes the
plugin and the server use one port.

### SessionCompression

A call is a process: the executor spawns `node cli.js` for each. An action is
one access to a shared file with the code around it; `fs.writeFileSync` is two,
`OpenFile`, which truncates, and `WriteFile`. `disk` maps each file (the
summaries, `_index.json`, `_timeline.md`, `records.json`) to its contents, or to
`Missing`, `Empty` or `Garbled` (two processes wrote it at once, the shorter
contents over the longer). What cannot be parsed counts as no records, as in
`loadRecords`. `Abort` ends a call anywhere, by an exception or a kill;
`SaveFails` is the write error that `saveRecords` swallows; `DayPasses` lets
the records written so far become older than the TTL, while no call runs.

A source stands for a text and its digest. The executor passes neither a tier
nor a quality flag on, so calls through the server are at tier T0, and the
digest of a text at a limit is always the same. `FileOf` gives the name of its
summary, made of date, session id and length, which two sources may share. One
output directory is modelled: it is part of the key. A text without any date is
dated now; the model leaves out that such a call is repeated on another day
under another file name.

### CompressionTiers

One call of `compressSession` from the policy of its risk level to its answer;
`SessionCompression` has what this module leaves out, the files and the other
calls. A text is the length of its header, the length of its body and its words:
lengths decide what is cut, words decide the score. `Lcs` is the table of
`QualityScorer.lcs`, a recursive function of pairs of indices, and is checked
and proved against a definition that has no table (`LongestCommon`); the
percentages are compared without dividing. `LlmLimits` are the limits that
`compress` accepts. A place a date may stand in says nothing, a date, or
something `Date` cannot parse. The LLM answers with any of `Answers`, with an
empty text, with an error that may pass (timeout, 429, 5xx) or with one that may
not. `billed` and `wasted` count the requests it was paid for.

A digest is what is written and returned: `FormatSessionDigest` puts the
metadata (date, session, tier, tokens and so on) before the text that
`compressDigest` cut. How long the metadata is depends on names and numbers the
model leaves out, so its length is any of `MetadataLengths`, a constant that the
proofs know nothing of but that it holds naturals. A stamp is the label that is
reported with a date and where the date comes from, because the code gives the
label `mtime` to two different times (section 5).

| code | model |
|---|---|
| `autoTuneTier`, `validateTier`, limits | `Authorize` |
| the duplicate check; the LLM and Notion clients | `PassDuplicateCheck`; `Prepare` |
| `processSource`: content, date | `LoadContent`, `Stamp` |
| T0, or `LLMCompressor.compress` with `executeWithRetry` | `Compress`, `AskLLM`, `Backoff` |
| the score and the rollback; the digest with its metadata and the totals | `Score`; `WriteSummary`, `Answer` |

### Crawler

`scrapeSite` between two awaits. Every request fails or is answered, and each
answer of `extractLinks` shows any list of links: the page is fetched a second
time and may have changed. `shown` remembers the valid links a page's answer
had, and `Within[n]`, the pages at most n such links from the start, is the
reference the results are compared with. A zero limit means the default, as
`||` does. What a page's title, text and images are is left out. `fetch` follows
redirects, so a request for a URL may be answered by any of `Redirects[url]`, on
any host; the code looks at the URL it asked for and never at the one that
answered. `contacted` remembers the hosts that took part.

### AdminForms

A page is one React component with its load, its draft, its message and its
Save button; `form` says which of the three it is. The server's handlers are cut
where other threads can come between: the request, the read of the old
configuration, `fs::write` as `Truncate` and `WriteFile`, the copy in memory.
Two handlers that write one file at the same time may leave the longer text's
end behind the shorter (`Written`). `Crash` ends the process anywhere and `Boot`
starts it again, or refuses to when a file cannot be parsed. `upset` is a history
variable: what may have parted file and memory of a document since the last
save on its own, or the last boot; `seen` is what each page loaded and took
away. The policies are a set of entries: roles, users and paths are edited and
sent in the same way. The settings tab has its whole document sent back; only
the port of it is modelled.

### Console

A call is one asynchronous callback of the page, from the click or the tick to
its last `setState`: `calls` says what it waits for, and everything else runs
meanwhile. `create_tool` and `update_tool` are two steps on the server, as in
`ServerState`. `SwitchTab` unmounts the tools tab: its calls go on and set
nothing. `epoch` counts the changes of the engine's flag and of the registry,
so that a property can say "at least as new as". The calls of the two intervals
have a slot each; a tick that finds its predecessor under way takes one of
`Slots`. The Prometheus probe is a step of `loadStatus` without effect on
anything that is read.

### TestBench

A test sends one to three requests in turn. Each is answered as hoped ("read"),
with a file that does not parse, with a failed execution, with an error status,
or not at all; `Fails` says which of these end which test. `busy` and `verdict`
hold one mark and one verdict per kind, as the page's state does. A verdict in
the state need not be on the screen: `Shows` says that the digest page renders
nothing of an execution that failed on the server. `ConnectedLost` is the answer
of `virtual_connect` lost on its way back: the connection is counted and the
page shows a failure. The counter is the one of `connector_virtual.rs`, which
only `/api/connector/virtual/health` reports (the connectors tab shows the
number of entries in the list of connections, `page.tsx:1914`, `main.rs:547`,
and not this counter). It is an `AtomicU64`; `Width` stands for 2^64 and is as
small as the wrap-around needs.

## 3. What the runs check

"V" marks the run that ends in a counterexample; section 5 says what it shows.

| run | instance | states | what it shows |
|---|---|---|---|
| `bus` | 2 tasks, 2 valid events of two streams, one of them in at most 2 calls, and an invalid one, batches of 2, one handler | 147,268 | types; versions without gaps; the index names the latest recorded event of its correlation; a task never stores a correlation twice; a call answers with its own events unless it was overtaken, and errors and losses come from invalid events only; handlers see the log's order; a full batch has a flusher; the bus implements `EventStore`; every call returns |
| `bus_duplicate_flush` V | every event published once | – | an event is stored twice |
| `engine_safety` | one metric, 5 proposals (inside, above, below the cap, negative), 5 frames, 6 successes, days | 2,518 | the cap holds in every order of adjustments, successes and rollbacks; the baseline compounds the cap at most once per two successes |
| `engine_daily` V | the same metric, positive proposals | – | within one day the value leaves the ±10% of the day's baseline |
| `registry_safety` | 2 handlers, 5 requests, one name | 59,689 | the registry implements `ToolCatalog`; a scrape reports a number of tools that was true while it, or one under way when it began, ran |
| `plugin_safety` | 2 editors, 1 dialog each, 3 processes, 1 crash | 1,124,176 | the status bar follows the handle; a live server that was not killed is held by its editor unless a spawn overtook an exit event; an editor that has closed is listed only while its DELETE is on the way or because its POST came late |
| `session_safety` | 3 calls of 4 requests: a call, its permuted retry, its dry run, another key whose summary has the same file name | 2,280,601 | a record stands for files that were written; a duplicate's answer is about work that was done; calls that do not overlap write a key's results once |
| `tiers` | 109 inputs (see below), 32 answers of the LLM | 186,518 | tiers, requests and lengths keep the policy, the metadata included; the LLM's text stays exactly if its score allows it; spending and rollbacks are reported as they were, and tier and date but for the cases that the property names and bounds; every call ends |
| `crawl` | 6 URLs on 2 hosts, one of them redirected to the other host, 12 lists of links, 8 inputs | 174,592 | what is reported is right at every moment, and another host is reached by a redirect only; a crawl that was not cut off missed nothing; every crawl ends |
| `admin` | 2 pages (both policies, or settings page and tab), 2 edits, 2 saves, 1 mishap | 192,954 | file and memory agree but for overlaps, errors and crashes; "saved" is said of what was written; entries are lost to stale pages only; Save comes back on the two forms that catch |
| `console` | 2 tools, 2 versions, 2 calls besides the intervals', 3 clicks, lost requests or overtaking polls, the tools tab opened once | 497,534 | header and status bar agree; a change is shown when its call has ended; the page comes to show what the server holds |
| `bench` | 2 targets, 3 tests under way, 1 tab left or Disconnect | 242,173 | marks, verdicts, executions and the counter tell what is and was under way; a verdict is shown but for the digest page's; "successful" means a connection that was counted; no button stays disabled |

Some invariants are conjunctions of parts with a name and a comment each, where
the parts are about one thing: `OutcomeAccurate` (`AnswersMatchInput`,
`OwnAnswer`, `NothingLost`), `CrawlSound` (`PagesOnce`, `DepthIsDistance`,
`WithinLimits`, `StaysOnSite`), `WithinPolicy` (`TierAllowed`, `DigestFits`,
`RequestsBounded`), `AnswerAccurate` (`TierReportedRan`, `SpendingReported`,
`StampedByPriority`), `DocumentsDurable` (`FileMatchesMemory`,
`RefusedOnlyIfUpset`), `PageConsistent` (`CoreDownShowsError`) and
`BenchConsistent` (`OneExecution`, `BusyIsRunning`, `EndsWithVerdict`,
`LinksAreConnections`). Those that do not end in a type invariant of their own
begin with `TypeOK`.

**What a bound on a hazard means.** Where the code goes wrong in a way that is
known, the property says exactly when, and so does not forbid the case itself.
`ServersTracked` and `ListedEditors` except what an overtaken exit event and a
late registration do; they show that nothing else loses a server or keeps an
entry. `RecordedIsComplete`, `DuplicatesWereDone` and `OncePerKey` except calls
that overlap and saves that were cut short; that a record gets lost when two
calls save at once is not an error to any of them. "Whole" in
`RecordedIsComplete` is of a file, not of one call's own digest. `SavingEnds` is
about the two forms that catch a rejected fetch and leaves the settings page
out. `DriftPaced` counts two successes per adoption as `record_success` does,
per metric and whatever was adjusted between them. `StoredOncePerTask` is about
retries of one task; the race of two is the run `bus_duplicate_flush`.
`TierReportedRan`, `StampedByPriority`, `DigestFits`, `EndsWithVerdict` and
`StaysOnSite` each name a case of section 5.

**Bounds.** Two tasks are what every hazard of the bus needs. Four events in
batches of two flush while another task publishes and after it has, with the
event that is asked for twice in either task's hands; the theorems of section 4
do not depend on the bound. Metrics never touch one another, so one is enough;
six successes are three adoptions. Tools with different names never touch one
another either, except in the count that a scrape reads, and the count also
changes with one name; five requests let two pairs of handlers overlap and a
scrape look. Three processes are a server, its successor and one more whose exit
is still to come; the second editor competes for the port. Three calls are a
call, one that overlaps or follows it, and a third that sees what the two left.

The inputs of `tiers` are every tier, risk level and quality setting; limits at
1, 9, 10, 13 and one above each policy's; files dated at each of three places,
at two, unreadably and not at all; metadata of 330 characters, about what its
nine lines come to; a header longer than the limit, an empty
text, a Notion page with and without permission, key and date; one source or
two. The answers are every sequence of one to four words of two, one too long
and one that is all header. The web of `crawl` has pages with no link, one, two
in either order, one twice, one that is no URL, a second host, cycles (every
answer may lead back), a URL that is sometimes redirected off the site, and a
start URL in another spelling than the links use. `sameDomain` is true, false or
missing.
Two pages, two saves and a crash or write error are what it takes to part file
and memory and to mend them. Two clicks that overlap and a poll, or a lost
answer, between them are the races of the console. Three tests are two that
share a mark and one that begins when the first ends; a counter of width 4 wraps
with one Disconnect and does not overflow with three connections.

`MaxAttempts`, `MaxSubscriptions`, `MaxSuccesses`, `MaxRequests`, `MaxCrashes`,
`MaxEdits`, `MaxSaves`, `MaxMishaps`, `MaxClicks`, `MaxTabs`, `MaxTests`,
`MaxOthers` and the sets `Processes`, `Calls`, `Pages` and `Slots` are these
bounds; they are guards of the actions that begin something new or that fail,
never of one that goes on.

**Deadlock** is checked in every run but `admin` and `bench`. Where the bounds
are used up and nothing is left to do, `Quiescent` stutters, and only there: a
task waiting for a lock that is never released is a deadlock. In `admin` and
`bench` users may stop, and then nothing need happen; that what was begun ends is
`SavingEnds` and `TestsEnd` there. The console's intervals never stop.

**Symmetry** is used where the members of a set are interchangeable (tasks,
requests, processes, calls) and never in a run with a liveness property.

**Fairness.** Nothing is assumed of users, editors or callers: they may stop at
any time.

- `bus`: weak fairness of the steps of each task whose call has begun.
  tokio polls every task that is ready, and its RwLock queues waiters, so a task
  that can go on does. Strong fairness is not needed, because with a bounded
  number of calls a lock cannot be taken from a waiter for ever.
- `crawl`, `tiers`: weak fairness of the one process. A request to the LLM ends
  after 30 seconds and a page's first request after its timeout, both options of
  the request;
  that the second request for a page (`extractLinks`) and Notion answer is an
  assumption, as the code sets no limit there.
- `admin`, `console`, `bench`: weak fairness of each handler of the server and of
  each callback of a page, and of the two intervals of the console. A browser
  settles every `fetch`, with an answer or by rejecting it, and runs the
  continuation; a mounted page's interval ticks.

**Mutants.** The definitions marked "Mutant" are plausible mistakes (a guard
dropped, a count off by one, a reset forgotten, an order swapped). For every
property of every passing run, `PROJECT.json` names one that breaks it, and for
most conjunctions one for each of several parts.

## 4. What is proved

The proofs are in modules of their own (`...Proofs.tla`): every safety property
of every passing run has a theorem. They hold for all values of the constants
that satisfy the named assumptions, which say only what the types in the code
say: the bounds are naturals, the batch size is positive, events are events, the
cap is a `u8`, there is an editor, and the markers that stand for "none", an
empty or a garbled file are neither each other nor members of the sets they are
added to. One theorem has a hypothesis besides, `ValidatedCap` (below).

**EventBusProofs.** `TypeCorrect`, `CorrelationsCorrect`, `OncePerTask`,
`VersionsCorrect`, `FullBatchCorrect`, `OutcomesCorrect`, `HandlersOrdered`:
every safety invariant of `bus`; and `BusImplementsStore`: the refinement,
idempotent with one caller.

- `TypeInv` adds to `TypeOK` that a running call has an event left to answer,
  without which `Current(t)` means nothing.
- `SafeInv` is the inductive invariant behind the index and de-duplication.
  `CorrelationsIndexLog` alone is not inductive: it needs to know who holds which
  lock at which program counter (`Locks`: between the push and the insert the
  events guard is held, so no other task can read or append), what the local
  ids of a task name (`LocalIds`), and that an event a task is about to store
  has no earlier event by that same task in the log (`NotStoredYet`).
- The versions, the full batch, the outcomes and the handlers' order are each
  inductive on top of these. For the outcomes: a call that was not overtaken has
  its own event last in what it drained (`OwnLast`), and every event asked for
  is somewhere between the batch and the log. For the versions: the log only
  grows, and the count and the push happen in one step.
- The refinement shows that `RecordCorrelation` is the store's append and that
  every other step leaves `RecordedLog` and the index as they are.

**ContextEngineProofs.** `EngineTypeCorrect` and `CapAlwaysRespected`, for every
cap from 0 to 255 per cent and every sign of value and baseline. The lemma
`ClampBounds` carries it: the two comparisons of the clamp turn round when the
baseline is negative, and the result is within the cap all the same. The
invariant is inductive with the types. `DriftIsPaced`, for the caps up to 100
that `ServerConfig::validate` lets `main` build an engine with (`ValidatedCap`):
a larger cap would take the lower end of the range below zero, where the next
step widens it at the wrong end. Its invariant `Paced` counts the adoptions:
there is a number m of them such that two successes were recorded for each, one
more if one is pending, and the baseline is within m caps of where it began.
`RangeWidens` (more adoptions never narrow the range) turns m into half the
successes; it rests on `CapIsMonotone`, that a larger value has a larger cap and
still stays larger when both are lowered by it, with the rounding.

**ServerStateProofs.** `RegistryTypeCorrect` and `RegistryImplementsCatalog`,
for any number of handlers. The inductive invariant says what a handler between
its two steps knows (`Pending`): what its name stands for now is among what it
has stood for since the handler looked, and the copy to be written back is its
own request's patch of one of these. `RequestsKept` and `RequestsAnswered` carry
the refinement: a step of one handler leaves the requests of the others as
they were, but for what it adds to their `since`. `ScrapesAreRecent`: the gauge is
shared, so the invariant `Seen` relates every scrape to every other one: what
the gauge holds while a scrape is about to report, or will hold if another
scrape sets it first, is in that scrape's window.

**IdePluginProofs.** `PluginTypeCorrect`, `BarIsRight`, `ServersAreTracked` and
`EditorsAreListed`, for any number of editors, dialogs, processes and crashes.
The callbacks are first reduced to what they do to the handle, the processes and
the network (`Callback`, with `Respawn` and `Registers`). `ServersTracked` needs
`Single`: two servers of one editor whose exits it has not been told of are
there only if a spawn overtook an exit event. `ListedEditors` needs
`Registered`: a POST under way, or an entry, means an activation past its
question.

**SessionCompressionProofs.** `CallTypeCorrect`, `RecordsAreComplete`,
`DuplicatesAreOfDoneWork` and `KeysAreWrittenOnce`, for any number of calls that
overlap, throw and are killed anywhere. The invariant `CallsInv` says what each
place of a call means for the disk. `Trail`: the summaries before the index, the
index before the timeline, all of them before the record, each whole but for the
writes that `RecordedIsComplete` names; `Apart`: a file that is open is empty,
and no second call runs, unless `overlapped`; `Traced`: a record, in the file or
in the memory of a call about to write it, is of a call that has written it and
has the key it is found under; `Answered`: what a duplicate has seen is still
there when it reads the file again, unless calls overlap; `Kept`: without
overlap and with no save cut short, the file or the one call that is writing it
holds every fresh record, and none under the key of a call at work.

The same module proves what `CompressionTiers` promises of one call, for any
sources, any texts and any answers of the LLM: `CallWithinPolicy`,
`QualityAlwaysKept` and `AnswerAlwaysAccurate`. The invariant `TiersInv` has
four parts. `TierKnown`: the tier is the policy's from `Authorize` on, and a
call that asks an LLM has one. `SummariesMade`: each digest is its metadata and
the cut of the text it was given, at a date that its source tells, with fields
that the tier, the LLM and the check determine (`Finished`); this is what makes
a later property of the whole answer a property of one step. `InHand`: how far
the source in hand has come. `Accounted`: what was billed is what is reported,
what was wasted, and what the source in hand has cost; its bound counts the
sources before and the attempts of this one (`Asked`), without which four
requests a source would not be inductive.

`LcsIsLongest` says that the table of `QualityScorer.lcs` ends in the length of
the longest common subsequence, for all texts. `Most(s, t, i, j, n)` is that
length for the first i words of one and the first j of the other. It exists
(`MostExists`, induction over i + j) and is one; `MostEmpty`, `MostSame` and
`MostDiffer` are the three cases of the table's cell. The function that gives
`Most` of every cell therefore solves the table's equation (`TableExists`), so
the recursive definition has a solution, and any solution is that function
(`TableIsMost`, by induction again). `QualityKept` needs it: the code's test of
the score and the reference for it are then the same (`PassesIsGood`).

**CrawlerProofs.** `CrawlIsSound` and `CrawlReachesAll`, for every web, every
input and every depth. `CrawlInv` is the invariant of a breadth-first search:
the queue is ordered by depth and spans two levels (`Ordered`), what it holds is
within its depth of the start (`Distances`), and every link shown above the last
level leads to a page that is visited or is in the queue no deeper than it
should be (`Covered`). From these a page taken from the queue is not within a
smaller distance (`HeadAtDistance`), and when the queue is empty every page
within the limit was visited (`Coverage`). `LevelsKept` and `LevelsGrow` say how
`Within` changes when a page shows its links.

**AdminFormsProofs.** `DocumentsSurvive`, `SavedIsWritten` and `LossesAreStale`,
for any number of pages, edits, saves and mishaps. `Durable` adds to the
property what a handler that nothing has disturbed knows (`Alone`: it is the only
one of its document) and how far it has come with the file (`Progress`).
`WroteFirst` and `KeepsSeen` carry the two action properties: the policies are
stored after the file is written, and what a page loaded and did not take away
is in its draft and in the update it sends.

**AdminPagesProofs.** Of `Console`: `PageConsistentAlways` and
`OwnChangeAlwaysShown`, for any tools, any number of requests under way and of
clicks. `Sound` says what a call means where it is: an answer is no newer than
the server, and that to the refresh after a change no older than the change
(`CallsSound`); the tab it would set is still there (`mounted`). `Clicked` counts
every change that the server has made or may still make against the clicks, which
is what bounds `epoch`. Every step of a call goes through one lemma about
the calls that do not move (`StepTo`).
Of `TestBench`: `BenchIsConsistent` and `VerdictsAreConnections`, for any
number of targets and tests and every width of the counter. `Showing` says what a
test under way implies of marks and verdicts, `Counting` that the counter is the
connections made less those closed, up to multiples of its width.

**How the proofs are made.** The inductive invariants are checked by TLC on the
instance of the run before they are proved. Each proof has one step per action;
what a step leaves alone is a lemma of its own (`OthersStay`, `WholeStays`,
`SeenByChange`). The induction theorems of the library take an operator as a
parameter, which the provers cannot instantiate. `ContextEngineProofs`,
`CrawlerProofs` and `SessionCompressionProofs` therefore prove their own, with
sets and functions in place of operators: every set of naturals has a least
member (`LeastNatural`), so a set with 0 and the successor of each member is all
of them (`Induction`), and a recursion over the naturals has a function
(`Recursion`). `LinksTo` of `Crawler` is a recursive function where `SelectSeq`
would do, as the prover knows no definition of `SelectSeq`. Two modules whose
theorems share a proof module have different names for what they define;
`TiersInit`, `ConsoleNext` and the like are the `Init` and `Next` of their
modules.

**Only model-checked.** Liveness (`CallsComplete`, `CallEnds`, `CrawlEnds`,
`SavingEnds`, `DisplaySettles`, `TestsEnd`), as fairness and ENABLED are out of
the prover's reach. `OneEventPerCorrelation` is refuted (section 5).

## 5. Findings

**An event published once is stored twice** (`bus_duplicate_flush`). `publish`
leaves a copy in the pending batch of what it stores itself; another task's
flush checks the copy for a duplicate before the first task has recorded it.
`PROJECT.json` quotes the documented promise.

**The limit of ±10% per day is not kept** (`engine_daily`). The PRD, the README
and the comment at `context.rs:53` speak of a day, and the setting is called
`changeCapPctPerDay`. `adjust_metric` reads no clock: it limits each adjustment
to the cap of the baseline, and `record_success` makes the adjusted value the
baseline after two successes, at once. 60 becomes 66, is adopted, and becomes 72
on the same day; three adoptions are a third. What the code does keep is
`CapRespected` and `DriftPaced`.

The models have further behaviour that a reader of the code may not expect. The
properties say how far it goes.

- *Event bus.* `publish` returns the last response of whatever its flush drained
  (`event_bus.rs:139`): with another task pushing in between that is the answer to
  another caller's event. `test_event_publish` asserts what a single caller gets.
  A flush empties the batch first, and the first invalid event in
  it ends the loop: the valid ones after it are gone (`event_bus.rs:111`). Two
  tasks that see the batch full make one of them unwrap an empty response and
  panic (`FlushEmpty`). `OutcomeAccurate` says that each of these needs another
  task, or an invalid event.
- *Registry.* Overlapping creations both succeed and an update can undo a toggle
  (section 2); a scrape may report the count of one that was under way when it
  began. A
  disabled tool still executes: the executor does not read the registry, and
  `is_tool_allowed` is never called. The allowlist is read once at start
  (`main.rs:90`): saving policies does not change it.
- *Context engine.* A success counts for a metric even if its value has changed
  since the previous success. A NaN proposal passes the clamp.
- *Plugins.* The exit event of a restarted server clears the handle of the new
  one, which can then not be stopped and is shown as stopped (`extension.ts:221`).
  The registration is sent before the spawned server listens and is not repeated
  (`extension.ts:407`); a heartbeat for an unknown id is answered with success.
  Entries of crashed editors stay. The Qoder plugin registers on one port and
  unregisters on another.
- *Session compression.* Every call replaces the index and the timeline of all
  earlier ones (`index.ts:240`; the heading at 228 speaks of a timeline of
  sessions). Dry runs are not recorded although the comment at `index.ts:425`
  says so, and recording them would refuse the real call that follows, as both
  have one key. A record older than 24 hours refuses calls until another call
  cleans it up. Two texts with the same date, session id and length share a
  summary file.
- *Tiers.* The digest that is written and returned is `formatSessionDigest` of
  the text that was cut (`index.ts:143`, `index.ts:162`, `compressor.ts:112`):
  it is longer than `char_limit` by the metadata, and `char_count` counts only
  what follows it. A header longer than the limit is kept all the same, and the
  body loses what the header is too long by. A call whose LLM was not available
  reports the tier it was asked for; it reports no tokens with it, which is how
  one can tell. A paste without a date, and a source whose first date cannot be
  read, get the time of the call with the label `mtime`
  (`timestamp-parser.ts:171`). A date that cannot be parsed ends the search
  although another place may have one. A Notion page without a date fails the
  call: `statSync` throws on its URL. The score is that of the text before it is
  cut. `validateCost` is never called.
- *Crawler.* `maxDepth: 0` means 3. A results file that cannot be written turns
  a complete crawl into a failure. `sameDomain` keeps the crawl from asking for
  another host, not from one: both requests for a page follow redirects
  (`index.ts:78`, `index.ts:306`), and what another host answers is reported as
  that page. A missing `sameDomain` is false (`index.ts:193`, `index.ts:200`),
  where `.mcp/tools/scrape-site.json:13` says that the default is true. The
  start URL in another spelling than the links' is crawled twice.
- *Settings.* A port out of range, a configuration that cannot be read and a
  write that failed are answered with 200 (`settings.rs:43-65`), and the page
  says "Saved to .mcp/config.json" (`settings/page.tsx:35`). A rejected fetch
  leaves that page's button at "Saving..."; a late load overwrites what was
  typed.
- *Policies.* A page that was loaded before another's save undoes it.
- *Console.* Two quick clicks on a toggle send the same value. A save closes the
  form that is open when it ends, of whichever row.
- *Tests.* The digest page shows neither a result nor an error for an execution
  that the server answered with `success: false`
  (`tools/session-compression/page.tsx:51` sets it as the result, and lines 179
  to 238 render only a successful one). Connect on the connectors tab sends no
  body, which its endpoint refuses (`api.ts:124`). Each successful connection
  test leaves a connection that is never closed. One Disconnect too many wraps
  the counter. Leaving a page while its tool runs and coming back allows a
  second execution beside the first.

## 6. What is not modelled

- `tool_executor.rs`, `tool_wasi.rs`: one process or file access per request,
  after checks of its path; the executor's map is filled at start and never
  changed. `execute_tool` (`main.rs:642`) does not read the registry, so a
  disabled or deleted tool still runs; no order of steps is involved, and a
  model would only repeat it. Session compression is the exception that other
  state depends on, and has a model. A process has no time limit.
- `create_plugin`, `create_extension`: they write a few files in turn and answer
  with the first error; nothing reads what a failure left.
- `observability.rs`, `tracing.ts`, `metrics.ts`, `logger.ts`: counters, spans
  and lines that no decision of the program reads.
- `security.rs`: checks of single paths, called by the executor.
- `is_tool_allowed` of `policies.rs`, which only unit tests call; the fields of
  `config.rs` that no model has, which are read once at start. Of `validate` only
  the bound of the change cap matters to a model; it is the hypothesis of
  `DriftIsPaced`.
- `contracts.rs`, `types.rs`, `types.ts`: data types and field checks.
  `ContextFrame::can_autotune` is part of `ContextEngine`.
- `sdk-node`: single requests.
- Of `admin-web`: the forms that create plugins and extensions (one request
  each), adding a policy entry that is already there, the plugin configuration
  kept in local storage, the telemetry and context monitor tabs (counters the
  browser makes up), rendering.
- Of the web scraper: the tools other than `scrape.site`; they send one request.
- `notion-client.ts`: one HTTP request; its failure is a branch of `LoadContent`.
- Examples, manifests, build and documentation.

## 7. Plan

In this order, the core first:

| module | of | status |
|---|---|---|
| `EventBus`, `EventStore`, `EventBusProofs` | the bus and its abstract store | done |
| `ContextEngine`, `ContextEngineProofs` | the tuner | done |
| `ServerState`, `ToolCatalog`, `ServerStateProofs` | the registry, its handlers, the catalogue they implement | done |
| `IdePlugin`, `IdePluginProofs` | extensions, processes, port and connections together | done |
| `SessionCompression`, `SessionCompressionProofs` | calls as processes over shared files | done |
| `CompressionTiers`, `SessionCompressionProofs` | one call's policy, tiers, retries, score and report | done |
| `Crawler`, `CrawlerProofs` | the breadth-first crawl against the pages within a depth | done |
| `AdminForms`, `AdminFormsProofs` | documents from the page to the file and back | done |
| `Console`, `AdminPagesProofs` | the home page and the tools tab against the registry | done |
| `TestBench`, `AdminPagesProofs` | tests, their verdicts, and the connector | done |

What is left: the liveness properties, should a prover for them be had, and the
components of section 6, of which the plugin and extension generators hold the
most code.

## 8. Running it

    tlc -config MCEventBus.cfg MCEventBus
    tlapm EventBusProofs.tla

Each run of `PROJECT.json` names its module and its configuration. `MC*.tla`
hold the instances: small sets and the values of the constants, nothing else.
