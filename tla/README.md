# A verification project for the underlying-analyzer terminal

The system is a Flask terminal for equity research (`src/app`), deployed as
gunicorn with three workers of four threads (`src/Procfile`), with Supabase as
its database, a browser terminal (`src/app/static`) and a React Native app
(`src/mobile`) as its clients. Most of its lines are deterministic functions of
fetched data. What is hard to get right is what happens around them: admission,
daily schedules, the agent's event streams, caches, retries, durable writes,
and screens whose requests come back late. That is what this project models,
checks with TLC and, where it can, proves with TLAPS; of the functions it models
those whose verdict people act on.

## 1. The system's parts

| Part | State | Hard behaviour | Modules |
|---|---|---|---|
| Admission of expensive routes (`app/prism/routes.py`, `app/situate/routes.py`, `app/ticker_research.py`) | per worker: requests in flight per client, a semaphore per kind of work | two resources taken in two steps by concurrent threads, five exit paths, restarts | `Admission`, `AdmissionPromise`, `AdmissionProofs` |
| Scheduled alerts (`app/alert_scheduler.py`, the endpoint in `app/main.py`) | three tables in Supabase, a batch's local variables | overlapping batches, REST requests that fail before or after they were applied, midnight, forced and back-dated runs | `AlertScheduler`, `AlertSchedulerProofs` |
| Agent loop (`app/agent.py`, `app/anthropic.py`) | the conversation, the tool budget, two flags, the event stream | the order of calls, refusals and failures over several messages; a reader that leaves | `AgentTurn`, `AgentProtocol`, `AgentTurnProofs` |
| Mobile research run (`mobile/src/api`, `ResearchRunScreen.tsx`) | session, parser, timers, generation, phase | events and timers of an abandoned run; bodies that end early | `ResearchRun` over `AgentTurn`, `ResearchRunProofs` |
| Mobile device stores (`preferences.ts`, `watchlists.ts`, `recent-searches.ts`, `library-store.ts`, `cache.ts`) | records in AsyncStorage, a copy in memory, write queues | steps between two awaits, failing writes, kills of the app, corrupt records | `Preferences`, `SavedLists` over `ListStore`, `RecentSearches`, `Library`, `DeviceCache` |
| Mobile screens (Lens and its panels, Pulse, Search) | requests in flight, a generation, what is shown | late, aborted and crossing requests; the network going and coming back | `Coordinator`; `ChartPanel`, `LensPanels`, `OverviewPanel`, `PulseScreen`, `SearchBox` |
| Prism store and cache (`app/prism/store.py`, `cache.py`) | JSON files with a `latest` pointer, chat files, Supabase rows | three processes on one directory, crashes between two writes, two tiers | `TempFiles`; `PacketStore`, `ChatStore`, `SeriesCache` |
| Prism and Situate engines (`app/prism/engine.py`, `app/situate/engine.py`, `judgment.py`) | sections of a packet, computed in a pool | sections that fail, come late or read others that change | `WorkerPool`; `PacketBuild` |
| Batches over tickers (`app/main.py`, `app/torque_scan.py`) | jobs of a pool, a stream of rows | completion in any order, a client that leaves | `WorkerPool`; `TickerBatch` |
| Market data (`app/market_data.py`) | TTL caches, a thread-local provider, search slots | fallbacks, stale labels, limits | `MarketData` |
| Massive stream (`app/massive_stream.py`) | a socket, a reconnect counter | errors at every step, refusals | `MassiveStream` |
| SEC client (`app/sec.py`) | a request gate, a pack cache | a miss of several threads at once | `SourcePack` |
| Alert evaluation and materiality (`app/alerts.py`, `app/alert_materiality.py`) | a page of alerts, scores with two expiry times | the order of cap, sort and filter; outages | `AlertDigest`, `Materiality` |
| MCP sites (`app/constellation_mcp.py`, `mcp_lite.py`, `peer_forecast.py`) | minute windows, daily budgets, hop headers, forecasts | sites that relay to one another, midnight, counts without a lock | `Constellation`, `PeerForecast` |
| Citation check (`app/citation_verify.py`) | a memo and a report | a ladder of patterns and parts in an order | `CitationCheck` |
| Torque score and reclassification (`app/torque.py`, `app/reclassification.py`) | a score of six components; stages and targets from three sources | defaults for missing data, numbers from mixed sources | `TorqueScore`, `Reclassification` |
| Browser front end (`app/static/chat.js`, `chat-store.js`, `app.js`, `research.js`) | a thread, a stream, local and remote conversations; a mode, a run, an output panel | sign-in during a turn, migration, runs superseded by runs | `ChatConsole`, `Terminal` |
| Charts, memos, PDFs, HTML, indicators, parsers of filings, the tool page, the Massive REST client, SEC trend | none beyond the request | none that a state machine would show | not modelled (section 8) |

How they interact: the routes admit a request, run an engine in the request's
thread and its pools and store the packet; the agent loop runs in a request's
thread too and calls tools (the same services, in process); clients read its
events over one HTTP response; a cron job calls the alert endpoint; sites call
one another over MCP. No two parts share memory except through these calls, so
they are modelled one by one, and composed where one consumes what another
produces: `ResearchRun` runs an `AgentTurn` as its server, `SavedLists`
implements `ListStore`, the screens share `Coordinator`, the pools
`WorkerPool`, the file stores `TempFiles`.

The machines of section 6 are proved in three modules, over parameters and
variables they share (`Machines`): `StoreMachines` has the stores of the app, the
SEC client, the stream, the MCP sites and the forecasts; `ServerMachines` the
stores, caches, builds and scorers of the server; `ScreenMachines` the screens
and the browser's pages. `MCStores` joins the three for TLC and carries what
they prove to the properties of its run.

## 2. Admission

`Admission` keeps for each handler thread its place and its request (`pc`, `req`), the
client dict `active` and the semaphores `free`, both per worker. A step is the
body of one `with lock` block or one semaphore operation: `AdmitClient` and
`RefuseClient` are `try_acquire_client`, `TakeSlot` and `RefuseBusy` the
non-blocking `acquire`, `Finish` the `finally` that releases the slot, `Leave`
the outer `finally` that releases the client, `RejectTicker` the 400 of the
research route, which happens between them. `Restart(w)` is gunicorn replacing
a worker. Request bodies are assumed well formed: a body that fails validation
is answered before any of this state is touched.

What it promises is `AdmissionPromise`, over the one variable `running`: a
request may start only while its pool has capacity left and, if it has a key,
while its client has nothing else running in that family and worker.
`KeepsPromise` says the counters and semaphores implement that rule.

Run `admission`: two workers, one with two threads, an ordinary client and a
loopback one, capacities 1, 2 and 1 (2, 4 and 2 in the source, for twelve
threads), so that every pool but the chats' can be full while another request
waits; the second worker shows that nothing is shared and that a restart resets
one only. `ClientsCounted` (an entry counts exactly the requests past
admission, on every exit path), `SlotsConserved` (a slot is neither lost nor
released twice), `ClientExclusive` (one request per client over build and chat
together), `RefusalsAreHonest` (a 429 or 503 only while the limit it names is
reached), `KeepsPromise`, and under fairness `Answered` and `CapacityRecovers`.

*Fairness.* `WF_vars(Handle(t))` for each thread: no handler blocks on
admission (`acquire(blocking=False)`), and a build ends because each upstream
call has a timeout and a bounded number of retries. Nothing is assumed about
arrivals or restarts.

*Proved* (`AdmissionProofs`), for any workers, threads, clients, pools and
capacities, from `AdmissionAssumption` (finitely many threads, capacities at
least 1): `TypeCorrect`, `ClientsAlwaysCounted`, `SlotsAlwaysConserved`,
`ClientsExclusive`, `HonestRefusals` and the refinement `PromiseKept`. The
inductive invariant is `TypeOK /\ ClientsCounted /\ SlotsConserved`: counters
and semaphores are tied to the set of threads that hold them, so each step is a
cardinality argument on one set that gains or loses one thread. Exclusiveness
follows from the counting and `ActiveBounded`, which each `AdmitClient` keeps.

## 3. Scheduled alerts

`AlertScheduler` has the tables as functions of rule and day (`runs`,
`delivery`, `logged`), the rules in the order of `updated_at` with their
`last_run_date`, and per batch the local variables of the endpoint's loop. One
action is one REST request or the webhook POST. `Fault` is a request that fails
before or after Supabase applied it, or a worker that dies between two; in the
code any of these ends the batch. The unique index of the migration is
`WriteRun`'s guard and `Conflict`. `posted` is history: what the webhook got.

- `alerts_safety`: two overlapping batches, two rules, two days, forced and
  back-dated runs, one fault anywhere. `DeliveredAtMostOnce`, `DeliveryHasRun`,
  `StatusIsBacked`, `MarkedHasRun`. Two batches are what an overlap needs; a
  second rule lets one batch overtake another; one fault splits any sequence of
  requests at any place, and the batches after it act on what it left.
- `alerts_live`: without faults, one rule per call: `EveryRuleRuns`.
- `alerts_fault_starves` (violated, a bug): a fault between `insert_run` and
  `mark_rule_ran` leaves the rule due with its run row present. Every later
  batch of that day meets it first (oldest `updated_at`), hits the unique index
  and ends, so no other rule runs that day.

*Fairness.* The endpoint keeps being called while a rule is due, a started
batch proceeds because every request has a timeout, and days pass. The shipped
cron is daily, so "keeps being called" is an assumption about retries and
operators; without it the one missed call of a day decides, whatever the code.

*Proved* (`AlertSchedulerProofs`), for any number of rules, days, batches and
faults: `TypeCorrect`, `AtMostOnce`, `DeliveriesHaveRuns`, `StatusesBacked`,
`MarksHaveRuns`. The properties are not inductive by themselves: two batches
could both be about to post. The strengthening is that the run row is a lock:
`Owned` (what a batch between `insert_run` and `mark_rule_ran` knows of its
key), `Alone` (no two batches deliver for one key) and `Untouched` (a key
without a successful run has no delivery, status or post).

## 4. The agent loop

`AgentTurn` models `run_agent_stream` from yield to yield. The model may answer
any prose, any sequence of calls and any stop reason, or fail; a tool succeeds,
fails or raises. `ModelStop` is the end of a message with the checks of the
required first tool; `RefuseOverBudget`, `RefuseUnselected` (with
`ReportRefusal` under the default policy), `CallTool`, `ToolReturns`,
`ToolRaises`, `FailRequired` and `PublishArticle` are the branches of the loop
over the calls; `NextRound` the next message or the iteration limit; `Close`
the server closing the generator when the reader is gone. Tool inputs, prose
and citations are abstracted to the events' types, the call and its outcome.

`AgentProtocol` is what the readers of a stream rely on, over the newest event
only: one `start`, each `tool_call` followed by its own result or by the error
that ends the turn, an `article` only after a tool that succeeded, nothing
after `done` or `error`.

Run `agent_turn` has a turn of the exact policy with a required first tool and
one of the default policy with the article composer; three names of which one
is not selected, three rounds, budget three, up to four calls of a message, so
every limit is reached and passed. `CallsAnswered`: whenever the model is asked
again, the `tool_result` blocks match the `tool_use` blocks in order.
`RequiredFirst` and `OnlySelected`, for which the mobile client rejects a run;
`BudgetHeld`, the refinement `KeepsProtocol`, and `TurnEnds`. `OneTurnSpec` runs
one turn at a time, for turns share nothing (the proofs are about `Spec`, for any
set of turns side by side). The source's limits are larger (16 calls); the loop compares them only
with counts.

*Fairness.* `WF_vars(Work(t))`: the model client has a read timeout and every
tool ends by its upstream timeouts.

*Proved* (`AgentTurnProofs`), for any turns, names, selections and limits:
`TypeCorrect`, `AlwaysAnswered`, `BudgetAlwaysHeld`, `RequiredComesFirst`,
`SelectedOnly`, and the refinement `ProtocolKept`. The invariant has a part per
promise. `Matched` numbers the blocks: answers and pending calls together are
the uses, so an empty queue means everything is answered. `Budgeted` adds
executions and remaining budget. `Progress` gives the phases of the required
tool (not called; its call at the head of the queue or running; succeeded or
failing): the two flags of the code are right only together with the queue and
the budget, which is what makes it worth proving. `Allowed` ties the call in
hand to the selection. `Speaking` ties the place in the loop to the newest
event, and is the refinement's invariant. `Shaped` says it of the whole stream
(`start` first and only first, `done` or `error` last), and `Whole` joins all
parts for the proofs of section 5.

## 5. The mobile research run

`ResearchRun` composes the screen, the NDJSON session and, per run, a turn of
`AgentTurn` (`Server == INSTANCE AgentTurn WITH Turns <- Runs`). The screen has
a phase and a request generation; a session is at its request, its stream, its
fallback, or settled, and has the abort reason, the parser's position and
status; text waits in `pendingText` for the 40 ms timer. The connection may
stall silently, break, or end cleanly at any time, as it does when a proxy or a
worker goes away. An aborted `fetch` rejects some time after the abort, so a
chunk already handed over may be parsed in between. The server may serve a
request whose client has left; only the streaming route notices a reader that
is gone, the folding route works to the end.

- `research_run`: two runs on one screen. `CompletionEarned` (only a turn that
  said `done` after its required tool succeeded can be saved, whole),
  `PartialKept` (a failed or cancelled run shows exactly what it had parsed),
  `OneLiveRun` (no request goes on for a screen that no longer waits for it),
  `LateStaysOut` (nothing late changes the screen). Two runs with one call each
  are the smallest instance in which an abandoned run's session, timers and
  server turn meet a newer run. `NearlyRead` keeps a streaming server at most one
  event ahead of its client; `research_stream` and the proofs have no such bound.
- `research_stream`: one run against turns of two messages: `RunSettles` and
  `NeverRefused` (the client never rejects what this server sends).

*Fairness.* Only JavaScript's timers and the rejection of an aborted fetch.
Nothing is assumed of the server or of the network, so `RunSettles` rests on
the idle timer and on the fallback request's own timer.

*Proved* (`ResearchRunProofs`), for any number of runs and for any server of
which only this is used, that its events grow at the end: `TypeCorrect`,
`OnlyNewestWorks` (`OneLiveRun`), `LateChangesNothing` (`LateStaysOut`) and
`PartialAlwaysKept`. The screen tells a late run by its generation. The
invariant `Alone` says what that relies on: a run whose request is open and
whose generation is the screen's is the newest one, and the screen is
streaming; `Typed` counts the generations, two per run, so that they never
repeat. `Parsed` adds that a run that is over parses no more and that what was
parsed is a prefix of what was sent, which is why a text flushed late is the
text of the run that is shown.

Three further theorems join the two ends of the stream. The turns behind the
runs are those of the agent loop (`TurnsAreAgentTurns`: every step of the
composition is a step of `AgentTurn` or leaves its variables alone), so `Whole`,
proved once for any set of turns, holds of them. `ParserNeverRefuses`
(`NeverRefused`) adds `Following`: until a run settles its parser is at an end
only if the last event it parsed said so. An event that is still unread is then
one the parser takes: the first and a `start`, or neither, and of the selection.
`OnlyWholeRunsComplete` (`CompletionEarned`) shows with it that a run completes
on a `done` of its own turn, with all the prose before it, and `DoneIsEarned`
that a stream ending in `done` has the required tool's success in it. It takes
the server's invariant, the parser's and the screen's generations together;
none of them gives it alone.

## 6. The smaller machines

Twenty-seven further machines are checked together. They share no storage key,
file, row or object, so nothing one does reaches another; `MCStores` is their
sum: a behaviour is a behaviour of one of them, chosen at first from the
constant `InPlay`, and the variables that are not its own stay `None`. Every
machine states its own properties in its own module; `MCStores` joins those
that answer the same question:

| Property of the run `stores` | Question | Parts |
|---|---|---|
| `AcknowledgedIsKept` | does what a store acknowledged survive failures, kills and other calls? | `Library!SavedIsKept`, `Library!ClearIsFinal`, `Preferences!LatestKept`, `Preferences!UnracedPatchKept`, `RecentSearches!SelectionKept`, `PacketStore!AckedIsReadable`, `ChatStore!TurnsKept`, `ChatStore!FileInOrder`, `ChatConsole!ConversationsKept` |
| `MemoryIsDurable` | is what the app shows what its next session reads? | of `Preferences`, `SavedLists`, `RecentSearches` |
| `LimitsHold` | are limits exceeded only by what is half done, and is everything given back? | `Library!OverLimitOnlyByTornSaves`, `DeviceCache!LimitsAtRest`, `MarketData!CachesBounded`, `MarketData!SlotsConserved`, `SourcePack!NothingLeftBehind`, `MassiveStream!SocketsClosed`, `MassiveStream!EventsBounded`, `Constellation!CountsHold` (`BudgetHolds` and the addresses), `PeerForecast!CacheBounded`, `TickerBatch!NothingLeftRunning` |
| `AnswersAreCurrent` | is a reader answered what was acknowledged, no older and not for too long? | `PacketStore!LoadsAreCurrent`, `ChatStore!HistoryIsCurrent`, `SeriesCache!AnswersAreFresh`, `SeriesCache!SetIsServed`, `Materiality!RecoversQuickly`, `PacketBuild!InputsAreFinal` |
| `AnswersAreHonest` | does an answer say what is true of it? | `MarketData!FetchedIsLabelled`, `Constellation!RefusalsAreHonest`, `PeerForecast!RefusalsAreHonest`, `TickerBatch!BatchIsWhole`, `PacketBuild!PacketIsAccounted`, `PacketBuild!ReturnedIsKept`, `Terminal!RecordsAreTrue` |
| `VerdictsAreEarned` | does a verdict rest on all it needs? | `CitationCheck!VerdictsAreEarned`, `AlertDigest!QueueIsFair`, `AlertDigest!NothingWithheld`, `TorqueScore!BuyIsEarned`, `TorqueScore!GrowthNeverHurts`, `Reclassification!StageIsEarned`, `Reclassification!TargetsInOrder` |
| `UpstreamIsSpared` | are other services asked no more than they have to be? | `SourcePack!BuiltOnce`, `SourcePack!RequestsSpaced`, `MassiveStream!RefusalIsFinal`, `Constellation!HopsBounded`, `PeerForecast!ForecastsCapped` |
| `BusyIsReal` | is something under way behind every busy mark, and can the rest be asked for? | `ChatConsole!StopReaches`, `ChartPanel!LoadingIsReal`, `LensPanels!PanelsLoad`, `PulseScreen!VisitGoesOn`, `OverviewPanel!OverviewIsReal`, `SearchBox!SearchIsReal`, `Terminal!LoadingIsReal` |
| `ShowsWhatIsSelected` | does what is shown belong to what is selected? | `ChatConsole!ThreadsUnmixed`, `ChartPanel!ChartIsChosen`, `LensPanels!PanelsFollowRail`, `PulseScreen!RowsAreOfTheList`, `SearchBox!ResultsAreOfTheText`, `Terminal!PanelIsCurrent` |
| `WriteHeals` | does the next write of the cache repair it? | `DeviceCache!WriteHealsStep` |
| `KeepsLists` | do the saved lists implement `ListStore`? | refinement, below |

All of these are safety properties and the machines state no fairness. A run of
one machine alone is a cfg that gives `InPlay` one name. The machines are
instantiated in `StoreMachines`, `ServerMachines` and `ScreenMachines`, which
`MCStores` extends: their parameters are constants there, so that the proofs are
about every value and the cfg gives those of the run. No
machine tells the thread `t1` from `t2`, which is the run's symmetry.

**Device stores.** One step is one request to AsyncStorage with the code up to
the next `await`; a request that fails was not applied, `Kill` ends every call
between two requests and drops memory.
`Library` queues its calls, so what remains is a failure or a kill between
`setItem` and `prune`, and a clock that goes back between sessions; a save that
was acknowledged is listed until `MaxEntries` others displace it.
`DeviceCache` does not queue: several screens' reads, writes, prunes and clears
interleave. Whatever writes, removals and clears interleave, it is within its limits once
all have settled, unless a request failed or a read wrote its touched copy back
(`LimitsAtRest`); a write with no other call beside it repairs what those left,
or, when its prune fails, puts back the item that was there (`WriteHealsStep`).
`Preferences` computes a patch from memory before its write is queued, and
hydrate and reset go round the queue: the newest acknowledged change is in
force and stored even when updates overlap (`LatestKept`), and every
acknowledged one is, over failures and kills, until a later one of its field, as
long as no update overlapped another request (`UnracedPatchKept`).
`RecentSearches` changes memory before it writes; `MemoryIsDurable` excuses the
failed write until the next success, which is what the code provides. Each
selection is stamped with the wall clock (`recent-searches.ts:127`), the screen
shows selections as they were made, and every read sorts them by their stamps
(`:66`). A record is therefore a symbol with its `at`, `Record` takes any stamp, and
`Parsed` is the set of orders a sort, a filter and a cut may give. After a clock
that was set back (`setBack`) the next session shows another order, and the newest
selection may be the first to fall off: `MemoryIsDurable` then promises the same
records but not their order, and `SelectionKept` is about behaviours without it.
`SavedLists` is the detailed form of `ListStore`: hydration with repair of
corrupt records, a retry, a kill and queued operations, refined to a list store
whose lists change by whole operations in the order they were asked for. An
item may hold two lists of one id (nothing in `parseEnvelope` forbids it): a
change is of the first one, a removal of all, as `findIndex` and `filter` do. What a
key has on the disk is absent, corrupt, or a record that `holds` the lists. The
refinement maps its lists to the valid lists on the disk (`ValidLists`), so neither a
repair nor a failed request may be seen in them.

**Screens.** `Coordinator` is `RequestCoordinator` with the generation counter
every screen keeps beside it: a request is a flight that carries the numbers it
began with and lands when it lands, aborted or not. `ChartPanel`, `LensPanels`,
`PulseScreen`, `OverviewPanel` and `SearchBox` are the effects, callbacks and
guards over it. Busy marks and contents are both checked, because the code
discards a late answer by a guard that would, one line further down, also
discard the reset of the busy flag. `ChatConsole` is the browser's console over
both storages of its conversations; each Supabase request is two steps and
whether the visitor is signed in is looked up again before each. A write that the
browser's quota refuses is only logged (`chat-store.js:382-387`), and the append
reports success: `unwritten` has those messages, which `ConversationsKept` and
`SignInForgetsNothing` excuse. `Terminal` is
the browser's main panel: runs by the form, a saved watchlist or an alert rule,
each of which may be superseded by any other, by a change of mode, or by an
opened record. `RecordsAreTrue`: a saved record is filed under the mode that
made it, and an alert run is filed only when its digest was shown.

**Server stores.** `TempFiles` numbers files by the call that made them, since
a name leads to a file but an open handle stays on its own: all workers share
one temporary name per target, and a rename by one may publish another's
unfinished file. Over it `PacketStore` (dated file, `latest.json` rewritten in
place, row) and `SeriesCache` (local file, row, time to live); `ChatStore` is the
read-modify-write of a conversation with its row. Two processes and a lock of
one process only; crashes between any two writes; Supabase may fail.
`MarketData` has the caches with eviction, the fallback from Massive to the
legacy providers for what these support (`OfLegacy`; snapshots, the status and the
data sets without a cache are not among it), the search slots and the thread-local
provider. Responses are labelled in three ways: from the thread-local after the
call, from it before the call (the market status, `main.py:500-505`), and by the
value itself (option chains). `FetchedIsLabelled` is about the first, for values
fetched for the response.
`SourcePack` has the build lock with its second look, the gate that spaces
requests, retries and the Yahoo fallback. `Materiality` remembers successes and
failures for different times and asks Jev outside the lock. `MassiveStream`
is the generator: connect, authenticate, subscribe, read, reconnect a bounded
number of times, a client that leaves at the yield. The back-off sleeps inside the
`except`, so the broken connection stays open until the sleep is over and the
`finally` closes it, before the next is opened (`SocketsClosed`).

**Builds and batches.** `WorkerPool` is `ThreadPoolExecutor` with the wait on
leaving its `with` block. `PacketBuild` has both engines as plans of steps,
each with the sections it reads and fills; any step may fail, and a build may
be forced, unpersisted or answered from a stored packet. `PacketIsAccounted`: a
null section has its reason on the packet, and is null only by a failure of its
own or of what it needs, or because it was not wanted; `InputsAreFinal`: no
section was computed from one that was changed afterwards; `ReturnedIsKept`: what is
returned is what is stored, or the packet says that it is not. `TickerBatch` has
jobs that end in any order, a gathered response and a streamed one.

**MCP sites.** `Constellation` has two sites that may relay to one another, with
the minute window, the daily budget and the hop header. `PeerForecast` spends a
daily budget whose day is UTC while the forecast's day is the server's; time
passes in half days, so midnights of both clocks occur.

**Verdicts.** `CitationCheck` is the ladder of patterns and lookups with its
early returns; a citation the patterns know is verified only if the report says
what it cites, a mismatch only if it says something else or gives no date,
missing only if it says nothing of it.
`AlertDigest`: an alert that fired is left out only as immaterial or because the
page is full of more severe ones or better rows (`QueueIsFair`), and a webhook is
kept from a digest only for that reason (`NothingWithheld`). `TorqueScore`: a BUY
rests on filings that were read, revenue that does not fall and a chart that is
not overheated; faster growth, given in the same way, never lowers the total.
`Reclassification`: each stage has the signs its name stands for, whatever mix of
sources the numbers came from; the three targets are in order unless revenue
shrinks. Those four run from an enumerated input to its result; their depth is in
the inputs, which combine sources, missing parts and boundaries.

*Bounds.* Two threads, in two processes where processes matter (three threads
where two of one process have to meet one of another), two or three keys, and
limits of one or two, so that every limit is met with something displaced. Two
to six calls (`MaxCalls`): a race is two overlapping calls and a third that
reads what they left; the screens get more because a choice, its answer, a second
choice and the network each take one. One or two faults (`MaxFaults`), placed
anywhere; a second is needed where a repair can fail too. Time stops at the
first instant at which nothing remembered is valid any more. A deadlock is
allowed in `stores` because the bounds on calls and faults end behaviours. Where one key or
one caller shows every race it is one (the SEC client's filer, the sites' caller).

*Where a promise is withdrawn.* Some promises cannot hold in this code: two
workers saving the same packet through one temporary name, an overlapping
update of the preferences, an append to a conversation from another worker, a
sign-out during the migration, a message the browser's quota refuses, recent
selections after the clock was set back, a set of a cache entry that overlaps
another, two threads of a site that count at once.
The modules keep history variables (`raced`, `torn`, `excused`, `unwritten`,
`setBack`, `strayed`,
`kept` set to `None`) that mark exactly these, the properties exclude them, and
`hazards` in `PROJECT.json` says so at the line. Where the code ends such a
state by its next undisturbed call, the mark ends with that call, so that it
does is part of the property.

*External*, modelled from how the code uses it: AsyncStorage and localStorage,
Supabase over REST, `fetch` and aborts, web sockets, `ThreadPoolExecutor`, file
renames, market data providers, Jev, the model, another site's tools.

*Proved.* All twenty-seven machines, each for every value of its parameters: any
threads, processes, sites, keys, sizes, limits, calls, faults and times, any
memos, rows, filings and stories. Few of the properties are inductive; what each
invariant adds is the reason the code is right.

| Theorem of `StoreMachines` | Says of the specification | The invariant and why |
|---|---|---|
| `LibraryKept` | `TypeOK`, `SavedIsKept`, `ClearIsFinal`, `OverLimitOnlyByTornSaves` | `LibInv`: the queue holds calls in the order of their numbers; `LibFresh`: unless the clock went back, what is being saved was accessed after all else, so a prune never takes it; `LibLimit` allows one record more while a save is under way |
| `CacheKept` | `TypeOK`, `LimitsAtRest` (about behaviours with a write and with no read or failure), `WriteHealsStep` (about all) | `CacHeals`: without reads and failures the disk is within its limits or some write has still to measure it (`CacPending`). For a call alone, `CacLone`: what it has measured is what is there, and what it replaced is remembered for its rollback |
| `SettingsKept` | `TypeOK`, `MemoryIsDurable`, `LatestKept`, `UnracedPatchKept` | `SettingsInv`: what `update` computed and queued still has the patch it was asked for, whatever ran since; and unless calls raced, at most one write is queued and it is memory with that one patch |
| `ListsKept` | `TypeOK`, refinement of `ListStore`, `MemoryIsDurable` | `ListsInv`: once read, memory is the disk's valid lists, operations are queued only then, and no list is ever empty or too long |
| `RecentsKept` | `TypeOK`, `MemoryIsDurable` (the order unless stamped out of it), `SelectionKept` (while the clock is not set back) | `RecentsInv`: the newest queued write is of what memory is. `Sorts` and `ParsedKeeps`: every way to sort, filter and cut keeps the newest record of each symbol, and a list that is in time order is read as it is (`SortedInTime`). `RecentsStand` is about every copy at once: on the device, in memory and in each queued write an acknowledged symbol is there behind later selections only, or as many as are kept were selected after it; so is what a queued write will acknowledge in all writes behind it |
| `StreamKept` | `TypeOK`, `SocketsClosed`, `EventsBounded`, `RefusalIsFinal` | `StreamInv`: there is one open socket exactly inside the `try`, and at most one in the sleep of its `except`; an event is only ever added below the limit |
| `SourcesKept` | `TypeOK`, `BuiltOnce`, `RequestsSpaced`, `NothingLeftBehind` | `SourcesInv`: `GateHeld` (who is at the gate owns it and has slept, or will, for the rest of the interval), `OneStage` (the lookup and the parts are never under way at once, and neither without a builder) |
| `ForecastsKept` | `TypeOK`, `ForecastsCapped`, `RefusalsAreHonest`, `CacheBounded` | `ForecastsInv`: `BudgetTold` (what was granted on the budget's day is what it says was spent; nothing is granted on days to come, nor today before the budget is of today); `CacheSmall` counts keys through the eviction (`RoomMade`) |
| `SiteKept` | `TypeOK`, `HopsBounded`, `CountsHold`, `RefusalsAreHonest` | `SiteInv`: for a site whose threads never spent at once, `DayFine` ties the two cells of its budget to the calls granted, at each of the four places between reading the day and storing the sum, with midnight between any two; `CountsFine` does the same for the minutes of an address |

| Theorem of `ServerMachines` | Says of the specification | The invariant and why |
|---|---|---|
| `PacketsKept` | `TypeOK`, `AckedIsReadable`, `LoadsAreCurrent` | `PacInv`: a number is of one save, so a handle leads to one file (`PacHolds`); a save alone on its day owns the temporary name and is newer than what is kept (`PacAlone`); a load has the day it was promised still before it, by name or among those to try (`PacLoads`) |
| `ChatKept` | `TypeOK`, `TurnsKept`, `FileInOrder`, `HistoryIsCurrent` | `ChaInv`: what an undisturbed append is about to write has the kept turns at its end (`Tops`), though the file is empty meanwhile |
| `SeriesKept` | `TypeOK`, `AnswersAreFresh`, `SetIsServed` | `SerInv`: every entry carries the time it was set; an undisturbed set is the only writer (`SerAlone`), and what it left is there until the next one or expires (`SerKept`) |
| `MarketKept` | `TypeOK`, `FetchedIsLabelled`, `CachesBounded`, `SlotsConserved` | `MarketInv`: a thread that fetched for a response that is labelled after its call was the last to set its label; slots and searches under way add up, counted as sets |
| `MaterialityKept` | `TypeOK`, `RecoversQuickly` | `MatInv`: an entry of a failure is dated by the call that asked |
| `BuildKept` | `TypeOK`, `PacketIsAccounted`, `InputsAreFinal`, `ReturnedIsKept` | `BuildInv`: an item is set at its place of the engine's order (`BuildSet`), what it reads was final before (`BuildSaw`), what is null has a cause that the packet tells (`BuildLost`) |
| `BatchKept` | `TypeOK`, `BatchIsWhole`, `NothingLeftRunning` | `BatchInv`: a job is taken once, after it ended, and what was taken has its place, its error or its event |
| `CitationsKept` | `TypeOK`, `VerdictsAreEarned` | `CitationsInv`: each check is earned by the report when it is made and the report stays; the lemmas are about the operators of the ladder and the lookups |
| `AlertsKept` | `TypeOK`, `QueueIsFair`, `NothingWithheld` | `AlertsInv`: the page holds alerts that fired, none twice, before all others. `Before` is a strict order of a finite set, so `Sorted` is a sequence of all of it |
| `TorqueKept` | `TypeOK`, `BuyIsEarned`, `GrowthNeverHurts` | `TorqueInv`: the variables hold the functions of the input; each component is bounded on its own, the monotone ones carry `GrowthNeverHurts`, and the theorem adds them up with their weights |
| `ReclassKept` | `TypeOK`, `StageIsEarned`, `TargetsInOrder` | `ReclassInv`: as above; the signals that any mix of sources can give are bounded, the stage chosen is one that was reached, and the three targets are compared with their products as unknowns |

| Theorem of `ScreenMachines` | Says of the specification | The invariant and why |
|---|---|---|
| `ConsoleKept` | `TypeOK`, `StopReaches`, `ThreadsUnmixed`, `ConversationsKept` | `ConInv`: unless the visitor strayed, one turn runs and the page, each save and each migration are of one topic per conversation (`ConThreads`); `ConRemembers`: unless raced, there is one migration, of a visitor signed in, and what it has not copied it has still to copy. `StopReaches` and `ThreadsUnmixed` say nothing once `strayed`, `ConversationsKept` excuses limits, races and what the quota refused (`ConReported`) |
| `TerminalKept` | `TypeOK`, `LoadingIsReal`, `PanelIsCurrent`, `RecordsAreTrue` | `TermInv`: the run that is shown has one flight, made in the mode that is shown; each write still on its way is of what was shown |
| `ChartKept`, `LensKept`, `PulseKept`, `OverviewKept`, `SearchKept` | `TypeOK` and the two properties of each | in each: a request that would still be heeded was made for what is chosen now, its generation is not ahead of the screen's, and a screen that is busy has one |

In `MCStores` these become theorems about the run: `Starts` and `Steps` say that
a behaviour is one of the machine chosen, `MachinesInv` joins the invariants
by the machine that runs, and each property of the run follows:
`StoresStayTyped`, `AcknowledgedKept`, `StoresAreDurable`, `LimitsKept`,
`AnswersStayCurrent`, `AnswersStayHonest`, `UpstreamSpared`,
`VerdictsStayEarned`, `ScreensAreBusy`, `ScreensFollow`, `WritesHeal` and
`ListsAreKept`. So every invariant and every action property of the run `stores`
is proved. Of the constants the proofs use only each machine's own
assumption (what a record is not, which limits are positive, which sets are
finite), all of which the run evaluates for its instance.

What the proofs found about the models, which now say it as the code does: in
`RecentSearches` a write that settled was taken to acknowledge the newest
selection of its symbol instead of the one it was made for, and a symbol to
displace itself, which shows from the fourth selection on (the run has three, the
proof any number);
`ListStore` took the id of a list for unique; an empty list was possible.
Elsewhere a model could not be reasoned about and was said otherwise: sorted
sequences of days, keys and alerts by the order they follow, sums of sizes as a
number of bytes, an address's minutes as the last minute and its calls.

## 7. Where the code and its words disagree

Each of these is a run whose one property states the documented promise and
which TLC finds violated:

| Run | Property | What happens |
|---|---|---|
| `alerts_fault_starves` | `EveryRuleRuns` | `docs/api.md:624` "Run saved daily alert rules"; a fault after `insert_run` (`main.py:3304`) stops the day for the rule and for all behind it |
| `cache_clear` | `ClearedStaysCleared` | `SettingsScreen.tsx:73` "Saved charts and research were cleared"; a read that began before writes its copy back (`cache.ts:176`) |
| `chat_migration` | `SignInForgetsNothing` | `chat-store.js:8-12`, `docs/agent.md:97` promise that signing in loses nothing; of up to 100 local conversations 25 are copied and all are removed (`chat-store.js:315`) |
| `citation_jev` | `FieldlessNeverVerified` | `citation_verify.py:511-515` "never a wrong verified result"; a label without fields is verified by any section (`:982`) |
| `market_label` | `LabelNamesSource` | `docs/provider-research.md:25-26` "must still identify the provider ... actually used"; a cached value is labelled with the thread's last provider (`market_data.py:573`), the market status with the provider of the request before (`main.py:500-505`) |

Met while modelling, without a run of their own:

- *Alerts.* A digest whose `insert_delivery` fails was posted and stays unlogged
  (`README.md:456-457`). A manual run suppresses the day's scheduled one. The
  materiality filter comes after the cap, so immaterial alerts can crowd out a
  material one; the digest's tickers and next steps are read from rows whose
  alerts were dropped.
- *Admission.* `docs/prism.md:378` says a 429 means "this client already has a
  build in flight"; a chat of that client causes it too (`prism/routes.py:274`).
  `docs/api.md:715-716` limits Situate to "one in-flight build per non-loopback
  client"; loopback callers share one key there, as on the Prism routes, and are
  refused like any client (`prism/routes.py:76`).
- *Mobile.* The chart's title after 15m and then 1D names one period and shows
  another. A focus that crosses the return of the network leaves Pulse's Retry
  disabled until the next focus. A patch of the preferences that overlaps
  another is computed from memory before it and undoes it, which "Persist a
  patch" (`preferences.ts:91`) does not say.
- *Console.* Signing out during the migration wipes what was not copied yet; a
  second submit while `createChat` is awaited runs beside the first; opening
  another conversation during a stream mixes the two. When the quota is reached the
  warning says that "older conversations may be dropped" (`chat-store.js:386`); what
  is dropped is the newest message, and its append succeeds.
- *Recent searches.* The order on the screen is that of the selections, the order of
  the next session that of the wall clock's stamps (`recent-searches.ts:66`).
- *Terminal.* A superseded saved cockpit still reports "Cockpit loaded."; a
  superseded manual alert run stays out of the inbox only because its null
  payload is dereferenced (`research.js:657`); the torque scan's title stays
  "Scanning…" after a stream that broke or ended early, and the early end is no
  error; a record of an unknown mode is re-saved under the current one; Enter
  bypasses the disabled Save; lists load out of order and stay visible after a
  sign-out through the account menu; Save is enabled again in the middle of an insert.
- *Tool page.* No generation of runs: an opened record is overwritten by a
  Vision stream that ends later; the memo PDF takes its ticker from the form; a
  stream without `done` stays "Streaming".
- *Engines.* When the universe fails, fundamentals use the vendor's price and
  levels the history's last close, against the comment of `engine.py` that there
  is one price. The provider label set in a pool's threads never reaches the
  request's thread. A degraded packet is stored and served for the day.
- *MCP.* The per-process caps of `docs/mcp.md:270` are exceeded by overlapping
  threads; sites whose thread pools wait for one another end by the 25 s timeout.
- *Model streams.* One that ends without `message_stop` is taken for an answer
  (`anthropic.py:220`).
- *Citations.* "Item 1" is verified by "Item 1A"; an 8-K whose first entry of
  that item has another date is a mismatch even if a later entry agrees; an
  undated search result mismatches a cited date; with nothing checkable the
  percentage is 100.
- *Torque.* A downtrend's chart component (24) falls in the band labelled
  "Extended"; a BUY SETUP needs no fundamentals (65); growth of exactly 0 counts
  as absent; numbers up to 5 are taken for fractions.
- *Reclassification.* It reads keys `sec_trend.py` never writes, so stage 3 is
  unreachable with real packs; a missing trend pack counts as available, so
  "hold stage low" (line 807) is skipped; the deceleration half of stage 5's
  condition is dead; targets are out of order when growth is negative; a profile's
  margins are not consulted when the facts have revenue and shares but no
  operating income; revenue and costs may come from different sources.
- *SEC trend.* `start` is unused, so year-to-date rows and comparatives can be
  taken for a quarter or year and spoil Q4; "four quarters ago" counts
  positions; metadata depends on the iteration order of a set.

## 8. What is not shown

- Liveness (`Answered`, `CapacityRecovers`, `EveryRuleRuns`, `TurnEnds`,
  `RunSettles`) is model-checked only, on the instances above: it is out of the
  proof system's reach. Every invariant and action property that a passing run
  checks is proved.
- That nothing one of the smaller machines does reaches another is how they are
  modelled, by the keys, files and rows they use, and not a theorem.
- About a tenth of the lines of the implementation are mapped. The larger part of the rest
  computes or renders: charts, memos and PDFs, HTML, indicators, scenario
  tables, parsers of filings. They keep no state, run start to end in one
  thread, and have unit tests; a state machine of them would repeat the code.
- SEC trend is not modelled: its result depends on which rows EDGAR lists per
  fact and in what order, which the repository does not pin down. The Massive
  REST client is one request with retries, JSON-RPC parsing is pure, and the tool
  page is listed under findings only.
- Components with status `partly` leave out what their note says: for the
  engines the content of sections, for the Flask application the routes
  without shared state, for the browser the tool page and the rendering.

## 9. What could come next

1. The tool page (`tools.js`) as a machine beside `Terminal`: its runs have no
   generation, so what is promised has to be chosen first.
2. The content of packets: which number a section shows when its sources
   disagree, as `Reclassification` does for one of them.
3. SEC trend, once the order of EDGAR's rows is fixed by a fixture.

## 10. Files and how to run them

    tlc -workers 2 -config MCAdmission.cfg AdmissionProofs
    tlc -workers 2 -config MCAlertsSafety.cfg AlertScheduler
    tlc -workers 2 -config MCStores.cfg MCStores
    tlapm AdmissionProofs.tla

| Run | cfg, module | Distinct states |
|---|---|---|
| `admission` | `MCAdmission.cfg`, `AdmissionProofs` | 17,725 |
| `alerts_safety`, `alerts_live`, `alerts_fault_starves` | `MCAlertsSafety.cfg`, `MCAlertsLive.cfg`, `MCAlertsStarve.cfg`, `AlertScheduler` | 2.9 M, 73,101, until the counterexample |
| `agent_turn` | `MCAgentTurn.cfg`, `AgentTurn` | 137,427 |
| `research_run`, `research_stream` | `MCResearchRun.cfg`, `MCResearchStream.cfg`, `ResearchRun` | 1.6 M, 41,093 |
| `stores` | `MCStores.cfg`, `MCStores` | 910,020 |
| `cache_clear`, `citation_jev` | `MCDeviceCacheClear.cfg`, `MCCitationJev.cfg`, `MCStores` | until the counterexample |
| `chat_migration` | `MCChatMigration.cfg`, `ChatConsole` | until the counterexample |
| `market_label` | `MCMarketLabel.cfg`, `MarketData` | until the counterexample |

The three largest take one to two minutes, the others seconds. Theorems are in
`AdmissionProofs`, `AlertSchedulerProofs`, `AgentTurnProofs`,
`ResearchRunProofs`, `StoreMachines`, `ServerMachines`, `ScreenMachines` and
`MCStores`; from nothing, the larger three take six to fifteen minutes each. `PROJECT.json` names,
for every definition that models code, the lines it stands for; for every
property of the runs a mutation of the code that violates it; and the hazards of the
code with the properties that watch them.
