------------------------------- MODULE MCStores -------------------------------
(***************************************************************************)
(* The smaller machines under TLC: five stores and five screens of the     *)
(* mobile app, seven stores and caches of the server, the browser's        *)
(* console and terminal, the relay between MCP sites, the forecast budget, *)
(* the ticker batches, the packet builds, and four scorers: citations,     *)
(* alerts, torque, reclassification.  Those of the app share the device's  *)
(* storage but no key of it, those of the server no file, row or object,   *)
(* so nothing one does reaches another: a behaviour of this module is one  *)
(* of one of them, chosen at first, and the variables of the others stay   *)
(* out of it.                                                              *)
(***************************************************************************)
EXTENDS ServerMachines, StoreMachines, ScreenMachines, TLC

CONSTANTS
  a, b, c,                  \* ids, keys, symbols and fields
  v, w,                     \* values and names
  t1, t2, t3, p1, p2,       \* the server's threads and processes
  InPlay                      \* the machines of this run

VARIABLE store    \* the machine that runs

(* Values for the parameters of ServerMachines, StoreMachines and          *)
(* ScreenMachines, small enough for TLC.                                   *)
FirstName == (a :> v) @@ (b :> v)
OneList == {<<[id |-> a, name |-> v, symbols |-> {a}]>>}
Stamped(s, n) == [symbol |-> s, at |-> n]
SomeRecents == {<<>>, <<Stamped(b, 1), Stamped(a, 0), Stamped(b, 0)>>, <<Stamped(a, 0), Stamped(b, 1)>>}
TwoSites == (t1 :> "here") @@ (t2 :> "here") @@ (t3 :> "hub")
PeriodOfInterval == [i \in {"15m", "1d"} |-> IF i = "15m" THEN "5d" ELSE "3mo"]
GlanceDaily == {<<"glance", "1d">>}

ScoredFilings ==
  [available : BOOLEAN, accelerating : BOOLEAN, yoy : {None, -10, 9, 1200}, accelYoy : {None},
   qoq : {None, -10}, margin : {None, 80}, leverage : {None}, label : {"high", ""},
   marginGoes : {"up"}, revenueGoes : {"up"}]
ScoredProfiles == [multiple : {None, 10, 90}, midCap : {TRUE}, industry : {"stale", "hot", ""}]
ScoredCharts ==
  {[perf3 |-> x, perf6 |-> y, rsi |-> z, over50 |-> 100, over52 |-> 80] :
     x \in {30, 150}, y \in {None, 40}, z \in {None, 60, 85}}

NamedFilings ==
  [status : {"available", "unavailable"}, accelerating : BOOLEAN,
   revenue : {10}, operating : {None, 5}, shares : {None}, implied : {None, 1}]
NamedProfiles ==
  [revenue : {None, 8}, gross : {None, 60}, operating : {None, 20}, shares : {None, 1},
   growth : {None, -10, 9, 30}, midCap : {TRUE}, stale : {TRUE}]
NamedCharts == [perf1 : {None, -20}, perf3 : {None, 50}]
SomeGrowths == {-5, 9, 24, 49, 90}
SomeStories ==
  [evidence : {1}, product : {FALSE}, mentions : {0}]
  \cup [evidence : {3, 6}, product : {TRUE}, mentions : {0, 5}]

OrderOfTwo == (a :> 1) @@ (b :> 2)

(* No machine tells t1 from t2.                                            *)
Interchangeable == Permutations({t1, t2})

OneOfTwo == (a :> 1) @@ (b :> 2)
TwoOfThree == (a :> 2) @@ (b :> 3)
CorruptOne == {(a :> "corrupt") @@ (b :> "none")}
EachAlone == [t \in {t1, t2} |-> t]
OneAndTwo == (t1 :> p1) @@ (t2 :> p1) @@ (t3 :> p2)

Asked(force, persist, written, past) ==
  [force |-> force, persist |-> persist, memo |-> written, past |-> past]

ThreeWishes ==
  {Asked(FALSE, TRUE, TRUE, FALSE), Asked(TRUE, TRUE, TRUE, TRUE), Asked(FALSE, FALSE, FALSE, TRUE)}

(* A memo's citations, one at a time or two, and reports that differ from  *)
(* an empty one in one part; b's text holds a's.                           *)
Text(shape, form, name, value) == [shape |-> shape, form |-> form, name |-> name, value |-> value]

Texts ==
  {Text("xbrl", None, n, x) : n \in {a, b}, x \in {1000, 1004, 1006}}
  \cup {Text("trend", None, a, x) : x \in {1000, 1006, v}}
  \cup {Text("filing", f, n, x) : f \in {"8-K", "10-K"}, n \in {a, b}, x \in {None, 1000}}
  \cup {Text("8-K", "8-K", n, x) : n \in {a, b}, x \in {None, 1000}}
  \cup {Text("exa", None, n, x) : n \in {a, b}, x \in {None, 1000}}
  \cup {Text("calendar", None, None, None), Text("other", None, None, None)}

Parts(of) == {<<>>} \cup {<<x>> : x \in of} \cup {<<x, y>> : x, y \in of}

EmptyReport ==
  [facts |-> [n \in Named |-> None], metrics |-> [n \in Named |-> None], path |-> [n \in Named |-> None],
   citations |-> <<>>, sections |-> <<>>, earnings |-> <<>>, calendar |-> FALSE, exa |-> <<>>]

Values(x, y) == (a :> x) @@ (b :> y) @@ (c :> None)
Value == {None, 1000, 1006}
Date == {None, 1000, 1006}

SomeReports ==
  {None, [EmptyReport EXCEPT !.calendar = TRUE]}
  \cup {[EmptyReport EXCEPT !.facts = Values(x, y), !.metrics = Values(y, None)] : x, y \in Value}
  \cup {[EmptyReport EXCEPT !.path = Values(x, None)] : x \in Value \cup {v}}
  \cup {[EmptyReport EXCEPT !.citations = k] :
           k \in Parts([form : {"8-K", "10-K"}, item : {a, b}, filed : Date])}
  \cup {[EmptyReport EXCEPT !.sections = k, !.earnings = <<[item |-> n]>>] :
           k \in Parts([item : {a, b}, filed : Date]), n \in {a, b}}
  \cup {[EmptyReport EXCEPT !.exa = k] : k \in Parts([domain : {a, b}, date : Date])}

SomeMemos == {<<x>> : x \in Texts} \cup {<<Text("calendar", None, None, None), x>> : x \in Texts}
OneInside == {<<a, b>>}
OwnAndInside == (a :> <<a, b>>) @@ (b :> <<b>>) @@ (c :> <<c>>)

(* Rows as cockpit.py lanes them: Priority from 45 up, Risk from -18 down. *)
Row(score, lane, short, long, ridge, auction) ==
  [score |-> score, lane |-> lane, short |-> short, long |-> long, ridge |-> ridge,
   auction |-> auction, volatile |-> FALSE]

SomeRows ==
  {Row(50, "Priority", FALSE, TRUE, None, None), Row(-20, "Risk", TRUE, TRUE, "SELL", None),
   Row(10, None, FALSE, TRUE, "BUY SETUP", "below value"), Row(45, "Priority", FALSE, FALSE, "BUY", "above value"),
   [Row(10, None, FALSE, FALSE, None, None) EXCEPT !.volatile = TRUE]}

OneOrTwoRows == {<<x>> : x \in SomeRows} \cup {<<x, y>> : x, y \in SomeRows}

-----------------------------------------------------------------------------
(* Variables that are not the store's own are None and stay so.            *)
Absent(x, owners) == store \notin owners => x = None
Same(x, owners) == store \notin owners => UNCHANGED x

Screens == {"chart", "lens", "pulse", "overview", "search"}
Panels == Screens \cup {"terminal"}
Pages == {"console", "terminal"}
OwnDisk == {"library", "cache", "settings", "lists", "recents"}
OwnClock == {"library", "cache", "series", "materiality", "site", "forecast"}
OwnQueue == {"library", "settings", "lists", "recents"}
OwnCalls == {"library", "settings", "lists", "recents", "packets", "chat", "series", "market", "materiality", "sources", "console",
  "site", "forecast"} \cup Panels
OwnCleared == {"library", "cache"}
OwnAcked == {"library", "recents"} \cup Pages
OwnFaults == {"library", "cache", "settings", "lists", "recents", "packets", "chat", "series"}
OwnTask == {"cache", "packets", "chat", "series", "market", "materiality", "sources", "site", "forecast"}
OwnMemory == {"settings", "lists", "recents"}
OwnKept == {"settings", "packets", "chat", "series", "build"}
OwnTmp == {"packets", "series"}
OwnFile == {"packets", "chat", "series"}
OwnRemote == OwnFile \cup Pages
OwnRaced == {"settings", "console", "site"}
OwnCache == {"market", "materiality", "forecast"}
OwnDay == {"site", "forecast"}
Pools == {"batch", "build"}
OwnAt == {"stream"} \cup Pools
OwnSlots == {"market", "batch"}
Scores == {"torque", "reclass"}
OwnNet == {"chart", "overview"}

Init ==
  /\ store \in InPlay
  /\ \/ store = "library" /\ Library!Init
     \/ store = "cache" /\ Cache!Init
     \/ store = "settings" /\ Settings!Init
     \/ store = "lists" /\ Lists!Init
     \/ store = "recents" /\ Recents!Init
     \/ store = "packets" /\ Packets!Init
     \/ store = "chat" /\ Chat!Init
     \/ store = "series" /\ Series!Init
     \/ store = "market" /\ Market!Init
     \/ store = "materiality" /\ Materiality!Init
     \/ store = "sources" /\ Sources!Init
     \/ store = "stream" /\ Stream!Init
     \/ store = "console" /\ Console!Init
     \/ store = "chart" /\ Chart!Init
     \/ store = "lens" /\ Lens!Init
     \/ store = "pulse" /\ Pulse!Init
     \/ store = "overview" /\ Overview!Init
     \/ store = "search" /\ Search!Init
     \/ store = "terminal" /\ Term!Init
     \/ store = "build" /\ Build!Init
     \/ store = "batch" /\ Batch!Init
     \/ store = "forecast" /\ Forecasts!Init
     \/ store = "site" /\ Site!Init
     \/ store = "citations" /\ Citations!Init
     \/ store = "alerts" /\ Alerts!Init
     \/ store = "torque" /\ Torque!Init
     \/ store = "reclass" /\ Reclass!Init
  /\ Absent(disk, OwnDisk)
  /\ Absent(clock, OwnClock)
  /\ Absent(lastAccessAt, {"library"}) /\ Absent(stage, {"library"}) /\ Absent(saved, {"library"})
  /\ Absent(torn, {"library"}) /\ Absent(moved, {"library"})
  /\ Absent(queue, OwnQueue)
  /\ Absent(calls, OwnCalls)
  /\ Absent(cleared, OwnCleared)
  /\ Absent(acked, OwnAcked)
  /\ Absent(faults, OwnFaults)
  /\ Absent(started, {"cache"}) /\ Absent(alone, {"cache"}) /\ Absent(before, {"cache"})
  /\ Absent(task, OwnTask)
  /\ Absent(memory, OwnMemory) /\ Absent(hydration, OwnMemory)
  /\ Absent(resets, {"settings"}) /\ Absent(last, {"settings"}) /\ Absent(raced, OwnRaced)
  /\ Absent(kept, OwnKept)
  /\ Absent(waiting, {"recents"}) /\ Absent(chosen, {"recents"}) /\ Absent(dirty, {"recents"}) /\ Absent(setBack, {"recents"})
  /\ Absent(tmp, OwnTmp) /\ Absent(content, OwnTmp)
  /\ Absent(file, OwnFile) /\ Absent(remote, OwnRemote)
  /\ Absent(pointer, {"packets"})
  /\ Absent(stamp, {"series"})
  /\ Absent(cache, OwnCache)
  /\ Absent(label, {"market"}) /\ Absent(slots, OwnSlots)
  /\ Absent(tried, {"materiality"})
  /\ Absent(packs, {"sources"}) /\ Absent(builder, {"sources"}) /\ Absent(work, {"sources"})
  /\ Absent(responses, {"sources"}) /\ Absent(gate, {"sources"}) /\ Absent(nap, {"sources"})
  /\ Absent(since, {"sources"}) /\ Absent(crowded, {"sources"}) /\ Absent(rebuilt, {"sources"})
  /\ Absent(at, OwnAt) /\ Absent(attempts, {"stream"}) /\ Absent(emitted, {"stream"})
  /\ Absent(frame, {"stream"}) /\ Absent(sockets, {"stream"}) /\ Absent(refused, {"stream"})
  /\ Absent(sent, {"stream"})
  /\ Absent(local, {"console"}) /\ Absent(born, {"console"}) /\ Absent(user, Pages)
  /\ Absent(migrated, {"console"}) /\ Absent(moves, {"console"}) /\ Absent(saves, Pages)
  /\ Absent(excused, {"console"}) /\ Absent(unwritten, {"console"}) /\ Absent(view, {"console"}) /\ Absent(turns, {"console"})
  /\ Absent(opening, {"console"}) /\ Absent(strayed, {"console"})
  /\ Absent(shown, Panels) /\ Absent(line, Panels) /\ Absent(flights, Panels)
  /\ Absent(net, OwnNet) /\ Absent(world, {"pulse"}) /\ Absent(timer, {"search"})
  /\ Absent(wire, {"site"}) /\ Absent(seen, {"site"}) /\ Absent(admitted, {"site"})
  /\ Absent(day, OwnDay) /\ Absent(granted, OwnDay) /\ Absent(jobs, Pools)
  /\ Absent(mode, {"batch"}) /\ Absent(ready, {"batch"}) /\ Absent(errors, {"batch"}) /\ Absent(events, {"batch"})
  /\ Absent(engine, {"build"}) /\ Absent(wish, {"build"}) /\ Absent(item, {"build"}) /\ Absent(told, {"build"})
  /\ Absent(status, {"build"}) /\ Absent(sight, {"build"}) /\ Absent(failed, {"build"})
  /\ Absent(report, {"citations"}) /\ Absent(memo, {"citations"}) /\ Absent(checks, {"citations"}) /\ Absent(gauge, {"citations"})
  /\ Absent(rows, {"alerts"}) /\ Absent(limit, {"alerts"}) /\ Absent(page, {"alerts"})
  /\ Absent(floor, {"alerts"}) /\ Absent(digest, {"alerts"}) /\ Absent(posted, {"alerts"})
  /\ Absent(filing, Scores) /\ Absent(profile, Scores) /\ Absent(chart, Scores)
  /\ Absent(result, Scores) /\ Absent(story, {"reclass"})

Next ==
  /\ UNCHANGED store
  /\ \/ store = "library" /\ Library!Next
     \/ store = "cache" /\ Cache!Next
     \/ store = "settings" /\ Settings!Next
     \/ store = "lists" /\ Lists!Next
     \/ store = "recents" /\ Recents!Next
     \/ store = "packets" /\ Packets!Next
     \/ store = "chat" /\ Chat!Next
     \/ store = "series" /\ Series!Next
     \/ store = "market" /\ Market!Next
     \/ store = "materiality" /\ Materiality!Next
     \/ store = "sources" /\ Sources!Next
     \/ store = "stream" /\ Stream!Next
     \/ store = "console" /\ Console!Next
     \/ store = "chart" /\ Chart!Next
     \/ store = "lens" /\ Lens!Next
     \/ store = "pulse" /\ Pulse!Next
     \/ store = "overview" /\ Overview!Next
     \/ store = "search" /\ Search!Next
     \/ store = "terminal" /\ Term!Next
     \/ store = "build" /\ Build!Next
     \/ store = "batch" /\ Batch!Next
     \/ store = "forecast" /\ Forecasts!Next
     \/ store = "site" /\ Site!Next
     \/ store = "citations" /\ Citations!Next
     \/ store = "alerts" /\ Alerts!Next
     \/ store = "torque" /\ Torque!Next
     \/ store = "reclass" /\ Reclass!Next
  /\ Same(disk, OwnDisk)
  /\ Same(clock, OwnClock)
  /\ Same(<<lastAccessAt, stage, saved, torn, moved>>, {"library"})
  /\ Same(queue, OwnQueue)
  /\ Same(calls, OwnCalls)
  /\ Same(cleared, OwnCleared)
  /\ Same(acked, OwnAcked)
  /\ Same(faults, OwnFaults)
  /\ Same(<<started, alone, before>>, {"cache"})
  /\ Same(task, OwnTask)
  /\ Same(<<memory, hydration>>, OwnMemory)
  /\ Same(<<resets, last>>, {"settings"})
  /\ Same(raced, OwnRaced)
  /\ Same(kept, OwnKept)
  /\ Same(<<waiting, chosen, dirty, setBack>>, {"recents"})
  /\ Same(<<tmp, content>>, OwnTmp)
  /\ Same(file, OwnFile)
  /\ Same(remote, OwnRemote)
  /\ Same(pointer, {"packets"})
  /\ Same(stamp, {"series"})
  /\ Same(cache, OwnCache)
  /\ Same(label, {"market"})
  /\ Same(slots, OwnSlots)
  /\ Same(tried, {"materiality"})
  /\ Same(<<packs, builder, work, responses, gate, nap, since, crowded, rebuilt>>, {"sources"})
  /\ Same(at, OwnAt)
  /\ Same(<<attempts, emitted, frame, sockets, refused, sent>>, {"stream"})
  /\ Same(<<local, born, migrated, moves, excused, unwritten, view, turns, opening, strayed>>, {"console"})
  /\ Same(<<user, saves>>, Pages)
  /\ Same(<<shown, line, flights>>, Panels)
  /\ Same(net, OwnNet)
  /\ Same(world, {"pulse"})
  /\ Same(timer, {"search"})
  /\ Same(<<wire, seen, admitted>>, {"site"})
  /\ Same(<<day, granted>>, OwnDay)
  /\ Same(jobs, Pools)
  /\ Same(<<mode, ready, errors, events>>, {"batch"})
  /\ Same(<<engine, wish, item, told, status, sight, failed>>, {"build"})
  /\ Same(<<report, memo, checks, gauge>>, {"citations"})
  /\ Same(<<rows, limit, page, floor, digest, posted>>, {"alerts"})
  /\ Same(<<filing, profile, chart, result>>, Scores)
  /\ Same(story, {"reclass"})

vars == <<store,
  disk, clock, lastAccessAt, stage, saved, torn, moved, queue, calls, cleared, acked, faults,
  started, alone, before, task, memory, hydration, resets, last, raced, kept, waiting, chosen,
  dirty, setBack, tmp, content, file, remote, pointer, stamp, cache, label, slots, tried, packs,
  builder, work, responses, gate, nap, since, crowded, rebuilt, at, attempts, emitted, frame,
  sockets, refused, sent,
  local, born, user, migrated, moves, saves, excused, unwritten, view, turns, opening, strayed,
  shown, line, flights, net, world, timer,
  wire, seen, day, admitted, granted, jobs, mode, ready, errors, events,
  engine, wish, item, told, status, sight, failed,
  report, memo, checks, gauge, rows, limit, page, floor, digest, posted,
  filing, profile, chart, story, result>>

Spec == Init /\ [][Next]_vars
-----------------------------------------------------------------------------
(* The state of each store stays well typed: an operation never meets the  *)
(* stage of another, a corrupt item is never taken for a record.           *)
StoresTyped ==
  /\ store = "library" => Library!TypeOK
  /\ store = "cache" => Cache!TypeOK
  /\ store = "settings" => Settings!TypeOK
  /\ store = "lists" => Lists!TypeOK
  /\ store = "recents" => Recents!TypeOK
  /\ store = "packets" => Packets!TypeOK
  /\ store = "chat" => Chat!TypeOK
  /\ store = "series" => Series!TypeOK
  /\ store = "market" => Market!TypeOK
  /\ store = "materiality" => Materiality!TypeOK
  /\ store = "sources" => Sources!TypeOK
  /\ store = "stream" => Stream!TypeOK
  /\ store = "console" => Console!TypeOK
  /\ store = "chart" => Chart!TypeOK
  /\ store = "lens" => Lens!TypeOK
  /\ store = "pulse" => Pulse!TypeOK
  /\ store = "overview" => Overview!TypeOK
  /\ store = "search" => Search!TypeOK
  /\ store = "terminal" => Term!TypeOK
  /\ store = "build" => Build!TypeOK
  /\ store = "batch" => Batch!TypeOK
  /\ store = "forecast" => Forecasts!TypeOK
  /\ store = "site" => Site!TypeOK
  /\ store = "citations" => Citations!TypeOK
  /\ store = "alerts" => Alerts!TypeOK
  /\ store = "torque" => Torque!TypeOK
  /\ store = "reclass" => Reclass!TypeOK

(* What a store acknowledged stays, over failures and kills, until later   *)
(* calls displace it: saved research and recent selections while the clock *)
(* is not set back, settings no update of which was called beside another  *)
(* request, packets and chat turns that no other worker disturbed, and the *)
(* console's messages but for those of conversations beyond a limit or     *)
(* dropped after a sign-out during a migration, and those the browser      *)
(* refused to store, whose append chat-store.js reports as done.           *)
AcknowledgedIsKept ==
  /\ store = "library" => Library!SavedIsKept /\ Library!ClearIsFinal
  /\ store = "settings" => Settings!UnracedPatchKept /\ Settings!LatestKept
  /\ store = "recents" => Recents!SelectionKept
  /\ store = "packets" => Packets!AckedIsReadable
  /\ store = "chat" => Chat!TurnsKept /\ Chat!FileInOrder
  /\ store = "console" => Console!ConversationsKept

(* What a store of the app shows is what its next session will read: the   *)
(* settings always, the saved lists once read, the recent searches at rest *)
(* after a write that went through, and these in the same order unless one *)
(* is stamped earlier than one behind it.                                  *)
MemoryIsDurable ==
  /\ store = "settings" => Settings!MemoryIsDurable
  /\ store = "lists" => Lists!MemoryIsDurable
  /\ store = "recents" => Recents!MemoryIsDurable

(* The library exceeds its limit only by saves that were torn, the device  *)
(* cache not at rest unless something failed or was read beside the write; *)
(* TTL caches and the forecast cache never.  The relay's counts stay       *)
(* within their limits at each site where no two threads counted at once.  *)
(* Search slots, the SEC gate, jobs and the stream's socket are given back *)
(* on every way out; the stream keeps its socket while its back-off sleeps *)
(* and gives it back before it connects again.                             *)
LimitsHold ==
  /\ store = "library" => Library!OverLimitOnlyByTornSaves
  /\ store = "cache" => Cache!LimitsAtRest
  /\ store = "market" => Market!CachesBounded /\ Market!SlotsConserved
  /\ store = "sources" => Sources!NothingLeftBehind
  /\ store = "stream" => Stream!SocketsClosed /\ Stream!EventsBounded
  /\ store = "site" => Site!CountsHold
  /\ store = "forecast" => Forecasts!CacheBounded
  /\ store = "batch" => Batch!NothingLeftRunning

(* A reader is answered nothing older than what was acknowledged, or good  *)
(* for longer than its time to live, when it asked, whatever is written    *)
(* or fails meanwhile; no section of a packet is computed from another that *)
(* changed since.                                                          *)
AnswersAreCurrent ==
  /\ store = "packets" => Packets!LoadsAreCurrent
  /\ store = "chat" => Chat!HistoryIsCurrent
  /\ store = "series" => Series!AnswersAreFresh /\ Series!SetIsServed
  /\ store = "materiality" => Materiality!RecoversQuickly
  /\ store = "build" => Build!InputsAreFinal

(* An answer says what is true of it: data fetched for a response that is  *)
(* labelled after its call names its provider (the market status is        *)
(* labelled before it, an option chain by the chain, and neither is        *)
(* meant), a refusal names a limit that was reached, a batch or a packet   *)
(* accounts for everything it was asked, by a value or by a reason, a      *)
(* record is kept of what was made.                                        *)
AnswersAreHonest ==
  /\ store = "market" => Market!FetchedIsLabelled
  /\ store = "site" => Site!RefusalsAreHonest
  /\ store = "forecast" => Forecasts!RefusalsAreHonest
  /\ store = "batch" => Batch!BatchIsWhole
  /\ store = "terminal" => Term!RecordsAreTrue
  /\ store = "build" => Build!PacketIsAccounted /\ Build!ReturnedIsKept

(* A verdict rests on all it needs: a citation is verified by the report,  *)
(* an alert is left out for a more important one or as immaterial, a BUY   *)
(* has filings, growth and a chart behind it, a proof stage its signs.     *)
VerdictsAreEarned ==
  /\ store = "citations" => Citations!VerdictsAreEarned
  /\ store = "alerts" => Alerts!QueueIsFair /\ Alerts!NothingWithheld
  /\ store = "torque" => Torque!BuyIsEarned /\ Torque!GrowthNeverHurts
  /\ store = "reclass" => Reclass!StageIsEarned /\ Reclass!TargetsInOrder

(* Upstream services are asked no more often than they have to be: one     *)
(* build per pack, requests apart, no connection after a refusal, no more  *)
(* relays than the hop rule and no more forecasts than the day's cap.      *)
UpstreamIsSpared ==
  /\ store = "sources" => Sources!BuiltOnce /\ Sources!RequestsSpaced
  /\ store = "stream" => Stream!RefusalIsFinal
  /\ store = "site" => Site!HopsBounded
  /\ store = "forecast" => Forecasts!ForecastsCapped

(* What is marked as busy is: something is under way that will end it and  *)
(* will be heeded, or can be stopped; what is not waits for nothing and    *)
(* can be asked for again.                                                 *)
BusyIsReal ==
  /\ store = "console" => Console!StopReaches
  /\ store = "chart" => Chart!LoadingIsReal
  /\ store = "lens" => Lens!PanelsLoad
  /\ store = "pulse" => Pulse!VisitGoesOn
  /\ store = "overview" => Overview!OverviewIsReal
  /\ store = "terminal" => Term!LoadingIsReal
  /\ store = "search" => Search!SearchIsReal

(* What a screen shows belongs to what is selected on it, whatever comes   *)
(* back late.                                                              *)
ShowsWhatIsSelected ==
  /\ store = "console" => Console!ThreadsUnmixed
  /\ store = "chart" => Chart!ChartIsChosen
  /\ store = "lens" => Lens!PanelsFollowRail
  /\ store = "terminal" => Term!PanelIsCurrent
  /\ store = "pulse" => Pulse!RowsAreOfTheList
  /\ store = "search" => Search!ResultsAreOfTheText

(* Nothing that was requested before a Clear that has settled is in the    *)
(* cache: the settings screen says "On-device cache cleared.".             *)
ClearedStaysCleared == store = "cache" => Cache!ClearedStaysCleared

(* A label that Jev gave a citation, and that brings no fields, never makes *)
(* it a verified one.                                                      *)
FieldlessNeverVerified == store = "citations" => Citations!FieldlessNeverVerified

(* The next undisturbed write of the cache repairs all of that, or, when   *)
(* its prune fails, leaves the item that was there.                        *)
WriteHeals == [][store = "cache" => Cache!WriteHealsStep]_vars

(* The saved lists keep the promise of ListStore.                          *)
KeepsLists ==
  /\ store = "lists" => Lists!Promise!Init
  /\ [][store = "lists" => Lists!Promise!Next \/ UNCHANGED <<Lists!ValidLists, queue>>]_vars
-----------------------------------------------------------------------------
(***************************************************************************)
(* What is proved of each machine, carried over to the behaviours of this  *)
(* module: there a property says of the machine that runs what it promises.*)
(***************************************************************************)

(* The machine that runs starts and steps as itself.                       *)
LEMMA Starts ==
  ASSUME Init
  PROVE  /\ store = "library" => Library!Init
         /\ store = "cache" => Cache!Init
         /\ store = "settings" => Settings!Init
         /\ store = "lists" => Lists!Init
         /\ store = "recents" => Recents!Init
         /\ store = "packets" => Packets!Init
         /\ store = "chat" => Chat!Init
         /\ store = "series" => Series!Init
         /\ store = "market" => Market!Init
         /\ store = "materiality" => Materiality!Init
         /\ store = "sources" => Sources!Init
         /\ store = "stream" => Stream!Init
         /\ store = "console" => Console!Init
         /\ store = "chart" => Chart!Init
         /\ store = "lens" => Lens!Init
         /\ store = "pulse" => Pulse!Init
         /\ store = "overview" => Overview!Init
         /\ store = "search" => Search!Init
         /\ store = "terminal" => Term!Init
         /\ store = "build" => Build!Init
         /\ store = "batch" => Batch!Init
         /\ store = "forecast" => Forecasts!Init
         /\ store = "site" => Site!Init
         /\ store = "citations" => Citations!Init
         /\ store = "alerts" => Alerts!Init
         /\ store = "torque" => Torque!Init
         /\ store = "reclass" => Reclass!Init
BY DEF Init

LEMMA Steps ==
  ASSUME [Next]_vars
  PROVE  /\ store' = store
         /\ store = "library" => [Library!Next]_(Library!vars)
         /\ store = "cache" => [Cache!Next]_(Cache!vars)
         /\ store = "settings" => [Settings!Next]_(Settings!vars)
         /\ store = "lists" => [Lists!Next]_(Lists!vars)
         /\ store = "recents" => [Recents!Next]_(Recents!vars)
         /\ store = "packets" => [Packets!Next]_(Packets!vars)
         /\ store = "chat" => [Chat!Next]_(Chat!vars)
         /\ store = "series" => [Series!Next]_(Series!vars)
         /\ store = "market" => [Market!Next]_(Market!vars)
         /\ store = "materiality" => [Materiality!Next]_(Materiality!vars)
         /\ store = "sources" => [Sources!Next]_(Sources!vars)
         /\ store = "stream" => [Stream!Next]_(Stream!vars)
         /\ store = "console" => [Console!Next]_(Console!vars)
         /\ store = "chart" => [Chart!Next]_(Chart!vars)
         /\ store = "lens" => [Lens!Next]_(Lens!vars)
         /\ store = "pulse" => [Pulse!Next]_(Pulse!vars)
         /\ store = "overview" => [Overview!Next]_(Overview!vars)
         /\ store = "search" => [Search!Next]_(Search!vars)
         /\ store = "terminal" => [Term!Next]_(Term!vars)
         /\ store = "build" => [Build!Next]_(Build!vars)
         /\ store = "batch" => [Batch!Next]_(Batch!vars)
         /\ store = "forecast" => [Forecasts!Next]_(Forecasts!vars)
         /\ store = "site" => [Site!Next]_(Site!vars)
         /\ store = "citations" => [Citations!Next]_(Citations!vars)
         /\ store = "alerts" => [Alerts!Next]_(Alerts!vars)
         /\ store = "torque" => [Torque!Next]_(Torque!vars)
         /\ store = "reclass" => [Reclass!Next]_(Reclass!vars)
<1>1. CASE UNCHANGED vars
  BY <1>1 DEF vars, Console!stored, Packets!files,
     Library!vars, Cache!vars, Settings!vars, Lists!vars, Recents!vars, Packets!vars, Chat!vars, Series!vars, Market!vars, Materiality!vars, Sources!vars, Stream!vars, Console!vars, Chart!vars, Lens!vars, Pulse!vars, Overview!vars, Search!vars, Term!vars, Build!vars, Batch!vars, Forecasts!vars, Site!vars, Citations!vars, Alerts!vars, Torque!vars, Reclass!vars
<1>2. CASE Next
  BY <1>2 DEF Next
<1> QED BY <1>1, <1>2

(* The invariant of the machine that runs.                                 *)
MachinesInv ==
  /\ store = "library" => LibInv
  /\ store = "cache" => CacRests
  /\ store = "settings" => SettingsInv
  /\ store = "lists" => ListsInv
  /\ store = "recents" => RecentsInv
  /\ store = "packets" => PacInv
  /\ store = "chat" => ChaInv
  /\ store = "series" => SerInv
  /\ store = "market" => MarketInv
  /\ store = "materiality" => MatInv
  /\ store = "sources" => SourcesInv
  /\ store = "stream" => StreamInv
  /\ store = "console" => ConInv /\ ConRemembers
  /\ store = "chart" => ChartInv
  /\ store = "lens" => LensInv
  /\ store = "pulse" => PulseInv
  /\ store = "overview" => OverviewInv
  /\ store = "search" => SearchInv
  /\ store = "terminal" => TermInv
  /\ store = "build" => BuildInv
  /\ store = "batch" => BatchInv
  /\ store = "forecast" => ForecastsInv
  /\ store = "site" => SiteCounts
  /\ store = "citations" => CitationsInv
  /\ store = "alerts" => AlertsInv
  /\ store = "torque" => TorqueInv
  /\ store = "reclass" => ReclassInv

LEMMA MachinesStart ==
  ASSUME Init
  PROVE  MachinesInv
BY Starts, ConRemembersStart, CacRestsStart, LibStart, CacStart, SettingsStart, ListsStart, RecentsStart, PacStart, ChaStart, SerStart, MarketStart, MatStart, SourcesStart, StreamStart, ConStart, ChartStart, LensStart, PulseStart, OverviewStart, SearchStart, TermStart, BuildStart, BatchStart, ForecastsStart, CountsStart, CitationsStart, AlertsStart, TorqueStart, ReclassStart
   DEF MachinesInv

LEMMA MachinesStep ==
  ASSUME MachinesInv, [Next]_vars
  PROVE  MachinesInv'
<1>1. CASE store = "library"
  BY <1>1, Steps, LibStep DEF MachinesInv
<1>2. CASE store = "cache"
  BY <1>2, Steps, CacStep, CacRestsStep DEF MachinesInv
<1>3. CASE store = "settings"
  BY <1>3, Steps, SettingsStep DEF MachinesInv
<1>4. CASE store = "lists"
  BY <1>4, Steps, ListsStep DEF MachinesInv
<1>5. CASE store = "recents"
  BY <1>5, Steps, RecentsStep DEF MachinesInv
<1>6. CASE store = "packets"
  BY <1>6, Steps, PacStep DEF MachinesInv
<1>7. CASE store = "chat"
  BY <1>7, Steps, ChaStep DEF MachinesInv
<1>8. CASE store = "series"
  BY <1>8, Steps, SerStep DEF MachinesInv
<1>9. CASE store = "market"
  BY <1>9, Steps, MarketStep DEF MachinesInv
<1>10. CASE store = "materiality"
  BY <1>10, Steps, MatStep DEF MachinesInv
<1>11. CASE store = "sources"
  BY <1>11, Steps, SourcesStep DEF MachinesInv
<1>12. CASE store = "stream"
  BY <1>12, Steps, StreamStep DEF MachinesInv
<1>13. CASE store = "console"
  BY <1>13, Steps, ConStep, ConRemembersStep DEF MachinesInv
<1>14. CASE store = "chart"
  BY <1>14, Steps, ChartStep DEF MachinesInv
<1>15. CASE store = "lens"
  BY <1>15, Steps, LensStep DEF MachinesInv
<1>16. CASE store = "pulse"
  BY <1>16, Steps, PulseStep DEF MachinesInv
<1>17. CASE store = "overview"
  BY <1>17, Steps, OverviewStep DEF MachinesInv
<1>18. CASE store = "search"
  BY <1>18, Steps, SearchStep DEF MachinesInv
<1>19. CASE store = "terminal"
  BY <1>19, Steps, TermStep DEF MachinesInv
<1>20. CASE store = "build"
  BY <1>20, Steps, BuildStep DEF MachinesInv
<1>21. CASE store = "batch"
  BY <1>21, Steps, BatchStep DEF MachinesInv
<1>22. CASE store = "forecast"
  BY <1>22, Steps, ForecastsStep DEF MachinesInv
<1>23. CASE store = "site"
  BY <1>23, Steps, CountsStep DEF MachinesInv
<1>24. CASE store = "citations"
  BY <1>24, Steps, CitationsStep DEF MachinesInv
<1>25. CASE store = "alerts"
  BY <1>25, Steps, AlertsStep DEF MachinesInv
<1>26. CASE store = "torque"
  BY <1>26, Steps, TorqueStep DEF MachinesInv
<1>27. CASE store = "reclass"
  BY <1>27, Steps, ReclassStep DEF MachinesInv
<1> QED BY Steps, <1>1, <1>2, <1>3, <1>4, <1>5, <1>6, <1>7, <1>8, <1>9, <1>10, <1>11, <1>12, <1>13, <1>14, <1>15, <1>16, <1>17, <1>18, <1>19, <1>20, <1>21, <1>22, <1>23, <1>24, <1>25, <1>26, <1>27 DEF MachinesInv

(* The state of whichever machine runs stays well typed.                   *)
THEOREM StoresStayTyped == Spec => []StoresTyped
<1>1. MachinesInv => StoresTyped
  <2>1. MachinesInv /\ store = "library" => Library!TypeOK
    BY LibPromised DEF MachinesInv
  <2>2. MachinesInv /\ store = "cache" => Cache!TypeOK
    BY CacPromised DEF MachinesInv, CacRests
  <2>3. MachinesInv /\ store = "settings" => Settings!TypeOK
    BY SettingsPromised DEF MachinesInv
  <2>4. MachinesInv /\ store = "lists" => Lists!TypeOK
    BY DEF MachinesInv, ListsInv
  <2>5. MachinesInv /\ store = "recents" => Recents!TypeOK
    BY RecentsPromised DEF MachinesInv
  <2>6. MachinesInv /\ store = "packets" => Packets!TypeOK
    BY PacPromised DEF MachinesInv
  <2>7. MachinesInv /\ store = "chat" => Chat!TypeOK
    BY ChaPromised DEF MachinesInv
  <2>8. MachinesInv /\ store = "series" => Series!TypeOK
    BY SerPromised DEF MachinesInv
  <2>9. MachinesInv /\ store = "market" => Market!TypeOK
    BY MarketPromised DEF MachinesInv
  <2>10. MachinesInv /\ store = "materiality" => Materiality!TypeOK
    BY MatPromised DEF MachinesInv
  <2>11. MachinesInv /\ store = "sources" => Sources!TypeOK
    BY SourcesPromised DEF MachinesInv
  <2>12. MachinesInv /\ store = "stream" => Stream!TypeOK
    BY StreamPromised DEF MachinesInv
  <2>13. MachinesInv /\ store = "console" => Console!TypeOK
    BY ConPromised DEF MachinesInv, ConRemembers
  <2>14. MachinesInv /\ store = "chart" => Chart!TypeOK
    BY DEF MachinesInv, ChartInv
  <2>15. MachinesInv /\ store = "lens" => Lens!TypeOK
    BY LensPromised DEF MachinesInv
  <2>16. MachinesInv /\ store = "pulse" => Pulse!TypeOK
    BY PulsePromised DEF MachinesInv
  <2>17. MachinesInv /\ store = "overview" => Overview!TypeOK
    BY DEF MachinesInv, OverviewInv
  <2>18. MachinesInv /\ store = "search" => Search!TypeOK
    BY DEF MachinesInv, SearchInv, Search!TypeOK, SearchShown, SearchFlight
  <2>19. MachinesInv /\ store = "terminal" => Term!TypeOK
    BY TermPromised DEF MachinesInv
  <2>20. MachinesInv /\ store = "build" => Build!TypeOK
    BY BuildPromised DEF MachinesInv
  <2>21. MachinesInv /\ store = "batch" => Batch!TypeOK
    BY BatchPromised DEF MachinesInv
  <2>22. MachinesInv /\ store = "forecast" => Forecasts!TypeOK
    BY ForecastsPromised DEF MachinesInv
  <2>23. MachinesInv /\ store = "site" => Site!TypeOK
    BY CountsPromised DEF MachinesInv
  <2>24. MachinesInv /\ store = "citations" => Citations!TypeOK
    BY CitationsPromised DEF MachinesInv
  <2>25. MachinesInv /\ store = "alerts" => Alerts!TypeOK
    BY AlertsPromised DEF MachinesInv
  <2>26. MachinesInv /\ store = "torque" => Torque!TypeOK
    BY TorquePromised DEF MachinesInv
  <2>27. MachinesInv /\ store = "reclass" => Reclass!TypeOK
    BY ReclassPromised DEF MachinesInv
  <2> QED BY <2>1, <2>2, <2>3, <2>4, <2>5, <2>6, <2>7, <2>8, <2>9, <2>10, <2>11, <2>12, <2>13, <2>14, <2>15, <2>16, <2>17, <2>18, <2>19, <2>20, <2>21, <2>22, <2>23, <2>24, <2>25, <2>26, <2>27 DEF StoresTyped
<1> QED BY <1>1, MachinesStart, MachinesStep, PTL DEF Spec

(* Whichever store runs, what it shows at rest is what the app's next      *)
(* session will read, for the recent searches up to the order of records   *)
(* that a clock set back stamped out of it.                                *)
THEOREM StoresAreDurable == Spec => []MemoryIsDurable
<1>1. MachinesInv => MemoryIsDurable
  BY RecentsPromised DEF MachinesInv, MemoryIsDurable, SettingsInv, ListsInv
<1> QED BY <1>1, MachinesStart, MachinesStep, PTL DEF Spec

(* Whichever store runs, what it acknowledged stays, over failures and     *)
(* kills, until later calls displace it, but for what each store's         *)
(* property excuses: races, clocks set back, limits, and a quota that      *)
(* refused what was reported as stored.                                    *)
THEOREM AcknowledgedKept == Spec => []AcknowledgedIsKept
<1>1. MachinesInv => AcknowledgedIsKept
  BY LibPromised, SettingsPromised, RecentsPromised, PacPromised, ChaPromised DEF MachinesInv, AcknowledgedIsKept, ConRemembers
<1> QED BY <1>1, MachinesStart, MachinesStep, PTL DEF Spec

(* Whichever machine runs, it gives back what it holds on every way out,   *)
(* and exceeds its limits only by torn saves of the library, by reads and  *)
(* failures of the device cache, and by threads of the relay that counted  *)
(* at once.                                                                *)
THEOREM LimitsKept == Spec => []LimitsHold
<1>1. MachinesInv => LimitsHold
  BY LibPromised, CacPromised, MarketPromised, SourcesPromised, StreamPromised, CountsPromised, ForecastsPromised, BatchPromised DEF MachinesInv, LimitsHold, CacRests
<1> QED BY <1>1, MachinesStart, MachinesStep, PTL DEF Spec

(* Whichever store or cache runs, what it answers is no older than what    *)
(* was acknowledged, or was good for its time to live, when it was asked.  *)
THEOREM AnswersStayCurrent == Spec => []AnswersAreCurrent
<1>1. MachinesInv => AnswersAreCurrent
  BY PacPromised, ChaPromised, SerPromised, MatPromised, BuildPromised DEF MachinesInv, AnswersAreCurrent
<1> QED BY <1>1, MachinesStart, MachinesStep, PTL DEF Spec

(* Whichever machine runs, its answers name the provider that was asked    *)
(* for them when they are labelled after their call, refuse only at a      *)
(* limit that was reached, and account for everything they were asked.     *)
THEOREM AnswersStayHonest == Spec => []AnswersAreHonest
<1>1. MachinesInv => AnswersAreHonest
  BY MarketPromised, CountsPromised, ForecastsPromised, BatchPromised, TermPromised, BuildPromised DEF MachinesInv, AnswersAreHonest
<1> QED BY <1>1, MachinesStart, MachinesStep, PTL DEF Spec

(* Whichever client of a paid or limited service runs, it never asks more  *)
(* than its gate, its cap or its budget allows.                            *)
THEOREM UpstreamSpared == Spec => []UpstreamIsSpared
<1>1. MachinesInv => UpstreamIsSpared
  BY SourcesPromised, StreamPromised, CountsPromised, ForecastsPromised DEF MachinesInv, UpstreamIsSpared
<1> QED BY <1>1, MachinesStart, MachinesStep, PTL DEF Spec

(* Whichever of the four scorers runs, its verdict rests on all it needs.  *)
THEOREM VerdictsStayEarned == Spec => []VerdictsAreEarned
<1>1. MachinesInv => VerdictsAreEarned
  BY CitationsPromised, AlertsPromised, TorquePromised, ReclassPromised DEF MachinesInv, VerdictsAreEarned
<1> QED BY <1>1, MachinesStart, MachinesStep, PTL DEF Spec

(* Whichever screen runs, what it marks as busy is under way and will be   *)
(* heeded or can be stopped, and what is not waits for nothing.            *)
THEOREM ScreensAreBusy == Spec => []BusyIsReal
<1>1. MachinesInv => BusyIsReal
  BY ConPromised, LensPromised, PulsePromised, TermPromised DEF MachinesInv, BusyIsReal, ConRemembers,
     ChartInv, OverviewInv, SearchInv
<1> QED BY <1>1, MachinesStart, MachinesStep, PTL DEF Spec

(* Whichever screen runs, what it shows belongs to what is selected on it. *)
THEOREM ScreensFollow == Spec => []ShowsWhatIsSelected
<1>1. MachinesInv => ShowsWhatIsSelected
  BY ConPromised, LensPromised, PulsePromised, TermPromised DEF MachinesInv, ShowsWhatIsSelected, ConRemembers,
     ChartInv, SearchInv
<1> QED BY <1>1, MachinesStart, MachinesStep, PTL DEF Spec

(* A write that runs alone on the device cache heals it, or leaves what    *)
(* was there.                                                              *)
THEOREM WritesHeal == Spec => WriteHeals
<1>1. MachinesInv /\ [Next]_vars => [store = "cache" => Cache!WriteHealsStep]_vars
  BY Steps, CacRestsStep DEF MachinesInv
<1> QED BY <1>1, MachinesStart, MachinesStep, PTL DEF Spec, WriteHeals

(* The saved lists change by whole operations of ListStore, in the order   *)
(* they were asked for, or not at all.                                     *)
THEOREM ListsAreKept == Spec => KeepsLists
<1>1. Init => (store = "lists" => Lists!Promise!Init)
  BY Starts, ListsStart
<1>2. MachinesInv /\ [Next]_vars
      => [store = "lists" => Lists!Promise!Next \/ UNCHANGED <<Lists!ValidLists, queue>>]_vars
  BY Steps, ListsStep DEF MachinesInv
<1> QED BY <1>1, <1>2, MachinesStart, MachinesStep, PTL DEF Spec, KeepsLists
=============================================================================
