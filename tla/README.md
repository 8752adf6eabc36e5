# ThreatLens: formal specifications

ThreatLens receives network flow records (from Kafka, from a synthetic worker or
from PCAP replays), keeps sliding windows of them, runs six detection engines
over each, groups the alerts into incidents, archives them and pushes them to
dashboards, where analysts watch and judge them, change the detection's
configuration and start replays.  This directory holds TLA+ modules of the parts that keep state, TLC
configurations that check them on small instances, and proofs that the TLA+
proof system checks.

Paths below are relative to `src/`.

## 1. The system

| Part | State | Operations | Talks to |
|---|---|---|---|
| Runtime configuration, `engine/runtime_config.py`, `engine/config.py` | live thresholds, snapshot of the overrides, suppression rules, connection flag, two throttles; two Redis hashes | set and reset thresholds; create, patch, delete, list rules; refresh; load | Redis; read by the pipeline for every alert; called by the endpoints of `backend/app/main.py` |
| Sliding windows, `engine/features/store.py` | per key and window a Redis sorted set or a deque; connection flag and throttle | `add_event`, `get_events` (both prune), `prune_window` | Redis; called by pipeline and engines |
| Detection engines and metrics, `engine/models/*_engine.py`, `engine/features/metrics.py` | none | arithmetic on a window | window store |
| Incident correlation, `engine/models/aggregator.py` | last alert of each source, stage set of each incident | `aggregate` | called by the pipeline; emptied by the clear endpoint |
| Pipeline, `engine/pipeline.py` | none of its own | ingest, evaluate, apply suppression rules | all of the above |
| Alert archive, `backend/app/storage.py` | memory ring, status overrides, notes, connection and throttle; two ClickHouse tables | insert, list, change status, annotate, clear | ClickHouse; endpoints, worker, consumer, replay jobs |
| Live delivery, `backend/app/websocket_manager.py`, `frontend/src/hooks/useThreatSocket.ts` | open sockets; the dashboard's 200 alerts, its backoff | connect, broadcast, disconnect; hydrate, receive, reconnect, clear | worker, consumer; archive (hydration) |
| Ingest, `engine/kafka_consumer.py`, `main.py` worker and lifespan | poll loop, telemetry counters | poll, process, broadcast; inject waves | Kafka, pipeline, archive, delivery |
| Zeek shipper, `ingest/producers/zeek_kafka_shipper.py` | correlation cache by connection uid | process a line or a file, emit, tail | Kafka or a queue |
| Replay jobs, `backend/app/routers/replay.py`, `main.py` legacy replay | job records, one state record | upload, trigger, run, status | Zeek container or PCAP engine, shipper, pipeline, archive |
| PCAP engine, `ingest/pcap_engine.py` | flow table of a capture | parse, export logs | replay jobs |
| Replay panel, `frontend/src/components/ReplayModal.tsx` | the job that is shown, a message, requests under way | upload, run, poll, dismiss | replay jobs |
| Rule panels, `DetectionConfig.tsx`, `IncidentsPanel.tsx` | thresholds and rules as last loaded, rows being saved, sources shown as suppressed, a dialog | load, save, add, toggle, delete, suppress | endpoints of the runtime configuration |
| Alert table, `ThreatTable.tsx`, `App.tsx` | view, page, filters, the snapshot of a pause and what pauses, changes of status under way | hover, focus, resume, filter, turn pages, change a status | live delivery's buffer, alert archive |
| Session and dossier, `App.tsx`, `LoginPage.tsx`, `ForensicDrawer.tsx` | user, tokens in two storages, address of the socket; notes, draft, copied label | sign in and out; read and add notes, copy | authentication, alert archive, live delivery |
| Gauge, trends, health, navigation bar | figures as last polled | poll, draw | health and statistics endpoints |

What runs concurrently: the asyncio event loop (consumer or worker, WebSockets,
async endpoints), FastAPI's thread pool (all `def` endpoints), the threads of
replay jobs, and each browser, which has one thread and any number of requests
and timers under way.  The server's threads share one pipeline, one window store, one
configuration store and one archive.  Redis and ClickHouse may be away at start, go away at
any call and come back; both stores then work from memory and reconnect on use.

Behaviours that are hard to test, and the properties that make each part
correct:

* *Runtime configuration.* Handlers and refreshes interleave; writes are several
  Redis commands; failures are only logged.  Memory and Redis must agree, a
  deleted rule must not come back, a reconnection must happen.
* *Window store.* Events are late, workers prune under each other, a failover
  may happen inside an operation.  Nothing in the window may be lost or missed,
  nothing outside may be read.
* *Correlation.* Events of several sources and threads, late ones.  An incident
  has one source, follows the window, and its score counts its own stages.
* *Archive.* An alert is in memory before it is in the table; mutations are
  asynchronous; clears and restarts come in between.  A status must stick and the
  fallback must end.
* *Delivery.* Broadcasts overlap with each other and with clients that come and
  go; on a dashboard the initial fetch, the socket, the timers and a clear race.
  No alert is doubled or passed over, no socket left behind, and a dashboard is
  connected again in the end.
* *Ingest.* Records that cannot be processed, a broker that goes away.  What a bad
  record costs is bounded, and the consumer catches up.
* *Replay.* Two functions take one container from each other, give it up while it
  goes on writing, and fall back to the PCAP engine; three log files, which Zeek
  and the PCAP engine may both be writing, are read line by line and joined by
  connection.  A job's report tells the truth, it handles its own capture and no line
  of it twice, no byte is lost on the way, every job ends.
* *Replay panel.* It polls without cancelling and can be pointed at another job
  meanwhile.  The end it shows is the end of that job, and it does show it.
* *Rule panels.* Two panels edit one configuration, requests overlap, fail or are
  refused.  A row that says "Applied" is live, lists follow the changes, and no form
  stays disabled.
* *Alert table.* Four reasons to hold the stream still come and go, pages are turned
  faster than they are answered, statuses change under the rows.  Held rows stay,
  and are let go; a page is the page it claims to be.
* *Session and dossier.* A login spans a request and two timers, other tabs change
  the shared storage, requests for notes overlap.  Token, user and socket agree, the
  notes are those of the alert.

`PROJECT.json` lists the hazards one by one, at their lines.

## 2. Modules

| Module | Models | Composition |
|---|---|---|
| `RuntimeConfig` | `RuntimeConfigStore`, the live thresholds, the endpoints that change them | stands alone; the pipeline is one of its threads |
| `IncidentCorrelation` | `AlertAggregator.aggregate` | stands alone; engines' verdicts are inputs |
| `AlertArchive` | `ClickHouseAlertStore` and ClickHouse, but for the notes | stands alone; writers, readers, analysts |
| `SlidingWindow` | `SlidingWindowStore` for one key of one window, and Redis | stands alone; workers |
| `AlertDelivery` | `ConnectionManager`, the socket endpoint, the consumer's broadcasts, the hook `useThreatSocket` | the archive is a bounded list in it |
| `KafkaIngest` | the topics and the polling loop of `KafkaIngestConsumer` | has a specification of its own; `ReplayJobs` adds producers |
| `ZeekLogs` | operators, no state: frames to flows to log lines (`PcapZeekEngine`), log lines to events (`ZeekLogShipper`) | used by `ReplayJobs` |
| `JobStore` | what `replay_jobs` promises to those who ask for a status | abstract specification |
| `ReplayJobs` | `execute_pcap_replay_job`, `run_replay`, the endpoints that start them, the Zeek container | extends `ZeekLogs` and `KafkaIngest`, implements `JobStore` (`INSTANCE JobStore WITH`) |
| `ReplayPanel` | `ReplayModal` | extends `JobStore`, which is all it knows of the jobs |
| `RulePanels` | `DetectionConfig` and `IncidentsPanel` | the endpoints of `RuntimeConfig`, one request at a time, are `Apply` |
| `AlertTable` | `ThreatTable`, and the view, pages and filters of `App` | the stream of `AlertDelivery` is `Arrive` |
| `Console` | the session of `App`, `LoginPage`, `ForensicDrawer`, the notes of the archive | stands alone |
| `MC...` | instances of the above for TLC: symmetry sets, captures, flows and classes | extends each |
| `RuntimeConfigProofs`, `IncidentCorrelationProofs`, `AlertArchiveProofs`, `SlidingWindowProofs`, `AlertDeliveryProofs`, `ConsoleProofs` | theorems about the module of that name | extends it |
| `ReplayProofs` | theorems about `KafkaIngest`, `ZeekLogs`, `ReplayJobs`, `ReplayPanel` | extends `ReplayJobs` and `ReplayPanel` |
| `DashboardProofs` | theorems about `AlertTable` and `RulePanels` | extends both |

The replays are specified on two levels.  Between `ReplayJobs` and `ReplayPanel`
stands `JobStore`: the detailed replays, with their container, logs and Kafka, are
shown to be a `JobStore`, and the panel is checked over any `JobStore` that may also
forget its jobs in a restart, instead of over the detail.

An action is what runs between two points where another thread, a server or a
crash can come in: a critical section, or one command to Redis or ClickHouse.
In a browser it is a handler up to its next await, with the render and the
effects that follow, a timer, or what is done with an answer; a request is in
flight from its fetch to its answer, and the server takes it up in between.
Every thread of the server has a label `pc[t]` for what it does next and a local
value (`arg`, `job`).  Operators that start with a comment "A bug:" are not part of the
specifications: they are variants of a definition with a plausible mistake, used
to see that each property notices one.

In the three modules of the dashboard with many independent parts (`RulePanels`,
`AlertTable`, `Console`) a variable that is chosen at the start, `editing` in the first
and `work` in the others, says what the analyst of a behaviour does: change thresholds or rules or suppress sources; watch, change
statuses or read the archive; sign in and out, write notes, write a note while
things fail, or copy.  Parts that share no state with each other are so explored
beside each other instead of multiplied.

Two modules that a proof module extends beside another one have names of their own
for what every specification has: `PanelInit`, `PanelNext`, `PanelSpec` and
`PanelFairSpec` in `ReplayPanel`, `PanelsInit` and so on in `RulePanels`, `KafkaSpec` in
`KafkaIngest`.

### RuntimeConfig

`live` is the module-level threshold table of `engine/config.py`, `stored`
the snapshot `_stored_overrides`, `rules` the dictionary `_suppressions` (a rule
is its enabled flag: matching and expiry belong to the pipeline), `redisThr` and
`redisRules` the two hashes.  A hash field that does not exist is `Baseline` or
`"absent"`.  `lock` is the RLock.  `connected` is never reset while the process
lives, as in the code: a failed command does not clear it.  `retryDue` and
`refreshDue` say that the 15 s and 5 s throttles have run out.

`SetLive`, `SetSnapshot`, `PersistDelete`, `PersistPut` are one `PUT
/api/config/thresholds`; `Reset`, `ResetDelete` the reset; `CreateRule`,
`PutRule` a creation; `DeleteRule`, `DropRule` a deletion; `BeginRead`,
`RecheckStale`, `FetchRules`, `InstallRules`, `ListRules` a read with its
refresh, which goes on with `PatchRule`, `PutRule` for a PATCH.  `ThresholdRequest` and
`RuleRequest` are an analyst's calls.  A start is `Construct`, then `LoadThresholds` and
`LoadRules`, one HGETALL each; `Crash` ends the process and its threads with it.  Environment:
`Crash`, `Construct`, `ClearAlerts` (the `flushdb` of the clear
endpoint), `RedisSwitch`, `RetryTick`, `RefreshTick`.

Four history variables: `issued` (ids given out), `gone` (ids whose deletion
did not fail), `unsynced` (ids whose last call failed or is under way) and
`thrSynced` (the same for the thresholds).  They only record outcomes; no action
of the system is guarded by them, except that a fresh id is one not yet issued.

### IncidentCorrelation

`lastAlert` is `_source_incidents`, `stages` is `_incident_stages`; `dicts` counts
how often the latter was assigned, because a thread keeps a reference to the
set it found.  `Correlate` is the critical section with the pruning of all
sources; `CheckStages`, `CreateStages`, `TrackStages`, `Score` are the unlocked
rest of `aggregate`.  An event is stamped `Lags` behind the clock: the botnet wave
of the synthetic worker is stamped up to a minute back, and Kafka delivers
partitions in any order.  `log` records the correlated alerts and the clears in
order, `scored` what each score was computed from.

### AlertArchive

`ring`, `overrides`, `connected`, `client`, `retryDue` are the fields of the store;
`table` is the ClickHouse table; `mutations` the accepted
`ALTER TABLE ... UPDATE` commands, each with the rows it will touch.  Alerts are
numbered in the order they are recorded, which is also the order of their
timestamps here.  `Record`, `Open`, `Insert`, `Disconnect` are `insert_alert`;
`Open`, `Query`, `Disconnect` are `get_recent_alerts`; `Update`, `Mutate` the status
change; `ClearMemory`, `Truncate` the clear; `Restart` the constructor and `lifespan()`.
The notes share nothing with the alerts but the connection and are in `Console`.  The label `"failed"` stands for the
time between the exception and the assignment `is_connected = False`, which may
be long after another thread has reconnected.  `Listed` is what a read makes of
a row; limits and filters of a page are left out.  An insert may fail although
ClickHouse has carried it out.  History: `recorded`, `marked` (the status an
analyst last gave an alert that was in a store or on its way to one).

### SlidingWindow

`zset` with `expiry` is the sorted set and its TTL, `deque` the fallback.  A worker
adds its event (`Begin`, `Zadd`, `Zrem`, or `Push`) and then reads the window as of
the event's timestamp (`ReadPrune`, `ReadRange`, or `ReadDeque`), as the pipeline
does.  Any command may fail, carried out or not, when `Faulty`; whether a
connection attempt is made and succeeds is left open, which covers its throttle.
`EXPIRE` is one step with `ZREMRANGEBYSCORE`.  Time does not pass the expiry of a
key, so the key goes when its TTL runs out.  History: `added`, `evicted` (events
that left with their key inside the window) and `reads`, the last answer each
worker got, with what was due to it: `added` without what is evicted or in the
store the read does not ask.

### AlertDelivery

The server runs on one event loop, so a step is what runs between two awaits.
`Record` is the synchronous part of `process_message`: archive, suppression, and
the task that will broadcast.  `Start` takes the copy of `active_connections`,
`Send` is one awaited `send_text`, `FinishBroadcast` unregisters what failed.  Tasks
start in the order of their alerts (`create_task` is first in, first out) and
then interleave at every send.  The synthetic worker awaits each broadcast:
that is the case where one ends before the next alert.  `Accept` and `Leave` are
`websocket_threat_feed`, without the replay of history to a new client, which an
environment variable switches on and which is off by default.

The browser: `Effect` is a run of the hook's effect with the cleanup before it (a
mount, then a login that changes the URL); `Reconnect` the timer's `connect()`;
`Opened`, `Closed`, `Receive` the events of a socket; `ServePage` and `Hydrate` the
initial fetch and what is done with its answer (an answer whose JSON is being
read outlives the cleanup of its effect, as in the code); `ServeClear` and `ClearBuffer` the
two halves of `clearAllAlerts`.  `up` is the connection, `wire` what was sent on it;
`Break` loses a suffix.  The flag `closingRef` is left out: the close event of an
old socket is recognised by `socketRef.current` in the same handler, and the
variant `CloseOnce` is the hook with a flag that is never reset.  The catch around
`new WebSocket`, which only reports an address that cannot be parsed, is left out, too.

`MaxEffects` bounds the runs of the effect, `MaxAlerts` the alerts, and `Sockets` the
WebSocket objects: one is used again when nothing refers to it any more.  History:
`since[s]`, the last alert whose broadcast began before `s` was registered, and
`dropped[d]`, the last alert recorded before the analyst emptied the list.

### KafkaIngest

`topic` is the three topics as one log, `next` the record the next poll begins
with, `consuming` the flag `is_kafka_connected`: it is decided in the constructor,
where the broker answers or does not, and never again; the constant `Consumer` says
whether `lifespan()` builds one, which depends on `INGEST_SOURCE`.  `Consume` is a round of
the loop: a poll gives a batch of any size up to `MaxPoll`, and `Processed` is what
becomes of it when a record raises, since the handler is outside of the loop over
the batch.  `Foreign` is a record of a sensor or of another program, well-formed
or not; `BrokerSwitch` an outage.  `evaluated` is a history variable.

### ZeekLogs

The path of a packet: `Packet` (what is decoded of a frame), `AddPacket` (the flow it
joins, or `NewFlow`), `Exported` (the lines of the three logs), `Process` (one line,
with the correlation cache of its shipper) with `NormalConn`: the counts, of which one
that is zero or absent gives way to that of the IP level (`Or`), the flags from the
history string, and the exchange of directions for a SYN that nothing answers.  Loops
over a capture are recursive functions on the number of packets done (`Aggregated`,
`Sum`, `At` for a loop with a condition), so that they can be proved about.  A packet
whose source and destination are the same has one key, which is its own mirror: the
engine adds it to the first branch.

What Zeek itself writes is not computed but given: the constant `Zeek` of `ReplayJobs` has
the lines of its three logs for each capture.  `ZeekAssumption` asks only that it
writes one conn line for each connection and has uids of its own.  It may write
several dns lines under one uid, none, or count payload or nothing; in the runs it
writes two questions of one connection and counts of payload beside those of the IP
level.

### ReplayJobs

Every replay is a thread with a label: `begin`, `remove`, `run`, `wait` (the three
docker commands), `native` (the PCAP engine), `ship`, `read` and `evaluate` (a log file,
then what was read of it), `done`.  `status` and `totals` are a job's record, `legacy`
the state of the older replay; `logs` is the temporary directory, `cache` the shipper's
cache, `step`, `pos`, `records` and `counted` the locals of the functions.  `container`
says whose the container with the fixed name is.  `RemoveContainer` removes it whoever
owns it; `GiveUp` is the failure of the compose command, by timeout or because the
container was removed.  A container that is given up writes on into the directory until
it is done (`Linger`), is removed, or the directory is deleted.  A job runs the PCAP engine
in any case, because its `zeek_success` is never set; the older replay passes no
`TARGET_PCAP`, so `entrypoint.sh` goes through all captures (`Given`, `Every`).

A log file is how many lines the PCAP engine has written into it, and whether Zeek may
have written or be writing there.  `Native` is `export_zeek_logs`: it empties the files
one after the other and writes flow by flow, and may raise anywhere on the way
(`Begun`), which is only logged.  `ReadLine` takes the next line, one at a time: of a file
the PCAP engine wrote alone its next line, of one Zeek has a hand in any line of
either that is behind the last one read, since two processes that write one file
overwrite each other's lines and the reader may come at any moment; what is torn is
not JSON and is skipped by the code.  `EndOfFile` may therefore come early in such a
file.  Because any lines may be missing, the gradual growth of the file under a lingering
container is covered without a step of its own: every prefix, and every mixture, is
among the choices of the next line.  `Evaluate` is one record of the file, and `NextFile`
goes on.  `Fail` ends the replay between any two of these.

`records` and `handled` outlive the function as history: what the replay's shipper has
read, and how much of it the replay's pipeline has evaluated.  `exported` is the third
one: the PCAP engine wrote all it had to and no container was writing beside it.

`ImplementsJobStore` is the refinement: `status` is the `jobs` of `JobStore`, and
every other variable is detail.

### ReplayPanel

`activeJob` is the state of that name (a job and the status it is shown with),
`toast` its message as far as it is about a job, `posts` and `polls` the requests in
flight.  `RunReplay`, `ServeRun`, `Triggered` are RUN REPLAY with its answer; `Poll` a tick of
the interval, which the code starts for a queued or processing job and stops by
its cleanup, `ServePoll` and `Polled` the request and what is done with the answer.
`Polled` replaces the job that is shown by the one the answer tells of: a late answer
can take the panel back to an earlier job, which `EndIsTrue` allows, since the card
then tells of that job; `EndIsShown` allows it too.  `Upload` and `Uploaded` matter for
the message only.

### RulePanels

`values` and `rules` are the server's; `config`, `rows`, `list`, `adding` the state of
the configuration sheet, `suppressed` and `modal` that of the incidents.  A request
carries the number of the click it comes from (0 for a load on opening).  `Serve`
applies a request or refuses it, or it fails before or after it is applied; the
answer is the whole of a tab as it is then.  `Answered` is the union of what
follows each answer; of these `LoadedSuppressed`, the load of the mount, replaces the set
of suppressed sources whenever it comes, also after confirmations.  `extractCleanIp` is modelled by what it does to an address:
one that is written out in IPv6 is cut at its first colon (`Clean`), and what is left
is refused.  History: `asked` (the value last saved for each threshold), `unsure`
(tabs whose requests overlapped or failed since they were last loaded alone).
Incidents are taken to name addresses without a port: `extractCleanIp` would cut one off.

### AlertTable

`buffer` is the hook's list, `snapshot` and `wasPaused` what the table holds still;
`Paused` is `isPaused`, with its four reasons `hovering`, `rowFocused`, `dropdown`,
`selected`.  `Hold` is the effect on the pause and the alerts, part of every step that
can change either.  `mouse` and `focus` are external: where the browser has them.
React reports no blur for an element that is removed or disabled, which
`KeepFocus` and `ChangeStatus` model; `lost` records it.  A fetch of a page is `alive`
until the cleanup of its effect; `ServePage` gives the page with the statuses of
that moment.  A change of status is numbered, so that two like ones in flight are two
requests.  `ServePatch` sets the status of a flow and may answer that it failed all
the same, as for an alert that the archive's ring has no longer.  History:
`crossed` (flows whose changes overlapped or failed), `told` (the alerts that were in
the buffer when a change was applied to it).

### Console

`tab` and `disk` are the token in sessionStorage and in localStorage (whose it is),
`user` App's user, `url` whose token the address of the socket carries.  `Submit`,
`ServeLogin`, `LoggedIn` or `LoginFailed`, `Granted`, `Exited` are a login with its
request and two timers; `OtherTab` writes localStorage; `Rerender` computes the address
anew.  `Select`, `Close`, `Draft`, `SubmitNote`, `Noted`, `Read` are the dossier;
`AddNote`, `ServeRead`, `Outage`, `ClearNotes` the archive's notes, in `memory` and in
`table`, each a list for every flow, as a listing asks for the notes of one flow.  `Copy` and `Fade` are a copy button and its timer; the timers of a drawer that is
gone do nothing any more (`Unmounted`).  History: `crossed` (a
request overlapped with a request for notes, or something failed) and `added`.

## 3. Runs that pass

| Run | Bounds | What it shows |
|---|---|---|
| `RuntimeConfig_requests` | 2 analysts, the pipeline, 1 threshold with 1 value besides the default, 1 rule id, all faults | `TypeOK`, `OverridesMirrored`, `RulesMirrored`, `DeletedStaysDeleted`, `Reconverges` |
| `IncidentCorrelation_late` | 2 workers, 2 sources, 2 classes, window 1, clock to 2, events up to 2 late, 3 events, clears | `TypeOK`, `IncidentHasOneSource`, `IncidentsFollowWindow`, `ChainFromOneIncident` |
| `AlertArchive_status` | 1 writer, 2 analysts, 1 reader, 1 flow, 2 alerts, ring of 1, 1 pending mutation, all faults | `StatusSticks`, `FallbackEnds` |
| `SlidingWindow_failover` | 2 workers, window 1, clock to 2, events up to 2 late, 3 events, Redis fails, clears | `NothingLost`, `ReadsComplete` |
| `AlertDelivery_broadcast` | 2 dashboards with a socket each, 2 alerts, connections break | `Delivered` |
| `AlertDelivery_hook` | 1 dashboard, 2 sockets, 2 runs of the effect, 1 alert, buffer of 2, connections break, clears | `NoDuplicates`, `OneSocket`, `Delivered`, `Reconnects` |
| `KafkaIngest_poll` | 6 records of either kind, batches of up to 3, any outages | `LossOnlyBehindBad`, `CatchesUp` |
| `ReplayJobs_replay` | a job or an older replay of either of 2 captures (a DNS lookup beside a TLS handshake; a flood of SYNs with a frame that is not IPv4), or both beside each other of the flood (`SmallBeside`); docker present, any step may raise, the backend's consumer polls beside one replay of the flood | `JobHandlesItsCapture`, `BytesConserved`, `LegacyEnriched`, `JobsEnd`, `ImplementsJobStore` |
| `ReplayPanel_polls` | 2 jobs, 2 polls and 2 triggers in flight, 1 upload, the network fails, restarts | `EndIsTrue`, `EndIsShown` |
| `RulePanels_answers` | 2 thresholds with 2 values, 2 sources, one in long IPv6, 2 rules, 2 changes, 1 failed request | `AppliedIsLive`, `TabsAgree`, `SuppressedIsLive`, `FormsReturn` |
| `AlertTable_views` | 3 alerts of 2 flows, buffer of 2, pages of 1, 2 statuses, 2 changes and 2 fetches in flight, failures | `HeldUnderMouse`, `ArchiveIsPage`, `StatusAgrees`, `StreamHolds`, `Unfreezes` |
| `Console_tab` | 2 accounts, 2 flows of different classes, 2 notes (1 while things fail), 2 reads in flight, 2 timers | `SessionAgrees`, `NotesAgree`, `LabelStands`, `FormsReturn` |

Why the bounds suffice for the cases of interest: two handlers are what it takes
to interleave, and a third thread (the pipeline) refreshes under them, while the
theorems of section 6 hold for any number of rules and thresholds; a ring of one overflows with the second
alert.  Clocks run to twice the window, so that events expire, late ones are
pruned at both ends, and a key's TTL (two windows) runs out.  Two overlapping
broadcasts and a client that leaves are what it takes for one to skip a client
of the other; a second run of the effect is what it takes for an old socket, its
timer or its fetch to meet the new one.  A job and an older replay are all it takes
to take a container away, and differ in all that two replays can differ in.  Beside each
other they take the small capture (`SmallBeside`, a constraint on what is asked for and
read): there they interact, by the container's name only, and the lines are few; alone
each takes either.  Two connections in a capture tell a cache by connection from a cache
of one, and two questions under one uid the last from the first.  The consumer reads the
topics a replay only writes; what it makes of them is explored in `KafkaIngest_poll`; batches
of three and six records have good ones on both sides of a bad one.  In a browser
two requests of a kind in flight are what it takes for the later one to be
answered first, and two jobs, flows, rows or sources for an answer to meet the wrong
one; three alerts in a buffer of two push one out, and give three pages of one; a
single failure lets a form meet it at each of its requests.  `MaxEvents`, `MaxAlerts`,
`MaxClock`, `MaxEffects`, `MaxMutations`, `MaxClicks`, `MaxFailures`, `MaxPolls`, `MaxRuns`,
`MaxUploads`, `MaxPatches`, `MaxFetches`, `MaxNotes`, `MaxRisked`, `MaxReads` and `MaxTimers` are
named in the modules and bound the inputs only, or keep a client from a new
request while as many are pending.  The largest run has 1.5 million states.

Deadlock is checked in all runs of `RuntimeConfig`, `AlertArchive`, `AlertDelivery` and
`ReplayPanel`.  The other modules stop when the clock, the events, the records, the
replays or what the analyst does has reached its bounds, so their configurations
switch the check off.

Each module states its type invariant.  TLC checks it in the runs of
`RuntimeConfig` and `IncidentCorrelation`, and these and that of `AlertDelivery` are
proved; the inductive invariants of the other proofs contain the sorts they need, and
elsewhere it documents them.

Symmetry is used in safety runs only, over threads and, where all members are
treated alike, sources, classes, flows, rules or dashboards.

## 4. Fairness

`RuntimeConfig!FairSpec`: time passes (the throttles run out), a handler that has
begun is scheduled until it answers, and the worker loop of the backend goes on
evaluating alerts, each of which reads the active rules.  No fairness is assumed
of an analyst or of Redis.  `Reconverges` is conditional on Redis staying up and
the analysts being quiet from some point on.

`AlertArchive!FairSpec`: the throttle runs out, a call that has begun goes on, and
dashboards keep reading: `IncidentsPanel.tsx:94` polls every 5 s.  `FallbackEnds` is
conditional on ClickHouse staying up.

`AlertDelivery!FairSpec`: the event loop gets to every task and endpoint, a
connection request is answered while the network lasts, browsers deliver the
events of a socket (a broken connection is noticed by the browser and by
`receive_text`), and timers run out.  No fairness is assumed of users, of the
network, or of the initial fetch.  `Reconnects` is conditional on a network that
holds from some point on.

`KafkaIngest!KafkaSpec`: the loop goes on polling and a poll returns when records are
there.  `CatchesUp` is conditional on a broker that answered the constructor and
that stays up from some point on.

`ReplayJobs!FairSpec`: the threads of replays run, and a subprocess ends or is given
up after its 30 s.  Nothing is assumed of the container, so `JobsEnd` rests on the
timeout alone, and of Kafka.

`ReplayPanel!PanelFairSpec`: the interval ticks, every poll of a job is answered or fails
and its answer handled, and a job ends, which is `JobsEnd` of `ReplayJobs`.
`EndIsShown` is conditional on a network that holds from some point on.

`RulePanels!PanelsFairSpec`: every request is taken up by the server or fails, and what
follows its answer is run.  Nothing is assumed of the analyst or of the order.

`AlertTable!FairSpec`: the timer that a mouse leaving the table starts fires.
`Unfreezes` is conditional on an analyst who has left, and on no focus having been
lost without a blur event.

`Console!FairSpec`: requests for a login and for notes are taken up and answered,
and timers fire.

`IncidentCorrelation` and `SlidingWindow` state safety properties only.

## 5. Disagreements with the documentation

The models reproduce the following, which the repository's text either
contradicts, says nothing about, or only hints at.  The properties above are
stated so that they allow for them.

On the server:

* A configuration write that failed is never repeated, yet `persistent` stays true
  (`engine/runtime_config.py:127`; the module's docstring at line 17 promises that it
  tells): after a restart the override is gone (`PersistPut`).
* The stage dictionary is created outside of the lock
  (`engine/models/aggregator.py:140`): two threads create it at once and one loses its
  stages (`CreateStages`).
* The shipper of an "isolated" replay (`backend/app/main.py:151`, `735`) sends its records
  to Kafka, and the live pipeline evaluates them too.
* The clear endpoint flushes the Redis database, which holds the configuration
  too (`ClearAlerts`): the rules vanish from memory at the next refresh, the thresholds
  stay live until a restart; a crash between DELETE and HSET loses all overrides
  (`PersistDelete`); a refresh whose HGETALL fails installs no rules
  (`FetchRules`).
* A late event can split an incident: it moves the last alert of its source
  back, and an alert of another source then prunes it (`Forgotten`).
* What is recorded during the archive's fallback is never inserted afterwards;
  a note added meanwhile is no longer listed once ClickHouse is back (`Listing`); a table
  that was away at the start is not cleared when it returns.
* A deque holds on to a late event behind a newer one; Redis answers events
  newer than the reference time and drops one exactly as old as the window, the
  deque keeps it; a TTL can run out between ZADD and EXPIRE (`evicted`).
* An insert that is under way during a clear puts its alert in the truncated table
  (`Insert` after `Truncate`).
* A job's records reach Kafka twice (`Evaluate`: the shipper sends each line and the
  job sends it again) and the live pipeline a third time, by its own call.  Its
  conn lines come first, so they are never enriched (`Order`).  Its alerts are never
  broadcast: `get_running_loop()` raises in its thread.
* A capture that the PCAP engine cannot read, which includes the pcapng format that
  the upload accepts, is a job that completes with no flows; one it fails in completes
  with what was in its directory by then (`Begun`, `exported`).
* The container of a job that outlives its 30 s writes on into the logs that the PCAP
  engine has emptied and the shipper reads (`Linger`, `Ahead`): a connection may then be
  evaluated twice, once from each engine under its own uid, and counted twice in the
  job's report.  `JobHandlesItsCapture` promises a complete and unmixed capture only if
  the PCAP engine wrote undisturbed.
* A connection with several dns lines is enriched with the last question only (`Process`):
  that of an A question is lost to that of its AAAA question.
* A flood of two SYNs is counted as one inbound and one outbound packet by the PCAP
  engine (`NewFlow`, `Forward`), and Zeek's own counts are turned around as a whole
  (`Swap`).
* The letter P of the PCAP engine's history is not the D that the shipper reads
  (`History`, `FlagsOf`): PSH is lost.
* A consumer that found no broker when it was built never looks for one again
  (`KafkaInit`).
* Alerts broadcast while a socket is down stay missing from its dashboard, and
  alerts on the wire come back after a clear (`since`, `dropped`).
* A note whose insert failed is answered as added, and is not listed when the dossier
  is opened again (`AddNote`).
* A PATCH of an alert that has left the ring answers 404, although it is applied to
  the table (`ServePatch`).

On the dashboard:

* A late poll answer brings an earlier job back; an answer "queued" is shown with
  the look of a failure and enables RUN REPLAY again (`Polled`, `Card`).
* A source that a partial or an expired rule names is shown as SUPPRESSED, because
  only `enabled` and `source_ip` are looked at (`LoadedSuppressed`).  The set is loaded once:
  a load that was served before a confirmation and is answered after it takes the
  confirmed source off the set again, and a rule that is switched off elsewhere stays on
  show; `SuppressedIsLive` is about one analyst, who does not edit rules meanwhile.  A long IPv6 address
  is cut at its first colon and refused (`Clean`).  A source typed for one type of rule
  stays, hidden, and is sent with another (`Form`).  A tab of which two requests
  overlapped shows whichever was answered last (`unsure`).
* A change of status in the archive view shows only in the live buffer (`Patched`).
  The one slot `statusUpdating` is given up by the answer to another row's change
  (`ChangeStatus`).  A select that is disabled loses its focus without a blur event, and
  `dropdownOpen`, which Resume does not reset, holds the stream from then on (`lost`).
* Until a page is answered the rows of the one before are shown under its number
  (`Turn`).  A table that a pause holds empty says that no alerts match the
  filters, with a button that clears none (`ClearEmpty`).
* A late answer for the notes of an earlier alert overwrites those of the current
  one, and a note that is added while they are read may appear twice or vanish (`Read`,
  `crossed`).  The draft outlives the alert it was typed for, and what is typed while a
  note is sent is cleared with it (`Noted`).  An alert that was selected when its
  user signed out is open for the next one (`SignedIn`).  A COPIED label is kept by
  the name of its field and survives a change of alert (`copied`); of two copies of one
  field the timer of the first takes away the label of the second (`Fade`).
* Signing out clears the storage that other tabs fall back on (`Logout`), and the
  buttons of the accounts stay enabled while a login is under way
  (`FillCredentials`).  `threatlens_session_expired` is read, and nothing writes it.

## 6. Proofs

Every safety property of section 3 is proved, for every value of the constants that
satisfies the assumptions its module states: disjoint sorts, known fault names, bounds
that are numbers.  Nothing is assumed finite but the workers of
`IncidentCorrelation`, and of captures only that their frames have lengths.  Where a
property is not inductive, the invariant that is stands at the head of its proof,
and each step is a lemma.  The action properties (`StreamHolds`, `LabelStands`) and
the refinement `ImplementsJobStore` follow from invariants the same way.

`RuntimeConfigProofs`: `TypeCorrect`, `MirrorRules` (`RulesMirrored`), `DeletionIsFinal`
(`DeletedStaysDeleted`), `MirrorOverrides` (`OverridesMirrored`).  None of the last three
is inductive.  The argument goes through what a thread
may rely on at each label.  `LockOK` says that the thread at a critical label,
and no other, holds the lock, and that a process that is not up has no
threads; `ArgOK` gives the sort of the argument at each label; both are proved
inductive once (lemma `Locking`) and used everywhere.  `HeldRule`: between the
change in memory and the command to Redis the rule under way is `unsynced`, and
it is absent or present as the label says, since only the lock's holder changes
rules.  `SnapshotOK`: a handler that writes the overrides holds a snapshot equal
to `live`, or another handler has changed `live` since and will write after it;
this is why `SetLive` may be outside of the lock.  `InstallOK`: what a refresh
has fetched is what Redis holds until it is installed, outside `unsynced`.
`MemoryMode` and `IssuedOK`: a deleted id is never issued again, and without
Redis nothing in Redis differs unnoticed.

`IncidentCorrelationProofs`:

* `TypeCorrect`.  `nextId` stays within the bound because every
  id given out, and every event still to be correlated, is an event that has
  begun; the dictionary of stages is assigned at most once by each worker because
  who is about to assign it has seen none (`CountOK`, by the cardinalities of the
  sets of workers at two labels).
* `OneSource` (`IncidentHasOneSource`), from `Owned`: ids in the map and in the
  log have been given out, no two sources have one id in the map, and whoever is in
  the log under the id of a source is that source.  Pruning and clears only take
  entries away, so they keep it.
* `WindowDecides` (`IncidentsFollowWindow`), from `Remembered`: a source that the map
  knows is there with its last alert of the log, and one it does not know has none,
  or something that makes it forget came after.  So a new alert is compared with the
  last of its source or with none, and in the second case the split is excused.
* `ChainOfOneIncident` (`ChainFromOneIncident`), from `ChainInv`: what is in a
  stage set, in any of the dictionaries, was detected in that incident; a worker
  past its correlation has its event in the log; before it scores, its own classes
  are in the set it holds.  That the sets are never taken from is what lets threads
  share them without a lock.

`AlertArchiveProofs`: `StatusesStick` (`StatusSticks`).  The invariant `ArchiveInv` adds to the
sorts (`ThreadTypes`, `StoreTypes`) that an alert's number is given out once: wherever an
alert is held, in the ring, in the table or by the thread about to insert it, it
has been recorded and is of one flow.  `Marks` then says that a mark agrees with the
override of its alert's flow and with the ring.  What the table and the mutations
under way say does not matter: the override decides over every row.  Lemma
`HeldBefore` does the steps that hold nothing new once for all.

`SlidingWindowProofs`: `NoneLost` (`NothingLost`) and `CompleteReads` (`ReadsComplete`).
`LossInv` keeps the time stamp of every event under way behind the clock, so that a
worker, which prunes as of its own event, removes less than one that looked at the
clock.  A deque is pruned from its front up to the first event to be kept
(`PopKeeps`), which is found with a least number (`LeastNatural`).

`AlertDeliveryProofs`: `TypeCorrect` (`TypeOK`), `ListedOnce` (`NoDuplicates`), `SocketIsOne`
(`OneSocket`), `NoneSkipped` (`Delivered`), all from `DeliveryInv`.  Alerts are numbered
in the order they are recorded and broadcast once (`Numbered`), so that no page
of the archive has one twice.  A socket that is connected and
served is registered (`Registered`), because what a broadcast unregisters has no
connection any more, and is not used again (`Addressed`).  Hence the copy of the list
that a broadcast takes has it, at a place the broadcast has yet to come to or has
sent to (`OwedTo`); what was sent is on the wire or in the buffer, and only a clear or
a full buffer lets go of it (`Reached`).  A third of the module is lemmas on the
operators the hook is made of: what removing, prepending, deduplicating and cutting a
list does to its elements and its length.

`ReplayProofs`:

* `BoundedLoss` (`LossOnlyBehindBad`), inductive together with the sorts of `topic` and
  `next`: a round loses only what is behind a bad record of its batch, and records
  never change.
* `Implementation` (`ImplementsJobStore`).  `InStep` relates the label of a job's thread
  to its status; with jobs and older replays disjoint, each step then queues, starts
  or ends one job, or leaves `status` alone.
* `CaptureHandled` (`JobHandlesItsCapture`), `NoByteLost` (`BytesConserved`),
  `OlderReplayEnriched` (`LegacyEnriched`), for every capture and whatever Zeek makes of it
  within `ZeekAssumption`.  Two things meet here.  What the engine and the shipper compute:
  `AggregatedOK` says of the flows of the first i packets that a connection has one, with
  all its bytes, so that in the end each has one conn line, and at most one dns and one
  ssl line of the PCAP engine (`ExportedLines`); `Sources` puts this beside what is assumed
  of Zeek; normalisation exchanges directions but loses nothing (`ConnRecord`), and a line
  changes the cache for its connection only (`ProcessProperties`).  And what a replay has
  done so far, while others take its container and both engines write the file it reads:
  `Sound` of its `View`, the part of the state that is its own.  `Placed` says of every
  record that it is of a line behind which the reader is, of the file under way or of an
  earlier one; lines are numbered by who wrote them and each number is passed once, so no
  record is there twice (`Once`).  `Covered` says that of a file which the PCAP engine wrote
  alone all lines up to the last one are among the records.  `Tells` names the last record
  of another log about a connection, and `Remembered` that the cache knows what it says.
  `ReplayInv` is this for all threads, and a step changes the view of one.
* `EndsAreTrue` (`EndIsTrue`).  The end of a job is final in the store (`Onward`), so
  that an answer which tells of one is true whenever it comes; `PanelInv` says this of
  the answers in flight, the card and the message.

Induction over a capture is done without the library's induction theorems, which the
installed provers cannot instantiate.  A recursive function is a `CHOOSE`, so the
lemma `Recursion` first shows that there is such a function, up to every number,
and then follows it: if a claim failed at some index there would be a least one
(`LeastNatural`, from the well-foundedness of the natural numbers), and the step
before contradicts it (`Upwards`).

`DashboardProofs`:

* `RowsUnderMouse` (`HeldUnderMouse`) and `RowsStay` (`StreamHolds`), from `PauseInv`: the
  table's record of the last pause is the pause, and no timer runs while the mouse is
  in.
* `RowsOfPage` (`ArchiveIsPage`), from `PageInv`: only the request for the page that is
  shown is alive, and an answer is that of the page it was asked for.
* `StatusesAgree` (`StatusAgrees`), from `StatusInv`: for a flow whose changes neither
  overlapped nor failed there is one in flight at most; while there is one, no alert
  has been told; once it is answered the server has its status.
* `AppliedIsTrue` (`AppliedIsLive`), `TabsShowTheServer` (`TabsAgree`), from `PanelInv`: a row that is being saved has one request, with the
  value asked for, and a tab that is not unsure has one request at most: without it
  the tab shows what the server has, and with it the answer does.
* `SuppressedAreLive` (`SuppressedIsLive`), from `SuppressInv`: while incidents are looked at
  rules are only added, so that what an answer in flight told of a rule, whether it is the
  load of the mount or a confirmation, still holds when it comes.

`ConsoleProofs`:

* `SessionIsOne` (`SessionAgrees`).  `SessionInv` adds that while a login or its timers are
  under way the form is loading and nobody is signed in, so that there is one login at
  a time and none meets a user.
* `DossierAgrees` (`NotesAgree`), from `NotesInv`: no note is stored twice, and none before
  its request is taken up; while the requests of a dossier do not overlap, it waits
  for one listing and nothing else, or shows what the archive has but for the notes
  whose answers are on their way.
* `LabelsStand` (`LabelStands`), from `LabelInv`: a label that says COPIED has a timer of its
  field.

Model-checked only: the liveness properties `Reconverges`, `FallbackEnds`, `Reconnects`,
`CatchesUp`, `JobsEnd`, `EndIsShown`, `Unfreezes` and the two `FormsReturn`.  Their fairness
conditions are about `ENABLED`, which the prover does not reason about.

## 7. Plan

Done: all modules of section 2, and a theorem for every safety property of section 3.
What would come next, by how much of the system's promise hangs on each:

1. `Pipeline`: the order of steps for a record (ingestion to the windows, engines,
   correlation, suppression with its matching and expiry, archive), composed of
   the suppression rules and the aggregator.
2. `Detectors`: the engines and metrics as operators on a window, with thresholds as
   parameters and scaled integers for ratios; checked against reference
   definitions and for monotony (more of an attack never scores less).
3. The threads of the telemetry counters, and the queue that stands in for Kafka.
4. Abstract specifications of a store in memory in front of a server that comes
   and goes, which `AlertArchive` and `RuntimeConfig` implement, and of a window as
   the set of events of the last `Window` time units.

## 8. Not modelled

Components:

* The detection engines and the metrics are pure functions on floats; their verdict
  is an input.  The pipeline keeps no state: its steps on the stores are the workers
  of `SlidingWindow` and `IncidentCorrelation`, and the matching of a rule is a pure
  predicate.
* Authentication: how a token is made and verified.  Who holds one is in `Console`.
* The synthetic worker's and the mock producer's traffic is a generator; what the
  worker and `lifespan()` do to the stores are actions of the component modules.
* The gauge, the trends, the health panel and the navigation bar draw figures that
  are polled and replaced, and no other part depends on them.  (The gauge draws
  random figures when a request fails, and its history outlives a clear.)
  `LoginModal` and `SystemHealthPanel` are rendered by nothing.  The bar's clear is in
  `AlertDelivery`, its logout in `Console`.
* The building blocks of the interface, start-up scripts, and Zeek's own scripts.

Operations of modelled components: the loops of the shipper that tail or pace live
logs; `prune_window`, which has no caller, and the aggregations over a window; the
heartbeats and counters of a socket; the queue that replaces Kafka in tests;
filters of the table by class, confidence and text, which differ from the window in
their test only.

In the modules: formatting, logging, the bytes of packets, the fields of alerts and
rules that no property tells apart, unreadable values in Redis, capture files that
are not pcap, a ClickHouse that changes between the constructor and `lifespan()`,
timestamps in the archive that differ from the order of arrival, and the two
TRUNCATE commands of a clear as separate steps.
