# A TLA+ model of the EPICS MCP server

`src/src/epics_mcp` is a Model Context Protocol server for EPICS control
systems: an assistant calls its tools to read, monitor and (when an operator
allows it) write process variables, to query the services around them
(archiver, ChannelFinder, alarm logger, naming service, Olog) and to diagnose
what is wrong. This directory specifies the parts of it that keep state, run
concurrently or fail in parts, checks them with TLC, and proves what matters
most with TLAPS.

## 1. Inventory

The layers are `server.py` (tools, boot) -> `tools/` (adapters) -> `services/`
(queries, clients) -> p4p and HTTP. All tools are coroutines of one event loop;
blocking work (every p4p and HTTP call) runs in worker threads. A cancellation
of a tool stops its coroutine and never its thread.

| component (files) | state | operations | what is hard | correct when |
|---|---|---|---|---|
| PV write gate and tool (`safety.py`, `tools/write.py`) | the rate window, the operation counter, the durable audit log | gate, pre-read, bounds, ATTEMPT, put, outcome, readback | a put that outlives its timeout, its cancellation or its process; the same PV written by others; failures half way | nothing unsanctioned reaches an IOC; the log is a true account of what did |
| rate limiters (`safety.py`, `olog_safety.py`, `services/_http.py`) | a deque of timestamps under a lock, three copies | admit or refuse | threads between the statements; the window's edge; maxlen | never more than the limit in a window; a refusal costs nothing and is never unjustified |
| p4p client (`services/epics_client.py`) | the shared context | get, batch get with fallback, put, monitor | partial failure of a batch; callbacks that race the end of a monitor | every name answered once; values in order, truncation told |
| monitor bulkhead (`services/_concurrency.py`) | a pool of its own | run a monitor | saturation | monitors never delay reads and writes |
| drive limits and readback (`bounds.py`, `readback.py`) | none | decide in/out of limits, same/different value | missing, infinite or inverted limits; enum labels; tolerance | "not checkable" is never an accept or a mismatch |
| search reach (`epics_address.py`) | none | list violations of a loopback-only reach | the defaults of two client libraries | unset means broadcast; a name is never trusted |
| Olog write gate, tools, client (`olog_safety.py`, `tools/olog.py`, `services/checkers_olog.py`, `services/olog_client.py`, `services/olog_attachments.py`) | the rate window; the audit log; the entries are on the server | create, reply, attach, update | the server replaces and prunes, so that a change is a read and a write of the whole entry; threads in parallel | only allowed logbooks are written; one line per verdict; nothing lost that nobody asked to change |
| REST transport (`services/_http.py`) | the shared session, the throttle | GET with retries, write without | a retry of a write; redirects | a write is sent once, to the host that was approved |
| read planes (`services/*_client.py`, `services/checkers*.py`, `services/naming_identity.py`) | none | one query each | an unreadable answer taken for "no" | a negative is only said when the service said it |
| diagnosis, validation, coverage, cross-plane, device lookup, doctor (`services/diagnose.py`, `coverage.py`, `crossplane.py`, `device_lookup.py`, `doctor.py`, `tools/validate.py`) | none | combine the planes | one plane fails, lists are cut off | withheld is not no; the live probe alone decides what is connected |
| startup scripts and databases (`services/e3_db.py`) | none | parse, follow the loads | a load that is not followed, a macro that is set again | a set of channels is called complete only when it is |
| boot (`server.py`) | singletons | refuse to start, or serve | a write gate without a durable log | a write-enabled server has its gate checked and its log durable |
| the rest (`config.py`, `paths.py`, `presets.py`, `prompts.py`, `resources.py`, `cli_*.py`, scripts) | none | text and parsing | - | - |

## 2. Modules

| module | what it is |
|---|---|
| `TokenPool` | abstract: a rate limiter as a pool of tokens, each call atomic |
| `RateWindow` | the limiter as written: lock, clock, deque, one action per statement |
| `RateWindowProofs` | its theorems |
| `AuditedWrite` | abstract: what the audit log promises of a write |
| `PVWrite` | `set_pv_value`: gate, coroutine, worker thread, IOC, cancellation, restart |
| `PVWriteProofs` | its theorems |
| `GatedWrite` | abstract: what the Olog gate promises of a write |
| `OlogWrite` | create, reply, attach and update: gate, thread, round trip, Olog server |
| `OlogWriteProofs` | its theorems |
| `PVMonitor` | `monitor_pv`: coroutine, thread, callbacks, and the two pools of threads |
| `PVMonitorProofs` | what holds of one monitor, and its invariant |
| `PVBatch` | `pv_get_batch` with its fallback, and the check of a list in chunks of it |
| `DisplayViews` | the two views of a display file that `validate_pvs` extracts |
| `DisplayViewsProofs` | its theorem |
| `RestCall` | one call of the transport: throttle, attempts, redirects, capped body |
| `TimeWindow` | what a start and an end mean, to the caller and to three servers |
| `ChannelQuery` | `find_channels`: the filters, the query, the answer |
| `PlaneReads` | the other read tools of naming, archiver, alarm logger, ChannelFinder |
| `LogbookReads` | the read tools of the logbook |
| `Diagnose` | `diagnose_connection` |
| `Coverage` | `coverage_audit` |
| `Crossplane` | `crossplane_check`, with the parser of startup scripts |
| `DeviceLookup` | `find_device` |
| `Doctor` | `epics-doctor`, and its exit code |
| `Boot` | `main`, the start of both gates, the search reach, the reported posture |
| `MCRateWindow`, `MCPVWrite`, `MCOlogWrite` | instances of one component |
| `MCLive` | `PVMonitor`, `PVBatch`, `DisplayViews` |
| `MCReads` | `RestCall`, `TimeWindow`, `ChannelQuery`, `PlaneReads`, `LogbookReads` |
| `MCReports` | `Diagnose`, `Coverage`, `Crossplane`, `DeviceLookup`, `Doctor`, `Boot` |
| `MCLiveProofs`, `MCReadsProofs`, `MCReportsProofs` | the theorems of the composed instances |

How they fit. `RateWindow` implements `TokenPool`; `PVWrite` and `OlogWrite` use
the pool (its `tokens`, `Admit` and `Expire`) in the place of the window, which
the refinement justifies, and implement `AuditedWrite` and `GatedWrite`. The
layers of the read side meet in what one hands to the next, and each module has
that as a choice: a request of `PlaneReads` or `LogbookReads` ends in one of the
outcomes that `RestCall` shows there are; a look of `Diagnose` or a cell of
`Coverage` in one of the answers of `PlaneReads`; the read of `DeviceLookup` is
one `PVBatch`. So the three composed instances have one behaviour per run of
one part, with the others at rest (`part` says which): the parts share no state,
and interleaving them would multiply the states and add no behaviour. Where
parts do share state, they are interleaved: the monitors and the reads over their
pools, the writes over the gate, the IOC and the entry.

Definitions called "broken" or "broken variant" are the code with a plausible
bug: each property is checked to be violated when a variant takes the place of the
definition after it. No specification uses them.

### RateWindow

`clock` is `time.monotonic()`, `lock` the `_rate_lock`, `window` the deque
`_timestamps`, `pc` and `now` the program counter and the local of each calling
thread. `Acquire`, `Sample`, `Purge` (one `popleft` a step), `PassUnderLimit`,
`RefuseOverLimit` and `Record` are the statements of the critical section of
`check_write_allowed`; `Bounded` is `deque(maxlen=...)`. `admitted` is a history
variable that the actions never read. The purge removes what is *older* than
the window, so a token exactly as old as the window still counts, and
`WindowBound` is stated for closed intervals.

### PVWrite

One step is what a coroutine does between two awaits:

| code | action |
|---|---|
| `check_write_allowed` raises | `Deny` |
| it returns, and the pre-read is started | `Admit` |
| the pre-read's thread reads the IOC, or fails | `PreReadReply`, `PreReadFail` |
| the coroutine resumes: bounds refused, or ATTEMPT and put | `RefuseBounds`, `Attempt` |
| the put's thread starts, sends, gets the reply or not | `WorkerStart`, `WorkerSend`, `WorkerOk`, `WorkerFail` |
| the put await returns, raises, is cancelled | `PutReturned`, `PutFailed`, `CancelPut` |
| the readback's thread; the verdict | `ReadbackReply`, `Unverified`, `Verify` |
| a cancellation at either read | `CancelRead` |
| the process dies and another starts | `Restart` |
| the IOC and its other clients (external) | `Land`, `Lose`, `Clear`, `OutsideWrite`, `OutsideLimits` |

A put that is queued is withdrawn by a cancellation (`Withdrawn`: a future that
no thread has taken is cancelled); one that a thread has taken is not. A request
on the wire survives its thread's timeout, its call's cancellation and its
process's death, and is applied at most once, at any later time, or lost.
`trail` is the audit file, by call; `landings` is what the IOC applied.

A record need not keep what it is sent (`Stored`): its type makes a value of it
(`Cast`, a fraction in an integer record), and the limits it has at that moment
force it into them. A command record (`Commands`) clears itself to `Idle` at any time
after the pulse (`Clear`), as `docs/safety.md:33-37` warns. All three are why the
code reads back; `ReadbackExplained` says that a verdict has such a cause, at the IOC and
not before our value landed: a mismatch is never made up by a stale reply, nor a match.

Abstracted: which values are near each other (`Near`) and within limits
(`OutOfBounds`) `readback.py` and `bounds.py` decide in detail;
the window of 60 s is the token pool; the audit sink accepts its lines (the
logging layer swallows a write error, so that a full disk loses lines silently).

### OlogWrite

All of a write runs in one worker thread (`asyncio.to_thread(_run)`), its audit
line included, so that a cancellation of the tool changes nothing. Threads run in
parallel; a step is what a thread does between two requests, or one critical
section of the gate.

| code | action |
|---|---|
| `check_write_preconditions` of a create | `DenyCreate`, `BeginCreate` |
| `check_write_env_and_url` of an attach or update | `DenyUnread`, `BeginFetch` |
| `get_raw_entry` | `Fetch`, `FetchFail` |
| the refusals of an update; the allowlist | `RefuseUpdate`, `DenyFetched`, `PassFetched` |
| level, logbook and tag lookups, `plan_attachments` | `Vet`, `VetFail` |
| `check_write_allowed` | `DenyAdmission`, `Admit` |
| `read_uploads` | `ReadUploads`, `ReadUploadsFail` |
| the client: refusal of an attach, the request | `RefuseAttach`, `Send` |
| the answer, and ALLOW; anything else, and FAILED | `PostOk`, `PostFail` |
| the Olog server and its other users (external) | `ApplyCreate`, `ApplyPost`, `Lose`, `OutsideEdit` |
| the process dies | `Die` |

The server is modelled from what the client's comments say of it: a post
replaces the entry, and `retainAll` keeps the attachments whose names, up to case,
are listed (`Retained`). An entry has its logbooks, plain fields (title, level,
tags, properties), owner and attachments, and its body twice: the `source` and the
`description` that the server renders from it (`Render`). An entry of an old client has
no source (`NoSource`). `PostedFields`, `PostedSource` and `PostedDescription` are what
the client puts into a post; the owner becomes the account of whoever posts. `raw` is the entry as a call read it, `applied` what the server did, in order.
Whether the URL may be written to (`open`) is a choice of the configuration.

### PVMonitor

A subscription has three actors: the coroutine (`call`), the thread that opens
it, waits and closes it (`thread`), and the callbacks of p4p, in a thread of
their own (`callback`), which may outlive the close by the one under way.

| code | action |
|---|---|
| `monitor_pv` is awaited; a thread of the monitors' pool takes it; its end | `Monitor`, `StartMonitor`, `Release` |
| `ctx.monitor`, `stop_event.wait`, `sub.close` | `Subscribe`, `SubscribeFail`, `StopWaiting`, `Close` |
| p4p calls back: with a value, a notice | `Deliver` (external), `RecordNotice`, `Collect` |
| the coroutine reads the count, the list, the notices, one after the other | `Measure`, `Slice`, `Judge`, `Explain`, `Fail` |
| a cancellation | `Cancel` |
| a read beside it, in the default pool | `Read`, `StartRead`, `EndRead` |

What the callbacks write and the coroutine reads is one step per access, so
that a late callback comes between any two of them.

### PVBatch, DisplayViews

`PVBatch` is both tools, by `caller`. `RefuseEmpty`, `RefuseSize`, `StartNative`,
`NativeOk`, `NativeContract` and `NativeFail` are the native read; `ReadEnds`
and `Gather` the fallback, in which the answers come in any order and a channel
may have come or gone since. The two loops over the names of a chunk take one
name a step (`looped`): `File` or `GatherCancelled` in `pv_get_batch`, which
`ReturnBatch` ends, and `Emit` in `_validate_pvs`, whose chunk `Merge` counts. A
name may be asked for twice.

`DisplayViews` takes the walk from another package, as the comments of
`tools/validate.py` describe it (`Visit`, external), with its cap, and models what
`_run_validate` makes of its rows and diagnostics: what is shown from a file, what
is in it, and which of the two is called a lower bound. Any file may be capped, those
that declare no channel included; `DisplayViewComplete` says what a display view that is
not called a lower bound may miss even so.

### RestCall, TimeWindow, ChannelQuery

`RestCall` follows one call from the throttle to the outcome that its caller can
tell apart: an attempt is lost, met by a busy server, answered or redirected, the
body comes in blocks or is cut, and `Blame` says which of the two exceptions it
is. `sent` and `applied` are history: what left the process and what a server did.

`TimeWindow` has instants at half the resolution of the wire. Beside what the
code accepts and sends (`Readable`, `Accepted`, `Wire`, `Swapped`) it defines what a
server makes of the wire form (`Instant`) and what the caller meant (`Meant`).
`ChannelQuery` does the same for filters: `Params` is what is sent, `Holds` how
ChannelFinder reads it, `Meant` what the caller meant and `Selected` the same but
for a star among `not_property_values`, which the code lets through and the grammar
it records reads as a lack of the property. The allowlist, the registry and the
queries are constants, which only the run gives small values.

### PlaneReads, LogbookReads

One tool per behaviour. A tool is one or two requests (`NamingHead`, `NamingGet`,
`NamingIdentity`; `AlarmGet`, `AlarmTree`; `VocabularyGet`, `TagsGet`; ...), each of
which may fail (`Unreadable`, `Withhold`); between them the plane changes
(`Drift`) and `moments` remembers what it was. The server at the URL is the
plane or another one (`host`).
What the client cannot tell, the properties do not claim: another server that
answers a naming lookup with a record that has a `status`, or a listing with `[]`,
is believed (the model lets it happen); an alarm PV hidden behind a sibling's newer
record (`"masked"`) is answered with no, since one document is asked for. `EsMax`,
the page the alarm logger clamps to, is taken to exceed the limit: a logger
with a smaller one cuts a page unseen, as `alarm_client.py:284` says.

`LogbookReads`: `Start` refuses what Olog would misread, `Search` and `CrossCheck`
are the two requests of a search by levels, `Fetch` and `Write` a download, between
which somebody else may create the file.

### Diagnose, Coverage, Crossplane, DeviceLookup

All four are a world (`world`, `site`) that changes a bounded number of times
(`Drift`), a history of its states (`moments`), looks at it that fail one by one,
and a report. Properties say of a report that each thing it asserts was so at
*some* moment: the looks are not made together, so no stronger claim is true.

| module | looks | report |
|---|---|---|
| `Diagnose` | `ProbeLive`, `GatherChannelFinder`, `GatherNaming`, `GatherArchiver` (in any order; the alarm plane is always silent, as `_gather_alarm` is) | `Report`: `Cause`, `Confidence`, `WithheldPlanes` |
| `Coverage` | `Walk`, `AskRegistry`, `AskPlane` (record by record) | `AuditCoverage`: rows, gaps, four lists |
| `Crossplane` | `Start` (script and displays), `AskNaming`, `AskRegistry` | `Join` |
| `DeviceLookup` | `Start`, `ReadLive`, `AskIocs` | `Merge` |

`Crossplane` has the script as a sequence of statements; `Served` is what an IOC
that runs it serves, `Resolved` and `Complete` what `parse_st_cmd` and
`load_ioc_db` make of it. In `DeviceLookup` a registered channel shows an IOC only if
its record has an `iocName` that the allowlist of properties lets through (`site.named`,
`Listed`, `HasIoc`).

### Doctor, Boot

`Doctor`: each plane is `Begun`, then a `Probe`, `Identify` and `Metrics` of its own, in
any interleaving; `Finish` is the exit code. `Boot` is about the EPICS
environment: `Broadcasts` and `Here` are what the two client libraries make of it
(external), `AutoAddrSearchDisabled` and `IsLoopback` what the server does;
`Main` refuses or serves, and the gates admit only from there.

## 3. What is checked

| run | instance | states | properties |
|---|---|---|---|
| `rate_window` | 3 threads, limit 2, window 2, clock to 5, fair | 470,000 | `TypeOK`, `WindowBound`, `RefusalJustified`, `NeverBlocksInLock`, `PoolRefined` |
| `pv_write` | 2 calls, an allowed PV (a command record) and one that is not, 3 values of which the records cannot hold one, limit 1, 2 processes, 1 outside step, fair | 620,000 | `TypeOK`, `OnlySanctionedLands`, `AllowMeansLanded`, `LandsAtMostOnce`, `TrailLegal`, `NoDanglingAttempt`, `ReadbackExplained`, `EveryCallEnds`, `AuditRefined` |
| `olog_write` | a create, an attach and an update, two of them under way, 2 logbooks of which one is allowed, 2 files whose names collide, an entry with a source or without, a renderer that changes one of 4 texts, limit 1, 1 edit by others or 1 death, fair | 320,000 | `TypeOK`, `OnlyAllowedBooks`, `UndisturbedLosesNothing`, `RecordTrue`, `AppliedAtMostOnce`, `EveryWriteEnds`, `GateRefined` |
| `live_reads` | 2 monitors and a read over one thread each, cap 2, 4 values; 3 names in chunks of 2; 3 display files, cap 1 | 84,000 | `TypeOK`, `MonitorHonest`, `ConnectionExplained`, `PlacesAnswered`, `StatusEarned`, `ViewsBounded`, `EveryLiveReadEnds` |
| `reads` | 3 retries, 1 redirect; bodies to one block over the cap; 5 instants; 12 channels; 3 records, limit 1, 2 changes | 170,000 | `TransportHonest`, `FiltersMean`, `VerdictsEarned`, `ListsHonest`, `EmptyExplained`, `TheirsIsKept`, `EveryReadEnds` |
| `reports` | 2 records, cap 2, scripts to 3 statements, 2 channels in batches of 1, 1 change | 760,000 | `DiagnosisEarned`, `AuditEarned`, `AbsencesEarned`, `PostureEarned`, `EveryReportEnds` |
| `failed_not_written` | `pv_write` | | `FailedMeansNotWritten` is violated |
| `attach_additive` | 2 attaches | | `AttachIsAdditive` is violated |
| `legacy_attach` | 1 attach, nobody else | | `AttachKeepsBody` is violated |
| `capped_unseen` | `live_reads`, 2 values, cap 2 | | `CappedIsAmongOrigins` is violated |
| `search_overturned` | `reads` | | `SearchNotOverturned` is violated |
| `broken_false_alarm` | `reports` | | `BrokenProven` is violated |

The properties of the composed instances are conjunctions, defined in the `MC`
module, of the named properties of their parts: `VerdictsEarned`, for one, is
`NegativeEarned` and `PositiveEarned` of `PlaneReads` and `MissingEarned` and
`DefaultUnambiguous` of `LogbookReads`. What each part means stands at its
definition.

Why the bounds are enough. *Limiter*: three threads let one overtake two others
at any statement; limit 2 tells the head of the deque from its tail; a clock
of more than two windows lets a token be fresh, at the edge, and expired, with
admissions after each. *Writes*: two calls are the least that can race for a PV, a token and an
operation id; limit 1 makes the second wait for `Expire`; two processes show
what a restart forgets and what it cannot take back; one outside step is
enough to change the limits or the value at each point of a call; of the three values
one is idle, one is written, and one is kept as another. *Olog*: an attach and an
update are the two calls that interfere through an entry, and one edit by others
can come between any two of their steps; two files are the least that collide;
a logbook on each side of the allowlist; of the texts one is empty, one is what the entry
says, one what a call writes, and one what the renderer makes of the entry's. *Monitors*: a stream may exceed the cap by
two, so that one value is collected to tell that it was cut and one is refused; one
monitor waits for the other's thread. *Batches*: three names make a full and a part
chunk, with a name twice in a chunk or across two. *Displays*: three files are
the least in which a file is reached along two ways under one top, and under two
tops; to be capped in silence, a container needs three bindings and a cap of two
(`capped_unseen`). *Transport*: all attempts of the configured three; a body under, at and over
the cap, with a length that is declared, false or missing. *Planes*: lists below,
at and above their limit and the page of the server; two changes, one between each
pair of requests. *Reports*: two records, one registered and one not, and a
cap that two reach; one change is enough to come between any two looks, and
two statements and a load are enough for a macro that is set again.

Calls are made once, so all systems but the limiter stop when they have ended:
deadlock is checked for the limiter alone, and elsewhere it is the liveness
property that says that nobody stops early.

Fairness. `RateWindow!FairSpec`: a thread in the critical section keeps running.
Nobody is promised the lock (`threading.Lock` is not fair), and the clock may
stop. `MCFairSpec` of `PVWrite`: the event loop runs a coroutine whose await is over, a
worker thread that has work runs, and a p4p call ends with or without a reply,
since each carries a timeout (`default_timeout` when the caller gives none).
Nothing is assumed of the client, of the network or of the IOC.
`OlogWrite`: a thread runs, and each request ends with an answer or by
its timeout; nothing is assumed of the server. `LiveSpec`: reads are fair, monitors
are not. A monitor may hold its thread forever and reads end nevertheless
(`EveryReadEnds`); that every monitor ends is claimed only under the assumption
that monitors run (`MonitorsRun`). `MCReads` and `MCReports`: the steps of the
call, each request of which carries a timeout; what changes outside need never
change.

### Where the documentation and the code part

With a run that shows it:

- **A FAILED write may have been applied** (`failed_not_written`).
  `tools/write.py:90` logs a put that timed out as FAILED, although its request
  may be on the wire. `safety.py:237` says that FAILED "would imply nothing was
  written" and `docs/write-gate-contract.md:76` asks for UNKNOWN when "cancelled
  or timed out".
- **An attach is not additive when two race** (`attach_additive`).
  `services/checkers_olog.py:710` reads the entry and `:730` posts all of it, with
  no version check: what was attached in between is pruned.
  `services/olog_client.py:954` says "additive for CONTENT: nothing pruned".
  `UndisturbedLosesNothing` is what does hold.
- **An attach may wipe the text of an entry** (`legacy_attach`). For an entry that
  carries no `source`, `services/olog_client.py:977` makes the markup of an
  embedded image the whole source, and the server renders the description from that:
  the text is no longer shown. `:954` says "no content field wiped", `server.py:1448`
  that "every CONTENT field" is preserved, and there is no warning (`update_log_entry`
  has one, for the milder rewrite by the renderer, which an attach without an image
  causes unsaid as well). `UndisturbedLosesNothing` has it as `BodyKept`.
- **A capped file need not be among the origins** (`capped_unseen`).
  `tools/validate.py:84` says that the origins term is sound, since a capped file "has
  necessarily contributed PVs here". A file that only embeds others, or whose macros are
  never bound, contributes none: what was dropped behind it is missing from a view that
  is not called a lower bound. `DisplayViewComplete` (in `ViewsBounded`) is what does
  hold: nothing else is missing.
- **A failed cross-check overturns a search** (`search_overturned`). The throttle
  of reads may refuse the request for the levels with an error that
  `services/checkers_olog.py:235` does not catch, though the docstring above it
  says that such a failure is said and "must not overturn a search that
  succeeded". `EmptyExplained` is what does hold.
- **A channel that is served is called broken** (`broken_false_alarm`).
  `services/e3_db.py:498` skips a `dbLoadRecords` of a file without the suffix `.db`
  and does not clear `complete`; and all `epicsEnvSet` are read before the first
  load, so that a macro that is set twice has its last value at every load.
  `e3_db.py:403` says "in doubt -> False", "never a false alarm". `BrokenIfPlain`
  (in `AbsencesEarned`) is what does hold: of scripts without either.

Stated in the modules, without a run of their own:

- `PVWrite!AllowIsReadBack`: a cancellation at the readback (`tools/write.py:110`) ends
  the call after the ALLOW; `docs/safety.md:24` says "every write is read back
  (always-on)" and that a READBACK line "follows the ALLOW". `TrailLegal` is what does hold.
- `OlogWrite!CurrentBooksGated`: the allowlist covers the logbooks as they were read, not
  the "current" ones of `services/checkers_olog.py:784`: an entry that is moved before
  the post is pulled out of a logbook nobody checked. `OnlyAllowedBooks` is what does hold.
- `PVWrite!VerdictIsAudited`: an admitted write whose pre-read fails leaves no
  line. The comment at `tools/write.py:38` wants it so;
  `docs/write-gate-contract.md:59` promises a terminal line per gate verdict.
- `Diagnose!WithheldListed`: a plane that was asked and has no URL, or answers
  neither way, is not listed as withheld as `diagnose.py:161` says; the alarm plane
  never contributes (`diagnose.py:461`) and is not listed either.
- `Coverage!DisplayGapProven`: the cap on globbed references is counted, and noted,
  but withholds no gap (`coverage.py:232`); `coverage.py:26` says that an incomplete
  display inventory does.
- `ChannelQuery!NegatedStarMeans`, `PlaneReads!InfoEarned`,
  `LogbookReads!OnlyGenuinelyEmpty`: at their definitions.

Met while reading, and not modelled as a property:

- A read that the throttle refuses in a checker is a `ReadRateLimitError`, which the
  "`RuntimeError` on a query failure, never another type" of
  `services/coverage.py:85` leaves out: it aborts
  `coverage_audit` and `crossplane_check` (`Fail` in both modules).
- A name given twice to `validate_pvs` whose two reads differ is listed as connected
  twice and counted once each way (`tools/validate.py:511`, `PVBatch!CountsAgree`).
- A device that the naming service has as OBSOLETE is diagnosed as a `name_typo`,
  whose text says that it is not registered.
- `epics-doctor` calls a plane unreachable that answered 2xx with an unreadable
  body, or that the throttle kept it from asking (`doctor.py:322`); an internal
  error exits with 1, not with the 2 of the docstring of `cli_doctor.main`.
- `find_device` joins channels to IOCs by exact name: the channel of a field
  (`REC.EGU`) has none. Nor has a registered channel whose record names no IOC, or
  names it in a property that the site's allowlist leaves out (`device_lookup.py:207`);
  no note tells it from one that is not registered (`MissingIocExplained`).

## 4. What is proved

All theorems hold for every value of the constants that the assumptions allow.
Every invariant and every action property of the passing runs is a theorem, and
so are the three refinements; liveness is not.

| module | theorem | states |
|---|---|---|
| `RateWindowProofs` | `TypeCorrect`, `AdmissionsBounded`, `RefusalsJustified`, `PoolImplemented` | `TypeOK`, `WindowBound`, `RefusalJustified`, `PoolRefined` |
| `PVWriteProofs` | `TypeCorrect`, `OnlySanctioned`, `AllowsLanded`, `NeverRepeated`, `TrailsLegal`, `AttemptsConcluded`, `ReadbacksExplained`, `AuditImplemented` | `TypeOK`, `OnlySanctionedLands`, `AllowMeansLanded`, `LandsAtMostOnce`, `TrailLegal`, `NoDanglingAttempt`, `ReadbackExplained`, `AuditRefined` |
| `OlogWriteProofs` | `TypeCorrect`, `WritesStayAllowed`, `NothingLost`, `LogIsTrue`, `WrittenOnce`, `GateImplemented` | `TypeOK`, `OnlyAllowedBooks`, `UndisturbedLosesNothing`, `RecordTrue`, `AppliedAtMostOnce`, `GateRefined` |
| `MCLiveProofs` | `LiveTypeCorrect`, `MonitorsHonest`, `ConnectionsExplained`, `PlacesAreAnswered`, `StatusesEarned`, `ViewsEarned` | `TypeOK`, `MonitorHonest`, `ConnectionExplained`, `PlacesAnswered`, `StatusEarned`, `ViewsBounded` |
| `MCReadsProofs` | `TransportEarned`, `FiltersAreMeant`, `VerdictsAreEarned`, `ListsAreHonest`, `EmptyIsExplained`, `TheirsAreKept` | `TransportHonest`, `FiltersMean`, `VerdictsEarned`, `ListsHonest`, `EmptyExplained`, `TheirsIsKept` |
| `MCReportsProofs` | `DiagnosisIsEarned`, `AuditIsEarned`, `AbsencesAreEarned`, `PostureIsEarned` | `DiagnosisEarned`, `AuditEarned`, `AbsencesEarned`, `PostureEarned` |

### From which assumptions

`LimiterAssumption`: the limit is at least 1, as `config.py` requires; the
window is a natural number. `PVWriteAssumption`, `OlogWriteAssumption`,
`PVMonitorAssumption`: the constants are of their kinds and distinct, and a
width or a cap is at least 1. `LiveAssumption`: so are the size of a chunk, the
number of files and the cap on contexts, and the values of a macro are finitely
many. `ReportsAssumption`: the caps are natural numbers. `ReadsAssumption`: the
constants are of their kinds, limits and pages at least 1, the registry and the
alternatives of a negated value are finite sets, and the alarm logger
returns more than the limit of a query (`EsMax > Limit`). The tool caps that limit
at 999, and a logger returns up to 1000 by default; one that is configured to
return less is exposed, as the note at `alarm_client.py:283` says, and outside
the theorems. The bounds of the runs
(calls, changes, records, hops) are constants too, so the theorems
hold for any number of them.

### Along which arguments

`RateWindow`. `WindowBound` is not inductive: that the next admission is far
enough from the one `Limit` before it depends on the deque. The invariant adds: one thread
at a time is in the critical section; a sample is never ahead of the clock nor
behind the newest token; the deque is a suffix of the admissions, and what was
purged or dropped from it is older than the window at the current sample. The
refinement maps `Record` to `Take`, `RefuseOverLimit` to `Refuse`, `Purge` to
`Expire`, and the rest to stuttering.

`PVWrite`. The invariant says of each
call what is known at each await (`Stage`), what is known of its put wherever
the call itself has gone (`Work`: only a sanctioned, logged write is ever given
to a thread; a request is sent once; "ok" is only said of what landed) and which
logs it can have (`Log`). `Work` is what survives a cancellation and a restart,
when the coroutine that checked the write is gone and its request is not.
`ReadbackExplained` needs one more (`Explained`): from the moment a value of a
call landed, what the PV shows, what a readback saw and what the log says of it is
the value of that landing or of a later one; and the value of that landing is the one sent
unless the type or new limits made another of it.

`OlogWrite`. The same three parts, `Stage`, `Sent` and `Log`: a request is only
sent for what the gate sanctioned, from arguments and a read that never change
again. What the server applies is then a function of the read, which gives
`NothingLost`: an entry that is still as it was read keeps every attachment, and
every field the call did not replace. Of the body it says what is true: kept, if there is
a source, because an entry with one shows what the renderer makes of it (`Shown`, a
part of the invariant); otherwise shown as before, or rendered anew; and nothing where an
image is embedded in an entry without a source. The refinement shows each action to be a step of `GatedWrite`
or a stutter.

`PVMonitor`. Of a monitor the invariant says what its callbacks have gathered of
what arrived (`Gathered`, `Seen`), and of an answer under assembly which of its
parts are final (`Answer`): all of them, if no callback was under way at the
close. `MonitorsImplemented` shows the composed instance to implement `Spec`, so
that the theorems carry over.

`PVBatch` (in `MCLiveProofs`). `BatchInv`: where the chunk lies (`AtChunk`), what
the loop has put in the envelope of the places that it passed (`FiledUpto`), and
that each status told so far is the one its own chunk earned (`Told`). It
needs that chunks are apart (`ChunksApart`), for the values read later must not
change a status told before; it rests on `Division`, a lemma on quotients.

`DisplayViews`. The walk with a cap is compared to the one without (`Lifted`).
The two may differ at a file only if a file was capped that the top reaches and
that reaches the file (`Compared`). `Lifted` is defined over all files at once;
that there is such a function, and one only, is shown by the least file at which
there would not be.

`MCReads`, `MCReports`. `OneAtATime`: a step is one of one part and leaves the
variables of the others alone. Each part then has an invariant of its own.

| invariant | says |
|---|---|
| `TransportInv` | what is left of the attempts and hops, that a write had one attempt, and what each outcome tells of the reply |
| `WindowInv`, `ChannelInv` | the request is not built, or means what the caller meant |
| `PlaneInv` | what each answer between the two requests of a tool was at a moment |
| `BookInv` | what was checked before the request stays so; the page is not shown before it is explained |
| `DiagnosisInv` | each look is of its kind and was true at a moment; a report follows from the looks |
| `AuditInv` | so are the registry, the displays and each cell; the rows follow from them |
| `CrossInv`, `LookupInv` | so are the answers; a script without the two traps of `Plain` is read as an IOC runs it (`PlainServed`) |
| `DoctorInv` | what was sent to each plane, at each stage of its look, and what its row says of the answer |
| `BootInv` | what serves was not refused, and what wrote had served |

### What the proofs changed

A proof that failed for a good reason changed the model. Where two arms of a
CASE could both hold, the value is unspecified, whatever TLC does with the first
arm: `ChannelQuery!Holds`, `Doctor!Named` and `PVMonitor!Detail`
now have disjoint arms. Helpers that were
recursive, or folds with an operator as parameter, became sets and functions:
`PlaneReads!Configs`, `LogbookReads!Searches`, `DisplayViews!Pairs`, and the two
loops of `PVBatch`, which were filters of a sequence. `Diagnose!DeriveDisconnected`
is the function of that name, apart from `Cause`.

### Only model-checked

`NeverBlocksInLock`, `EveryCallEnds`, `EveryWriteEnds`, `EveryLiveReadEnds`,
`EveryReadEnds` and `EveryReportEnds`: liveness under fairness, which is out of the
provers' reach. The violations of §3 are counterexamples, and need no proof.

## 5. Not modelled, and the plan

Not modelled:

- Text (messages, guides, prompts, presets), argument parsing and printing,
  configuration and paths: read once, or constant.
- The decoding of NT structures into JSON, and the numerics of `bounds.py` and
  `readback.py` (which float equals which, what an infinite limit means):
  functions of one value without state, whose hazards are those of floating
  point, which TLC has not. `PVWrite` has their verdicts.
- The grammar of `st.cmd` and `.db` files below the statement (quotes, comments,
  nested macros), and the macro parser.
- The `opi_navigation` package, which is not in the repository: external in
  `DisplayViews`.
- Registration of tools and the mapping of errors to tool results in `server.py`:
  declarative.
- The scripts of the release process.

Plan, in this order:

1. Theorems for the parts of a property that no run checks by itself, because
   the code does not promise them: under which further condition
   `Coverage!DisplayGapProven` and `ChannelQuery!NegatedStarMeans` do hold.
2. Safety that a restart leaves open: what `PVWrite` guarantees of calls of
   different processes together, as an invariant over their limiters.
3. The numerics of `bounds.py` and `readback.py` over a finite order with
   infinities and a "not a number", as operators with lemmas.
