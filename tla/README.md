# Formal models of bulwark-mcp

`bulwark run --server "<cmd>"` puts a proxy between an MCP client and an MCP
server: two pumps copy newline-delimited JSON-RPC in both directions, a
capability allowlist and a detector decide what may pass, and every message is
recorded in a SQLite audit log. This directory has TLA+ models of that program,
TLC runs that check them on small instances, and TLAPS proofs for every
instance. All paths below are relative to `src/src/bulwark_mcp/` unless they
start with `src/`.

## The system: inventory

| Component | State | Operations | What makes it hard | What makes it correct |
|---|---|---|---|---|
| **Audit writer** `EventBuffer`, `storage.py:268-304, 408-516` | bounded queue, drop counter, the writer's batch, one aiosqlite connection with one shared transaction | `record`, `_run`, `shutdown`, `insert_events`, `upsert_classifier_cache` (commits the same transaction) | a cancelled `await` does not cancel the database operation; failures in the middle of `executemany`; a time limit on shutdown | events stored once and in order; bounded loss; shutdown ends; nothing waits for a later event |
| **Relay** `_pump` and helpers, `proxy.py:292-881`, `models.py`, `capability.py` | two pumps, the lock for client-bound writes, `stop_event` | read, split a batch, filter, inspect, write, record | two pumps writing to one client, batches with one bad member, write and log in two steps, cancellation in between | every message once; nothing blocked is delivered; the audit tells what happened, in order |
| **Lifecycle** `run_proxy`, `proxy.py:88-289` | child process, pipes, time limits, session row, side-cars | open, start, wait, half-close, drain, cancel, reap, terminate, kill, clean up | a server that may do anything, signals at any time, a start that fails half-way | a normal return leaves nothing behind, an exception neither buffer nor database; no reply lost; it ends |
| **Classifier** `detectors/llm.py`, cache in `storage.py:357-405` | circuit breaker, cached labels | lookup, call, count, upsert | cancellation by the latency budget at any await; other proxies share the cache | labels are recent; an outage is bounded; the breaker recovers |
| **Inspection** `inspector.py`, `policy.py`, `detectors/rules.py` | none between calls | detect, gate, merge scores, decide, compose the replacement | rule order and score merging, fallbacks | more evidence is never milder; shortcuts change nothing |
| **Schema migration** `Storage.open`, `storage.py:40-225` | schema objects, version rows, SQLite's write lock | base DDL, stamp, migrate, roll back, close | several proxies start at once; crash or cancel between two statements | a recorded version is complete; racers do not fail each other, but for the switch to WAL |
| **Line readers** `_AsyncStreamReader`, `_BlockingReader`, `proxy.py:889-1092` | bytes buffered, a paused pipe | bounded `readline` on the event loop or a thread | the pipe cuts the stream anywhere; a line over the limit, exactly at it, or without end | a line that fits is intact whatever its neighbours; bounded memory; the end is reached |
| **Log following** `stream_events`, `storage.py:519-539` | row-id cursor, rows fetched | seed, poll, yield | two proxies commit batches behind the cursor, polls are short | every row once, in order |
| **Telemetry** `telemetry.py`, `_telemetry_loop` in `proxy.py:1124-1152`, `compute_stats` | daily loop, local log | build, send, append | rounds take time; rows are stored late; cancellation between sending and logging | no event counted twice; what left the machine is in the log |
| **Health endpoint** `health.py` | cached snapshot, lock | accept, scan, answer, give up | requests share a scan that may be cut off | answers are fresh; scans are spaced |
| **Configuration** `config.py`, `config_validate.py`, loaders of rules and policy, `lint.py` | none | resolve, validate | two programs read the same file with different code | what is validated loads, and as written |
| CLI, doctor, strict lint, stats output, benchmark | none | one-shot | sequential formatting | not modelled |

How they interact: `run_proxy` opens the storage (which migrates), starts the
server, enters the `EventBuffer`, creates the two pump tasks and waits for the
first to end or for `stop_event`. A pump calls the capability filter and the
inspector, the inspector awaits the classifier, which uses the storage's
connection; the pump writes under the lock and then calls `EventBuffer.record`,
which never waits. The writer task moves events over the same connection, and
so do the queries of the health endpoint and the telemetry task. All of it runs
on one event loop, so the models interleave at `await`s only; aiosqlite's
thread, the server's process, and other proxies and `bulwark logs` on the same
database run beside it.

## Modules

* **`JsonRpc`** — constant-level operators for what is computed from one line:
  `Parsed` (`parse_frame`), `CapabilityHit`/`Denied`, `Verdict` (a one-line
  account of `Inspector.inspect`), and the answers for batches (`Aborted`,
  `CapabilityReply`, `Replacement`). A message is a record of the five things
  the code looks at (kind of id, method, body, tool, whether the policy blocks).
* **`Relay`** (extends `JsonRpc`) — `pc[d]` is where the pump of direction `d`
  awaits: `ReadLine`/`EndOfFile` (readline), `Inspect` (the inspector), `Write`
  (lock and `write`), `Drained`/`DrainFailed` (`drain`, then the rows),
  `RecordOnly`. What becomes of a line is a function from the numbers of the
  members that are given on to what is given for each. `End` is the `finally`. `Stopped`, `ClientEnded`, `DrainOver`
  and `ServerEnded` are the branches of `run_proxy`, `Aclosed` and `Reaped` its two
  waits for the server (`aclose()` of its stdin, which has no time limit, and the
  way to its exit); a cancelled pump takes no further step. `log` is what `EventBuffer.record` was called with.
* **`EventBuffer`** — `record`, the writer task (`Get`, `Executed`, `Flushed`
  and the two steps of its cancellation handler), `shutdown` (`Shutdown`,
  `PutStop`, `Timeout`, `Joined`), the connection's thread (`ThreadMany`,
  `ThreadCommit`) and the other users of its transaction (`OtherCommit`).
  Events are numbered in the order of `record`.
* **`AuditLog`** — the abstract promise: a first-in first-out log of bounded
  delay which loses at most a run of events per database failure.
  `EventBuffer!LogSpec` is `AuditLog!Spec` under a refinement mapping: pending
  is the open transaction, the batch in flight and the queue.
* **`EventBufferProofs`**, **`RelayProofs`**, **`LifecycleProofs`**,
  **`ClassifierProofs`**, **`InspectorProofs`**, **`ObserversProofs`** — the
  theorems about the module each is named after; **`StartProofs`** — those about
  `Migration` and `Config`; **`SessionProofs`** — those about the way from bytes
  to rows, `LineReader` and `Session`. See "Proofs".
* **`Session`** — `Relay` and `EventBuffer` composed: the rows `Relay` appends
  to its log are recorded one by one before any other task of the event loop
  takes a step (`LoopFree`), the connection's thread runs beside, and the buffer
  is left when both pumps are gathered and the server is reaped (`LeaveBuffer`). `rowOf` is a history
  variable that says which row an event is.
* **`Lifecycle`** — `Start` is the start-up, where each step may raise and
  `Unwind` leaves the blocks entered so far; then the pumps reduced to what
  `run_proxy` sees of them, the server's process as an adversary, every branch
  and time limit, and the clean-up with the side-cars to the return. What is
  written for the server is first in the operating system's pipe and, beyond
  `PipeSize` lines, in asyncio's buffer (`Buffered`): `wait_closed()` of its stdin
  waits for the latter only. `joins` tells Python 3.12, where `wait_closed()` of the
  health endpoint waits for its handlers, from 3.11, where it returns at once; both
  are supported. A failing `open()` may leave its connection (`"leaked"`), and a
  health port that is no `OSError` leaves the start behind the telemetry task.
* **`LineReader`** — a stream of bytes that arrives in any pieces, and the
  reader that makes lines of it: `AsyncLine`, `AsyncClear` and `AsyncEof` are
  what `StreamReader.readline` does with a buffer, `ThreadRead` and
  `ThreadDrain` are `_readline_bounded`. asyncio's part is external.
* **`AuditTable`** — the table as its readers meet it: proxies record, insert a
  batch in a transaction and commit, or are killed. Over it **`LogFollow`**
  (`stream_events`), **`Health`** (handlers, `snapshot` and its lock) and
  **`Telemetry`** (`_telemetry_loop`, `compute_stats` query by query, `send`);
  **`Observers`** composes them, one reader per behaviour, since they share
  nothing but the table. **`LogFeed`** is what `bulwark logs --follow`
  promises; `Observers!FollowsLog` is its specification, liveness included,
  under a refinement mapping.
* **`Config`** — a configuration file is the kind of value at each path of
  interest, with the packs and the policy it names. `Resolves`, `LoadsRules`
  and `LoadsPolicy` are what the proxy loads (`Loads`), `BuildsBuffer` and
  `BuildsInspector` what it constructs from the values (`ProxyStarts` is both); the
  actions are the validator's eight checks.
* **`Classifier`** — `classify()` one action per `await`, `BudgetExpired` for
  the cancellation by the inspector, `OtherProxy` for the shared cache, `Tick`
  for time. `answered`, `recent` and `unanswered` are history variables.
* **`Inspector`** (extends `JsonRpc`) — one `inspect()`: `Detect`, `Labelled` or
  `Unlabelled`, then `Abort` or `Judge`. Scores are integers in hundredths;
  the built-in policy is written out as data and interpreted by `Decide`.
* **`Migration`** — `Storage.open` statement by statement in several processes;
  `pending` is the open transaction of the process that has the write lock,
  `conn` tells a connection that `open()` can still close from a leaked one.
  `journal` is the database's mode: a new or foreign one is switched to WAL by
  whoever meets it first (`BeginSwitch`, `EndSwitch`). That is the one wait for the
  lock without SQLite's busy handler (`MeetsSwitch`); behind the others is the busy
  timeout, which a leaked connection (`Locked`) or a slow process (`SlowHolder`)
  outlasts. `hit` is why an `open()` raised.

`MC*` modules extend a module and only define the values TLC needs. A
definition named `X_something` is a faulty variant of `X`, which shows that a
property notices the fault; nothing else uses it.

`Relay` treats a recorded row as logged and a verdict as one step;
`EventBuffer` and `Inspector` justify that: the first says what becomes of a
recorded row (`Session` runs both together), and `Inspector!RelayAgrees` says that `JsonRpc!Verdict` is the
verdict `inspect` computes. `Lifecycle!NoRecordAfterShutdown` is what
`EventBuffer` assumes when it lets nobody record after `shutdown` began; that no
row is left to record then either is `Left` in `SessionProofs`.
`Relay` gets whole lines and takes an oversized one as a line of its own;
`LineReader` says which lines those are, the tail of an oversized one included.

## Runs

| Run | Instance | Shows |
|---|---|---|
| `event_buffer` | queue 3, batch 2, 6 events, 2 failures | `RowsInOrder`, `DuplicatesOnlyLastBatch`, `NothingVanishes`, `KillLosesAtMost`; liveness `ShutdownCompletes`, `EventuallyStored` |
| `session` | the relay with two client lines (one or two members, one denied) and one server line, queue 2, batch 2, 1 failure, no shutdown time limit | `AuditTrail`, what a finished session left in the table against what the peers got; liveness `SessionEnds`, for a server that takes what is buffered for it; the refinement of `AuditLog` (`LogSpec`) |
| `relay` | two client lines of 9 shapes, one server line of 5, allowlist, detector and aborts on | `EachMessageOnce`, `BlockedNotDelivered`, `FailOpenIsAudited`, `AuditComplete`, `LogOrderIsClientOrder` |
| `lifecycle` | a start that may fail at each step, a pipe of 1 line and 2 more in asyncio's buffer, 2 replies, a reading server, with and without `joins`, failures on | `ReturnsClean`, `NoRecordAfterShutdown`, `NoReplyLost`, `SignalOnlyAfterEof`; liveness `ShutdownEnds` |
| `classifier` | 2 texts, threshold 2, open for 2 ticks, time to live 1 tick | `LabelIsRecent`, `OutageCostBounded`; liveness `BreakerRecloses` |
| `inspector` | 6 built-in rules of every score band and direction, any set of them, in one variant | `MoreEvidenceNeverMilder`, `ShortCircuitIsHarmless`, `RelayAgrees` |
| `migration` | 2 processes, 3 opens, 2 faults, 4 initial databases, in WAL mode or not | `SchemaIsWhole`, `RaceIsHarmless`, `FailedMigrationReleases`; liveness `OpenCompletes` |
| `line_reader` | limit 2, drain chunk 2, every stream of up to the bound in `MCLineReader`, in all chunkings | `FittingLinesIntact`, `PieceOnlyAfterOverflow`, `MemoryBounded`; liveness `StreamEnds` |
| `observers` | two writers; the follower with 4 rows and polls of 1; 3 health requests, 2 ticks of time limit, 1 of time to live; a side-car with a day of 2 ticks | `AnswersFresh`, `ScansSpaced`, `CountedOnce`, `SentIsLogged`; `FollowsLog`, the refinement of `LogFeed` |
| `config` | every file odd at up to two paths; every directory of up to two packs; every policy and every broken file | `ValidatedLoads`, `ValidatedApplies` |
| `lifecycle_stuck`, `classifier_slow` | as small as the behaviour needs | a sentence of the documentation that the code does not keep, see below |

Bounds, and why they are enough. `event_buffer`: the queue is larger than a
batch and there are twice as many events as fit in the queue, so it overflows,
batches are full, partial and cut off by the `None`, and both failures can hit
one batch. `relay`: two lines of a client suffice to have a line in hand while
an earlier one's answer is written, one line of the server to race with both;
longer lines add members, of which the batches have up to three. `session`:
more rows than the queue takes, so that rows are dropped between two that are
kept, and batches that end inside a frame's rows. `line_reader`: the limit
leaves room for lines below, at and above it, and the streams for one of each
next to another; chunks from one byte up. `observers`: `Explored` cuts off what
no property looks at: time while the follower runs, rows and time beyond the
bounds of the reader in question, and everything once the side-car has ended or
every request is answered. A follower with polls of one row meets every
position of the cursor among the rows of a batch; four rows make two batches
of two, from two proxies. Time goes two windows far, so that a payload that is
late and the one after it exist. `config`: the checks look at one path each, or
at a section and a path in it, so that two odd paths are what can interact.
`lifecycle`: one line in the pipe and two in asyncio's buffer distinguish a pump in
`drain()` from one that reads, and a server whose lines are all in its pipe from
one that has read them. `classifier`: with the cool-down and the time to live of two and one
ticks a row can be fresh, just expired and older; two texts separate the
breaker (shared) from the cache. `inspector` has the thresholds' values
themselves: 80, 85, 90, 95. `migration`: two processes are what the race needs,
the third open is the retry; two base objects stand for six, two columns and a
table for the nine statements of version 2.

`inspector`, `migration`, `observers` and `config` turn the deadlock check off:
one inspection and one validation end, the calls of `open` are bounded, and so
are rows, requests and time. In the other modules termination is
an explicit step.

### Fairness

* `EventBuffer`: the writer, the thread and `shutdown` take steps they can take
  (the event loop resumes ready tasks; the thread executes what it is given).
  Not assumed: that anybody records, that shutdown begins, that its time limit
  expires.
* `Relay`: only `run_proxy` wakes up (including its 10 s timer). No pump and no
  peer has to move.
* `Session`: that, the recording of the rows in hand, the writer, the thread and
  `shutdown`, and that `run_proxy` leaves the buffer. Pumps and the client need
  not move, which is what `SessionEnds` is about. Of the server one thing is
  assumed, as `ServerTakesInput`: it takes in the end what is buffered for its
  stdin, or breaks the pipe. The code does not justify that; without it the session
  need not end (`lifecycle_stuck`).
* `Lifecycle`: `run_proxy` wakes up and its timers expire, cancelled pumps are
  resumed, a health handler ends (it has 5 s), SIGKILL is delivered, and, where `ServerReads`, the server reads
  its input.
* `Classifier`: time passes.
* `LineReader`: the peer goes on sending while the pipe is not paused, the pump
  calls again, the reader runs; nothing says in what pieces.
* `Observers`: the follower's loop goes on. Writers, time, requests and the
  side-car need not.
* `Migration`: a process goes on with `open()`. Weak fairness is enough though
  the write lock is contended, because the number of opens is bounded.

## What the documentation says and the code does not do

1. `lifecycle_stuck` — `src/docs/RUNBOOK.md:102`, escalation on a signal:
   `aclose()` has no time limit, and waits for what asyncio holds for the server. A
   server that stops reading while there is more than its pipe takes is never
   terminated; one for which everything is in the pipe is, read or not.
2. `classifier_slow` — `src/README.md:50` "three failed calls opens a circuit
   breaker": calls cancelled by the latency budget are not counted.

Stated in a module, and refuted by TLC with the constants of its run, without a
run of their own:

3. `EventBuffer!NormalShutdownDrains` — `src/docs/adr/0001-…md:36` "On normal
   shutdown we drain": after 5 s the writer is cancelled and queued events are
   lost, and not counted as dropped. The sentence is true of every shutdown
   within the time limit (`DrainsInTime`).
4. `Relay!OversizedForwarded` — `src/README.md:48` "Oversized frames are
   forwarded byte-for-byte": nothing is forwarded, the row is empty.
5. `Inspector!InstructionOnlyWarns` — `policy.py:197` "INSTRUCTION-only signal
   warns rather than blocks": the label's score is the block threshold.
6. `LineReader!SameContract` — `proxy.py:937`, the blocking reader "honours the
   SAME contract `_AsyncStreamReader` already enforces": asyncio's reader
   forgets what it has cut off, and returns the tail of an oversized line as a
   line, or as another oversized one.
7. `Config!NeverRaises` — `config_validate.py:123` "Never raises": `lint_path`
   is called outside any `try` (`:525`), and neither a pack that is not UTF-8
   nor an `apply_to` with an unhashable entry is caught below it.
8. `Lifecycle!BadPortHarmless` — `health.py:89-92`, bind failures are caught "so a
   misconfigured `--health-port` cannot crash the proxy": a port out of range is
   an `OverflowError`, `proxy.py:178` catches `OSError`, and the exception passes
   before the `try` whose `finally` stops the telemetry task.

And what one would expect of `config-validate`, though no sentence says it,
`Config!ValidatedStarts`, is refuted too: no check looks at `detector.llm.url`, and
`http://localhost:port` makes httpx raise `InvalidURL` when the classifier is built
(`proxy.py:1173-1183`); nor at integers too large for a float, which
is what `batch_interval_ms`, `timeout_ms` and `max_latency_ms` are turned into.

Met while modelling, without a run of their own: a batch of one member is
answered with a bare object (`proxy.py:375-376` against the comment above it),
and an empty batch is forwarded without an audit row; an exception of the
server-to-client pump in the drain phase escapes `run_proxy` (`proxy.py:242`)
before the child is reaped (`Lifecycle` has the step; `ReturnsClean` excludes
it); a c2s batch with two blocked members gets one synthetic row only; the
telemetry log entry is written after the request (`telemetry.py:9-12` against
`229-238`; `SentIsLogged` excepts that case, a cancellation around the request); a failure of the pragmas, the base DDL or
the stamp leaks the connection (`storage.py:138-147`; `ReturnsClean` excepts it); two
proxies that start on a database which is not in WAL mode may fail each other at
once, with "database is locked" (`storage.py:140`; `RaceIsHarmless` says when); on
Python 3.11 a health handler may read the database while `run_proxy` closes it; `bulwark logs --tail 0 --follow` begins at
row 0 and shows the whole table (`storage.py:531`); rules that do not load are
noticed after the server was started (`proxy.py:139`), and the exception leaves
it to the end of its input; `lint.py` accepts a rule id in two packs and a
directory that is a file, which `from_directory` refuses (the validator calls
both); several proxies that start at once each mint an `installation_id`, and
the last one to write it wins (`telemetry.py:139-166`).

## Proofs

Eight modules hold the theorems, each for the module it extends: for every value
of the constants that satisfies the named assumptions there, which are the types
of the parameters (limits of at least one where the code requires them) and
where said more. Nothing else is assumed. All but the refinements, the session's and `Config`'s
have the same shape: an invariant `IInv` (or a named one) that is inductive, a
lemma per action that it is kept, and the theorem, a consequence of it. The
properties themselves are not inductive, and what had to be added is what the
argument is about.

**`EventBufferProofs`** (any queue, batch, number of events and failures, with
and without the time limit).

* `TypeCorrect`, `StoredInOrder` (`RowsInOrder`). A step that commits needs to
  know what is in the transaction, and one that executes a batch what is in the
  batch: `IInv` says that the whole path of an event is ordered. Table, open
  transaction, the batch unless its `executemany` has run, and the queue are
  increasing, each is before the next, and all are at most `accepted`; with
  `Consistent`, which ties the operation in the thread to what the writer awaits.
  It is weakened by `~Cancelled`, since a cancelled writer inserts its batch
  twice, and the `None` of `shutdown` may stand anywhere. TLC checked this `IInv`
  on the instance of `event_buffer` before it was proved.
* `NothingLost` (`NothingVanishes`) and `LossesBounded` (`KillLosesAtMost`), from
  `LossInv`, which holds of a cancelled writer too: what the thread can still
  have to do (`Handed`), that an inserted batch is in the table or the open
  transaction (`BatchKept`), that without a failure a handled batch is as well
  (`Clean`), and that all accepted events that are in no place number at most
  `BatchSize` per failure (`LossBounded`).
* `DuplicatesBounded` (`DuplicatesOnlyLastBatch`), from `Copies`: once the writer
  is cancelled, the copies of an event in table and transaction and those the
  thread still owes are at most one, or two for an event of the batch in hand.
* `WriterImplementsLog`: `Spec => LogSpec`, the refinement of `AuditLog`, for
  `CanTimeout = FALSE`. With the time limit it does not hold, since a cancelled
  writer may store a batch twice. It needs `LogInv` besides: nothing stands behind
  the `None` (`StopLast`), and a transaction is no longer than a batch per failure
  and the one in hand (`TxnBounded`).
* `DrainsInTime` (`NormalShutdownDrains`), for `CanTimeout = FALSE` and as long as no
  database operation failed: a writer that ends by itself has met the `None`, behind
  which nothing stands (`StopLast`), so it leaves the queue empty (`Emptied`), and
  what was accepted is in the table or its transaction (`NothingVanishes`).

**`RelayProofs`** (any sets of lines of any length, any number of them, allowlist,
detector and aborts on or off): `TypeCorrect`, `OncePerMessage`
(`EachMessageOnce`), `BlockedStays` (`BlockedNotDelivered`), `FailOpenRecorded`
(`FailOpenIsAudited`), `RowsComplete` (`AuditComplete`) and `LogFollowsClient`
(`LogOrderIsClientOrder`). `Lawful` says what a pump may plan for a line: rows
that name each member once and in order, and a text whose parts are members
somebody waits for and none that is blocked; that capability answers and every
verdict of the inspector lead to lawful plans is proved from `JsonRpc`. `IInv` then
says for every line of each direction that what was written and logged of it is
a lawful plan carried out (`Lines`), or how far that is for the line in hand
(`InHand`). Across lines: the rows of a direction are ordered (`InOrder`), a pump
in `drain()` of the client has the lock (`Locks`), who closes a writer is done
(`Closings`). `ClientOrder` joins the two directions: the writes to the client
whose rows are not logged yet are the last, and the others' rows are in the
order of the writes. Without `Locks` it would not be inductive: the two pumps
could leave `drain()` in the other order.

**`LifecycleProofs`** (any number of replies, any size of the pipe and any
high-water mark, with and without failures, a server that reads or does not,
handlers that are waited for or not): `EndsClean` (`ReturnsClean`),
`ShutdownOrdered` (`NoRecordAfterShutdown`), `RepliesForwarded` (`NoReplyLost`),
`EofBeforeSignal` (`SignalOnlyAfterEof`). `IInv` says of each resource how far it
is wherever `run_proxy` stands: database, buffer, side-cars, session row, child,
pumps; that a pump of replies which was not hurried ended because there was
nothing more to read (`RepliesInv`); and that the child's time limits run behind
the closing of its input and the flushing of what asyncio held (`SignalInv`). What
the theorems do not say is in their statements: `EndsClean` excepts a connection
that `open()` leaked, and the side-cars of a start that ended before the pumps;
`ShutdownOrdered` excepts those too, and handlers nobody waits for (`MayOutlive`).

**`ClassifierProofs`** (any texts, threshold, cool-down, time to live):
`CachedLabelIsRecent` (`LabelIsRecent`), `OutageIsBounded` (`OutageCostBounded`).
`CacheInv`: a label that is stored or about to be is as old as the last time
Ollama gave it for that text, or older. `BreakerInv`: no call runs with the breaker
open, `failures` counts at least the failures of the last `circuit_open_s`, and
while it is open none of these is younger than the opening.

**`InspectorProofs`** (any rules of any score, direction and built-in name, any
frames): `EvidenceCounts` (`MoreEvidenceNeverMilder`), `RelayIsTold` (`RelayAgrees`),
`SkippingIsHarmless` (`ShortCircuitIsHarmless`). The last needs
`ShortCircuit >= 85`, which the default of 0.9 satisfies. A threshold may be
configured below that; then skipping the classifier can cost a BLOCK, for the
rules block from 0.85 on by themselves. `IInv` says that score, label and note fit
the hits, and the result the policy's decision; the rest is lemmas about the
policy: the highest score of a set of rules exists and is monotone, and so are
`Decide` and `Conclude`.

**`StartProofs`**. About `Migration` (any number of processes, opens, faults and
statements; `v1` and `v2` are not themselves among the objects, the columns are
in version 2's statements, and the database begins with whole versions):
`RecordedIsWhole` (`SchemaIsWhole`), `RaceFailsNobody` (`RaceIsHarmless`),
`FailureReleases` (`FailedMigrationReleases`). `IInv` says for each process who
holds the write lock (`LockInv`, the switch to WAL included), what a failure leaves
and why it came (`FailureInv`), and that the
statements before `at` have taken effect (`BaseInv`, `MigrationInv`). That another
process's commit cannot break this is where the lock is used, and that the
migration checks the version again behind it.
About `Config` (any files, packs and policies, without any assumption):
`ValidatedIsEnough` (`ValidatedLoads`, with the exact exception under which the
proxy does not start) and `ValidatedIsMeant`
(`ValidatedApplies`). `ConfigInv` says what the checks before `next` have found out
if no row failed so far.

**`SessionProofs`**. About `LineReader` (any limits and chunk sizes, any streams):
`BufferIsBounded` (`MemoryBounded`), `PiecesFollowOverflow`
(`PieceOnlyAfterOverflow`), `FittingLinesSurvive` (`FittingLinesIntact`). `Buffered`
bounds the buffer by whether the pipe is paused; `Draining` and `Resting` say
where in a line the reader stands, which is at its beginning but behind an
overflow it has reported; from that `Pieced` and `Whole` say what has been
returned.

About `Session` (any lines, sizes, numbers of events and failures). Every step is a step
of `Relay` or a stutter, and one of `EventBuffer` or a stutter (`RelayMoves`,
`BufferMoves`). This is `SessionImplementsRelay`; and so the invariants of
`RelayProofs` and `EventBufferProofs`, which need no fairness, hold here as they are
(`ComponentInvariants`), and with them what they imply: `RelayInSession`,
`BufferInSession`, `SessionImplementsLog` (`LogSpec`; `CanTimeout = FALSE`). The
module brings the two proof modules in as `RP` and `BP`; that their definitions are
those of `Session`'s `R` and `B` is proved by expanding both (`SameRelay`,
`SameBuffer`, `SameRelayPromises`, `SameBufferPromises`).

What ties the parts together is `Recorded`: `rowOf` maps the accepted events, in
order, to rows among the first `accepted + dropped` of the log; and `Left`: behind
the start of `shutdown` no pump moves and no row waits. They are inductive with the
components' invariants. From them:

* `AuditTrailHolds` (`AuditTrail`). At the end the stored events are `1..accepted`,
  each once and in order (`StoredAtEnd`). A handled message without a stored row
  has a row in the log (`AuditComplete`), which was dropped; different messages
  have different rows, and the log has `dropped` rows that are not stored
  (`UnnamedFew`). That the table lists what the client got in the client's order
  is `LogOrderIsClientOrder`, carried over by `rowOf` being increasing.
* `KillCostBounded` (`KillCostsAtMost`): the same count at every moment, for the
  committed table and after any failures and a cancellation, with `KillLosesAtMost`
  for the rows that were accepted. The failures count too: a batch each. The
  bound is tight on the instance of `session`, where TLC checked it with the
  time limit on, and refutes it without the failures' part.
* `StoredBlocksAreTrue` (`StoredBlocksHold`): a row in the table or its transaction
  is one that the relay logged, also when the writer was cancelled or stored a batch
  twice (`OnlyAccepted` in `EventBufferProofs`); so `BlockedNotDelivered` holds of
  the table, which outlives the proxy, and not only of what was recorded.

**`ObserversProofs`** (any writers, rows, limits and times): `HealthIsFresh`
(`AnswersFresh`), `ScansKeepDistance` (`ScansSpaced`), `WindowsAreDisjoint`
(`CountedOnce`), `LogTellsAll` (`SentIsLogged`), and `FollowerImplementsFeed`, the
safety part of `FollowsLog`. `TableInv` is common; `HealthInv` says that a count in
the cache, in the scan or in an answer is one of the table at a known time, and
`ScansInv` that scans that were not cut short left a cache entry behind them;
`SidecarInv` says in which window the rows of a payload are; `FollowInv` that what
is fetched is the piece of the table behind what was shown. In
`FollowerImplementsFeed` the ids of `LogFeed` are all positive numbers, since the
table grows without a bound there: `MaxRows` is a bound of the run.

Only model-checked:

* Liveness, which is out of TLAPS's reach here: `ShutdownCompletes`,
  `EventuallyStored`, `ShutdownEnds`, `SessionEnds`, `BreakerRecloses`,
  `OpenCompletes`, `StreamEnds`, and the fairness of `FollowsLog`.
* The two runs that expect a violation.

## Plan

Done, in this order: `EventBuffer` and `AuditLog`, its proofs, `JsonRpc` and
`Relay`, `Lifecycle`, `Classifier`, `Inspector`, `Migration`; then `LineReader`,
`AuditTable` with `LogFollow`, `Health` and `Telemetry`, `Config`, the start-up
in `Lifecycle`, and `Session`.

Then the proofs, in the order of the section above but `Session`'s, which came
last: they bring the invariants of its two parts together. Every invariant and
every action property that a run checks is proved; what a run adds to the
theorems is liveness.

Not modelled, of what is modelled otherwise: a second cancellation while
`open()`'s handler awaits `close()`; a file system without WAL, where every
`open()` attempts the switch; steps back of the wall clock; a signal before the
handlers are installed; whether the database can be opened at the path a
configuration names (`Config`).

Not modelled and not planned: the regular expressions and the Unicode
normalisation themselves, prompt construction, YAML syntax, environment
variables and command-line overrides, the `installation_id` file, the verdict
filter of the queries, `_BlockingWriter` (a write on a thread, without
back-pressure), the strict lint and its time-outs, and the CLI, `doctor`,
`benchmark` and their reports; none has state that
survives a call or meets another actor.
