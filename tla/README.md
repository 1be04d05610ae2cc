# TLA+ models of portbase's record database

This directory holds TLA+ models of the Go sources under `src/`: the `portbase`
record database, its bbolt backend, the websocket database API, and the
configuration and logging helpers that ship beside them. It also holds the TLC
configurations that check the models, and `PROJECT.json`. That file maps every
model definition to the source lines it translates. It also lists the runs, the
mutants, the findings and the hazards.

## The system

| Part | Source | Role |
|---|---|---|
| Record wrapper and envelope | `database/record/wrapper.go`, `meta-gencode.go` | `Wrapper` is a record held as raw bytes. `MarshalRecord` writes the envelope: version byte, length-prefixed meta block, format byte, payload. `NewRawWrapper` parses it. |
| Record metadata | (`meta.go`, not in `src/`) | Created/Modified/Expires/Deleted timestamps, plus the secret and crown-jewel flags. `CheckPermission`, `CheckValidity`, `Update`, `Reset`. |
| Facade | `database/interface.go` | `Interface` with `Options`: local/internal access, forced flags and expiry, and an optional per-Interface cache. Every call goes through `getRecord` (controller Get, read-only check, permission check) and then `db.Put`. |
| Controller and registry | (not in `src/`) | Resolves the database name and filters invalid records on Get. It also feeds the subscriptions. |
| bbolt backend | `database/storage/bbolt/bbolt.go` | `Get`/`Put` in one transaction each. `Query` starts `queryExecutor`. That goroutine scans a read-only snapshot from `Seek(prefix)` and pushes to the iterator's `Next` channel. A full channel gets a 1 s blocking send. |
| Lifecycle | `database/main.go` | `Initialize` (a CAS on `initialized`, directory, registry, registry writer goroutine). `Shutdown` (a CAS on `shuttingDown`, close `shutdownSignal`, shut the controllers down and stop at the first error). |
| Websocket API | `api/database.go` | One handler goroutine per request. `processQuery` consumes an iterator and `processSub` consumes a subscription feed, classifying each record as new/upd/del. `send` pushes onto a 100-slot queue that the writer goroutine drains. |
| Config | `config/set.go`, `config/persistence.go` | Validated option setting with a change signal. JSON persistence through `flatten`/`expand`. |
| Logging, info | `log/logging.go`, `info/flags.go` | The log writer's start and shutdown, and the build-info flags. |

The parts interact as follows:
- Every caller goes through an `Interface`, so the API and the config are both facade clients.
- The facade writes the envelopes that the backend's scan must decode.
- `Shutdown`'s signal is observed by the API's consumer loops.

## Modules

**`Database`** models the facade together with the codec and the bbolt Get/Put.
- `store`: the bucket. It holds envelopes, and an envelope's `fmt` says whether the format byte is present.
- `cache`: one cache per Interface.
- `clock`: Unix seconds.
- `pc`, `op`, `rec`: per goroutine. `pc` is where the goroutine is in its call, `op` is the call, and `rec` is the record it holds.

Each mutating call is three steps, because other goroutines run between them:
- `BeginPut` / `BeginKeyOp`: `getRecord` and its early returns.
- `Apply`: the record lock, `Options.Apply`, the call's own change (`Mutate`, one arm per call), the `acc.Set` failure of `InsertValue`, and `updateCache` for `Put`/`PutNew`.
- `Commit`: `MarshalRecord` plus `BBolt.Put`.

`Get` and `Exists` change no state. `GetResult(c, k)` is what a Get by goroutine `c` would return now, including the cache-hit path with its permission re-check, and the invariants quantify over it.

`Inputs` are the records a goroutine can hand to `Put`:
- fresh wrappers with a nil meta, as `handlePut` builds them;
- a record it has just read, with any payload.

Payloads are sets of attribute names, and `BadAttr` stands for a path the JSON accessor refuses. `Meta` helpers come from the spec, because `meta.go` is not in `src/`.

**`Query`** models `queryExecutor` (the producer) and `processQuery`'s range loop (the consumer) over a fixed snapshot.
- Keys are byte sequences, ordered by a recursive `LexLess` (`bytes.Compare`).
- `Seek` finds the first key not below the prefix.
- `ScanStep` is one turn of the loop: end of bucket or end of prefix, a decode error, a skip, or a match.
- `Send` is the outer select (Done / send / default) and `Block` is the inner one (Done / send / timeout). Go's random choice among ready cases is a disjunction.
- `Cancel` closes `Done`, and `Stall` is a consumer that stops reading for good (blocked in the API's `send`).

**`Envelope`** models the envelope bytes as operators on sequences of byte values. There is no state.
- `GenCodeMarshal` and `GenCodeUnmarshal` are the 34-byte meta codec: four little-endian int64 timestamps, then the secret and crown-jewel bytes. `Byte` is `byte(x >> 8i)` and `FromLE` the shift-or of eight bytes, with the top byte signed.
- `Marshal` and `MarshalRecord` write version `1`, the meta block as a uvarint-length-prefixed block (`AppendAsBlock` of `DsdDumpMeta`: the GenCode tag, then the gencode bytes), then the format byte and the data. A deleted record gets no data section.
- `NewRawWrapper` reads the envelope back. A 34-byte meta block whose fifth byte is 0 is taken as legacy gencode, and any other block goes to `DsdLoadMeta`.
- `LegacyRecord` is an envelope written before the meta block carried its tag.
- The varint, container and dsd packages are not in `src/`, so `PackUvarint`, `UnpackUvarint`, `Unpack8`, `GetNextBlock` and the tags follow the envelope layout of spec sections 3 and 6.
- TLC integers are 32-bit, so timestamps are int64 values in that range. Their bytes 4..7 are all 0 or all 255.

`Query` stores an `Entry` per key: a record as written and whether it was written in the legacy envelope. `Bytes(e)` is what `BBolt.Put` stores for it. The scan decodes those bytes with `NewRawWrapper` (`Decoded`, computed once per entry), then applies `CheckValidity`, `CheckPermission` and `MatchesRecord` to the decoded record. `Expected` applies them to the record as written. So `ScanImplementsQuery` checks the codec too.

**`QueryResult`** is the abstract promise of a query (spec 4.2, 4.4): the expected records in key order, then `ok`; or a stop after a cancel; or a timeout. `Query` maps onto it with `INSTANCE ... WITH`:
- `expected` is the reference filter of the snapshot;
- `out` is `out \o next`;
- `status` is derived from the producer's end;
- `cancelReq` is `done`.

**`Lifecycle`** models `Initialize` and `Shutdown` called by several goroutines, and each step of each call is an action:
- the CAS;
- setup success or failure;
- closing the signal;
- one controller per loop turn, in any map order, each of which can fail.

A goroutine retries after an error, as spec 4.3 tells callers to.

**`Api`** models one websocket connection of `api/database.go`. Each goroutine of the code is an actor:
- the handler (`ReadRequest`, `ReadFail`);
- the writer (`WriterStep`, `WriterStop`);
- one request goroutine per operation, with its position in `pc`.

`send` is two steps. `Emit` builds the message into `pending`, and `Send` pushes it once `sendQueue` has room. So a goroutine blocked in `send` holds its message and does nothing else. `shutdown` sets `shut` and closes the connection.

A request is one of four kinds:
- `put`: `handlePut`. One database write, which feeds every registered open subscription, then `success` or `error`. The record is `NewWrapper` of JSON data with a nil meta (`EntryOf`); the transition code puts the JSON tag before data that lacks it.
- `delete`: `handleDelete` through `Interface.Delete` (`DeleteWrite`). An absent record is `ErrNotFound`; a tombstone does not decode (the `facade_delete` finding). Otherwise the record is written again with its Deleted time set, a new version in `tombstones`, and fed to the subscriptions.
- `sub`: `handleSub`. `registerSub` (`Interface.Subscribe`, or its error, which ends the request), then `processSub`'s loop. `Event` classifies a record: `del` for a tombstone, else `new`, since every record the API writes has Created = Modified.
- `qsub`: `handleQsub`. `registerSub`, then `processQuery`, then `processSub` only if `processQuery` returned true. `processQuery` is `QueryStart` (`db.Query` fails, or `Interface.Query` starts the producer), `QueryResult` (one `ok` per record the range takes from `Next`) and `QueryDone` (`it.Err()`, then the closing select).

The query's producer is `Query`'s bbolt scan, instantiated (`Q == INSTANCE Query WITH ...`) over two keys: the connection's record and an older record under a lower key, written before the connection opened and changed by no request. With two records the scan fills the one-slot `Next` channel, so its blocking send and 1 s timeout reach the client. Its variables are Api's `snapshot`, `cursor`, `qphase`, `qnext`, `qclosed`, `qdone` and `qerr`. `QueryView` is `b.db.View`: the read transaction's snapshot is the older record and the connection's record at its current version, as the `EntryOf` envelope written by `BBolt.Put`. `QueryProducer` is the rest of `queryExecutor` (`Seek`, `ScanStep`, `Send`, `Block`). The producer decodes the stored bytes with `NewRawWrapper`, so a tombstone aborts the scan with a decode error, as in the code. The table `ScanDecoded` holds the decoding of every entry, and `ScanStep` takes it as its argument so that TLC computes it once.

The environment is `ConnDrop` (the client goes away) and `FeedEnd` (the database ends a feed, with or without `sub.Err`). The controller's fan-out is not among the sources, so it follows spec 4.5. Messages carry the record version, so that a duplicate can be seen.

**`Config`** models `config/set.go` and `config/persistence.go`.
- **State:** `active` and `defaults` are the options' values, `changes` counts `signalChanges` calls, `file` is the JSON object on disk, and `started` tells whether `loadConfig` has run in this process.
- **Actions:** `SetConfigOption` and `SetDefaultConfigOption` each do the whole call: `validateValue`, set, `signalChanges`, `saveConfig`. `SetDefaultConfig` also has its own action. `Restart` ends the process but keeps the file, and `LoadConfig` runs `JSONToMap` and then `setConfig`.
- **Keys** are sequences of their `/`-separated parts.
- **`Expand`** is `expand`. Its result does not depend on the range order.
- **`Flatten`** is `flatten`, returning the set of results over every order of Go's map iteration. An entry deleted before the range reaches it is not produced.
- **`Unmarshal`** gives the decoded values the types `encoding/json` gives them: `float64` for numbers, `[]interface{}` for arrays.
- **`userConfig`**, the map `saveConfig` writes, is declared outside the sources. It is any flat map of accepted values.

## Runs

| Run | Expect | What it shows |
|---|---|---|
| `facade` | pass | Two goroutines on two Interfaces interleave every call. One Interface is local, always-secret and cached; the other has no flags. Every commit carries the flags its Interface's options force, whichever record the write started from (`PolicyOnEveryWrite`), and `TypeOK` holds. |
| `facade_secret_cache` | violation | Spec scenario 3. Put → MakeSecret → Get through the cache returns the now-secret record to a non-internal caller. |
| `facade_delete` | violation | Spec scenario 2. Put → Delete → Get fails to decode instead of returning NotFound. The deleted record is stored without its format byte, and for the same reason a bbolt scan aborts on it. |
| `facade_overwrite` | violation | A TOCTOU. Goroutine 2's Put passes its check, goroutine 1 commits MakeSecret, then goroutine 2 overwrites the record with a non-secret one although it may not read secrets. |
| `query` | pass | A one-slot channel and a consumer that reads, cancels or stalls. Every stored record that is not deleted decodes to what was written, in the current and in the legacy envelope (`EnvelopeRoundTrip`). The scan implements `QueryResult` (`ScanImplementsQuery`), a consumer that keeps reading sees the end (`ConsumerSeesEnd`), and the producer always finishes, through the 1 s timeout once the consumer has stalled (`ProducerTerminates`). |
| `lifecycle` | pass | Racing Initialize/Shutdown calls, with controllers that may fail to shut down. The Shutdown call that closed `shutdownSignal` returns nil only when every controller is shut down (`ClosingShutdownComplete`). |
| `lifecycle_retry` | violation | A Shutdown other than the first returns nil while controllers are still open: mid-teardown, or on a retry after a failure. |
| `api` | pass | A put, a delete and a qsub on one connection, the query running the bbolt scan over two records, a client that may drop and a feed that may end. A qsub stream is records, one `done`, then events (`QsubStreamShape`). A `done` comes only after a scan that finished without error or timeout, and after exactly the `ok`s of the snapshot's matching records, in key order (`ClientSeesSnapshot`). A qsub request is answered with `done` or `error` unless the connection shuts down (`QsubAnswered`). With a queue that holds all their messages, shutdown makes every request goroutine and the query's producer finish (`ShutdownReleasesGoroutines`). |
| `api_dup` | violation | A write between `handleQsub`'s `registerSub` and the query's snapshot reaches the client twice, as `ok` and as `new` (spec 4.5). |
| `api_leak` | violation | Two puts and a one-slot queue. The writer exits on shutdown, and the second put's goroutine blocks in `send` forever. |
| `api_subleak` | violation | `processQuery` returns false on shutdown or on an iterator error, and `handleQsub` returns without cancelling the subscription it registered. |
| `config_reload` | violation | Options "a/b/a" and "b/a". After a save and a restart, "b/a" loads as nil in one iteration order, because flattening the nested "b" deletes the top-level "b" before the range reaches it. |

Each property of a passing run has a mutant in `PROJECT.json`. A mutant is a plausible code bug that TLC must catch, such as an accessor error that is not returned, a missing Apply, a loop that goes on past a controller's error, a missing timeout, a `break` in place of `continue`, a `Finish` that does not close `Next`, a feed consumed during the query, a `processSub` without its shutdown case, a `processQuery` that never reads `it.Err()` or drops its `db.Query` error, or a legacy-meta test that reads the wrong byte.

## Bounds

**facade**
- One key and one attribute, so every call meets every other on the same record.
- Two goroutines on two Interfaces.
- A clock of 2 seconds, enough for Created ≠ Modified and for an expiry to pass.
- One duration.
- About 1.3 million states in about 70 s.

**query**
- Four keys: `<<1>>`, `<<1,1>>`, `<<1,2>>`, `<<2>>`. This covers a prefix followed by its extensions, a key past the prefix, and a prefix that `Seek` lands inside.
- Three prefixes (including the empty one).
- Records that are valid, expired, secret or non-matching. Their timestamps are of 2020, so all four low bytes of each timestamp are in use and byte 4 is 0.
- The secret record is held in the legacy envelope and the others in the current one, so the scan takes both meta paths and the flag bytes are checked through the legacy one.
- A channel of capacity one, so both select levels are reached.

**lifecycle**
- Two goroutines, two controllers (both map orders), and up to two controller failures, so a failure can be followed by a retry.

**api**
- In `api`, one put, one delete and one qsub: a write races the query's snapshot, and the delete can leave a tombstone for the scan to fail on. The violation runs keep one put and one qsub (or two puts), the smallest instances of their findings.
- Up to one resent feed error in `api`, and two in the violation runs.
- A `sendQueue` of 8 in `api` (room for all eight messages: two successes, two `ok`s, `done`, two events and one error, so a blocked send is only transient), of 6 in `api_dup` and `api_subleak`, and of 1 in `api_leak` (the queue fills).
- A `Next` channel of 1 slot and two records, so the producer blocks once the first record waits in the channel, and may time out.

**config**
- Two key parts and two options whose keys share a part at different depths.
- Two contents, of which one option's regex rejects one.
- Three types handed to the setters.
- Up to three change signals.

A control run with keys that share no part at different depths ("a/b", "b/a", "a/a/a") finds no violation. An `int` option violates `LoadRestoresSaved` through `float64`.

## Fairness

- **Query:** the producer goroutine gets weak fairness, since the Go scheduler runs it and `time.After` fires. The consumer is fair while it reads, which is `processQuery`'s range loop. `Stall` (blocked in the API's `send`) is never forced.
- **Api:** the Go scheduler runs every goroutine that can run, so each goroutine gets weak fairness on its steps: the handler (`ReadRequest`, `ReadFail`), each request goroutine, and the query's producer (`QueryView`, `QueryProducer`), as in `Query`. A `select` picks among its ready cases at random, so a case that stays ready is eventually taken. The writer's two cases, `processQuery`'s closing select and `processSub`'s shutdown case therefore have their own weak fairness. The client (`ConnDrop`) and the database (`FeedEnd`) are never forced.
- **Database, Lifecycle and Config** check safety only.

## Not modelled, and the plan

Not modelled, with the reason:
- **Byte-level framing in the facade.** `Database` keeps the coarse view of an envelope ("has a format byte / decodes"), and the bytes are checked in `Query` through `Envelope`. Running the facade over bytes would multiply its 1.3 million states for nothing new.
- **Timestamps of 2^32 and more.** These are outside TLC's integers. A legacy record with `Created` from 2106 on would fail the legacy test and go to `dsd.Load`.
- **`Unwrap`.** It decodes the payload into another record type through `dsd.LoadAsFormat`, which is not in `src/`. No modelled code calls it.
- **Cache eviction.** The gcache ARC eviction and its one-hour expiry only remove entries, so a stale entry stays possible.
- **Missing sources.** The controller, registry and subscription machinery are not in `src/`. Only their observable contract is used. The same holds for the config getters that read the validity flag and `changedSignal`, and for the code that keeps `userConfig`. Nothing in `set.go` writes `userConfig`, so `setConfigOption` saves a file that reflects the option only if that code keeps the map in step.
- **`handleGet`.** Its condition is inverted. On a found record, `if err == nil` calls `Error()` on a nil error. On a failed `Get` it calls `Key()` on a nil record. Both panic, and a unit test reaches either directly, so no model is needed.
- **`handleInsert`.** It does a `Get`, the accessor edits, then a `Put` of the fetched record. A subscriber would classify that write as `upd`, since its Created stays and its Modified moves. As a fourth request in `api` it would take that run past its time, so it is left out.
- **`handleQuery`.** It is `processQuery` without the subscription, and `qsub` runs that code.
- **Malformed requests and `ParseQuery` errors.** Each sends one error.
- **Logging** (`log/logging.go`). The writer goroutine (`startWriter`) is not in `src/`. What remains is sequential:
  - `Start`'s compare-and-set, the pattern `Lifecycle` checks. A losing `Start` returns nil before the winner has made `logBuffer` and closed `startedSignal`, and the code that would then send on `logBuffer` is not in `src/`;
  - `Shutdown`'s unguarded `close`, where a second call panics;
  - the per-package level parser. Its `break` drops every pair after an invalid one, although the message says only that pair is ignored.

  A unit test reaches each of these.
- **Build info flags, tests.** No state.

Not checked, although explored:
- **Properties that restate one guard.** No run checks that a Get only returns what `CheckPermission` allows (both paths of `GetResult` run that check on the record they return), that at most one registry writer starts, that `shutdownSignal` is closed once (each held by one compare-and-set), or that the `Next` channel stays within its capacity (the send's own guard). The cache's real hazard, a stale copy whose check is made on old meta, is what `facade_secret_cache` shows.
- **`Initialize` after a failed setup** (`database/main.go:38`). `initialized` stays set, so every later `Initialize` reports "already initialized" and the registry is never loaded. `Lifecycle` explores this path. The spec promises no retry, and a violation run of its own would exceed the project's run budget.
- **The writer's own `shutdown` call** (`api/database.go:205`). `Api` models the connection as one flag, so a write error means the handler's `ReadMessage` fails too and calls `shutdown`. A writer that returned without it would go unnoticed; only a half-open connection (writes failing, reads working) would tell them apart, and it is not modelled.

Known and not run:
- **The resent error.** `processSub` resends `sub.Err` on every turn of its loop once a feed has ended with an error (`api/database.go:387`).
- **Update classified as new.** `handlePut` hands every record to the facade with a nil meta, so each write creates a fresh meta with Created = Modified = now. Every update through the API is then classified `new` (`api/database.go:377`), and the original Created is lost. `Api`'s `Event` follows this and sends only `new` and `del`. Both timestamps come from one assignment, so a run would only restate it.
- **Type change on reload.** After a reload, `int` options hold `float64` values that `setConfigOption` would reject. `Config` with an `int` option shows it.

Planned next, in order:
1. `handleInsert` in `Api` (the `upd` event), once the run can afford a fourth request.
2. `Logging`'s level parser as a RECURSIVE operator, should a run slot become free.
