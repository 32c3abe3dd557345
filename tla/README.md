# Make_Skills in TLA+

Specifications, model-checking configurations and machine-checked proofs for
the parts of Make_Skills that keep state: the skill-making bridge to the-loom,
the telemetry collector, the runtime that chats with student-built agents, the
roadmap file, and the archived memory store with its file shim. Paths below are
relative to the repository.

- [Inventory](#inventory)
- [Modules](#modules)
- [How the models correspond to the code](#how-the-models-correspond-to-the-code)
- [Runs](#runs)
- [Fairness](#fairness)
- [Proofs](#proofs)
- [What the checks found](#what-the-checks-found)
- [Not modelled](#not-modelled)
- [Plan](#plan)

## Inventory

Make_Skills is one FastAPI application (`services/api/main.py`) on one asyncio
event loop per worker process, in front of Postgres. Every tenant-scoped table
has forced row-level security; a transaction sees the rows of the tenant whose
id it put into `app.tenant_id`. Concurrency is that of coroutines: whatever
runs between two `await`s is atomic within a worker, a database transaction is
atomic everywhere, and anything may happen at an `await`.

| Component | State | Operations | Interacts with |
|---|---|---|---|
| Bridge receiver (`services/skill_making/bridge_receiver.py`, `idempotency.py`, `tenant_mapping.py`, `hmac_verify.py`) | `bridge_idempotency`, `tenant_id_mapping`, `promoted_skills` | verify, replay a stored answer, resolve the tenant, persist the candidate, record the answer | the-loom POSTs to it; the route schedules a compile task for a 202 |
| Bridge compiler (`core/skill_making/compiler.py`, `compile_worker.py`, `ack_sender.py`) | `promoted_skills`, `student_skills`, the stored answer | load the candidate, choose a name, insert the skill, publish it in the stored answer, ack with retries | reads what the receiver wrote; POSTs to the-loom |
| Telemetry collector (`telemetry_collector.py`, `telemetry_sender.py`) | queue, flusher task, batch, stop flag, all in memory | `record_event`, flush loop, start, stop | compiled skills record events; the lifespan starts and stops it; POSTs to the-loom |
| Agent runtime (`core/runtime/runtime.py`) | caches of configurations and built agents, per `(tenant, agent)` | resolve, load, build, chat, stream | reads `user_agents`, `student_skills`, `student_secrets`; looks up the source tenant |
| Thread gate (`_ensure_thread_belongs_to_tenant` in `main.py`) | `conversations` | claim a thread or refuse | in front of every chat and of `/threads/{id}/state` |
| Key store (`core/auth/secrets.py`) | `student_secrets` | set, list, get, delete | read by the runtime |
| Roadmap file (`services/admin/roadmap/file.py`, `tools.py`, `/roadmap` endpoints) | `ROADMAP.md`, a lock | read, overwrite, update an item, append | the agent's tools call it on threads, endpoints on the event loop, people edit the file |
| Memory server (`deprecated/lancedb-memory/mcp_server.py`, `lance.py`) | a LanceDB table without a key | write, delete; read, list, search | one process per session; shims write the same table |
| Memory shim (`docs/_archive/scripts/memory_shim.py`) | a directory of files, the watcher's queue, timestamps | startup pull and push, watch, poll | one per machine, between its files and the table; archived |
| Migrations, authentication, sessions, inspectors, scripts | tables at start-up; none otherwise | | |

What is hard in each, and what makes it correct:

- **Bridge.** `promotion_id` is the idempotency key of a caller that retries.
  The receiver takes four transactions and the compile task five more, and a
  coroutine can stop between any two of them. It is correct when a promotion
  has one answer, is compiled into one skill in the tenant that owns it, and
  is told to the-loom as what it is.
- **Telemetry.** The flusher is cancelled by its own timer every quarter of a
  second, and by `stop()`. It is correct when no event taken is dropped or
  sent in two batches, events leave in order, a slow trickle of events is
  still flushed, and `stop()` ends.
- **Agent runtime.** Two levels of cache filled across `await`s, keyed by
  tenant and agent; two tenants who may claim the same thread id. It is
  correct when no tenant is served another's agent, key or thread.
- **Roadmap file.** The lock covers the write and not the read before it;
  opening the file truncates it; readers take no lock. It is correct when
  changes are neither lost nor applied to a file nobody wrote, an update lands
  in one row, and nobody waits for ever.
- **Memory.** A row is replaced by fetch, delete and insert, three calls that
  anybody may come between; the shim's two threads, the operating system's
  events and other sessions all change what the shim is looking at. It is
  correct when a memory keeps one row and loses none, and files and table
  agree in the end.

`PROJECT.json` lists every hazard at its line, with the properties aimed at it.

## Modules

| Module | What it is |
|---|---|
| `PromotionLedger` | what the bridge promises of one promotion: an abstract specification |
| `Bridge` | receiver, compile task and ack, one coroutine per POST |
| `BridgeProperties` | its invariants, action properties, liveness, and the refinement mapping to `PromotionLedger` |
| `MCBridge` | instances for TLC |
| `BridgeProofs` | TLAPS proofs about `Bridge`, whatever overlaps |
| `BridgeSerialProofs` | TLAPS proofs for POSTs that do not overlap, the refinement of `PromotionLedger` included |
| `BridgeQueueProofs` | TLAPS proofs that queued promotions are worked on |
| `EventChannel` | what the collector promises: a bounded first-in first-out channel |
| `TelemetryCollector` | queue, flusher, sender and lifespan |
| `TelemetryProperties` | its properties and the mapping to `EventChannel`; also the root module of its runs |
| `TelemetryProofs` | TLAPS proofs, refinement included |
| `AgentRuntime` | chats, caches, thread gate and key store |
| `RuntimeProperties`, `MCRuntime`, `RuntimeProofs` | properties, instance and proofs |
| `RoadmapFile` | `ROADMAP.md`, its lock, the calls that read and write it, and the text algorithms |
| `RoadmapProperties`, `MCRoadmap`, `RoadmapProofs` | properties, instance and proofs |
| `MemorySync` | table, memory servers, files and shims, followed for one memory |
| `MemoryText` | a memory's text between file and table, as operators |
| `UpsertStore` | what the memory server promises of one memory: a store with upsert and soft delete |
| `MemoryProperties`, `MemoryProofs` | properties (also the root module of its runs), the mapping to `UpsertStore`, and proofs |
| `MemoryTextProofs` | TLAPS proofs about `MemoryText` |

Operators whose comment begins with *Mutant* are not part of a specification.
Each is a plausible mistake in the code it stands beside; `PROJECT.json` pairs
it with the property that has to notice it.

## How the models correspond to the code

### Bridge

A request `r` is one POST. Its `pc` names the next transaction or network call:

| `pc` | Action | Code |
|---|---|---|
| `idle` | `Deliver`, `RejectDelivery` | signature and schema, up to the first `await` |
| `check` | `CheckIdempotency` | `get_existing`; a stored 202 is replayed as 409 |
| `resolve` | `ResolveTenant` | `resolve_engine_tenant` |
| `persist` | `PersistCandidate` | `_persist_candidate` |
| `record` | `RecordAnswer` | `record`, insert unless there is a row |
| `respond` | `Respond` | the response; a compile task follows a 202 for a skill |
| `load` | `LoadCandidate` | first transaction of `compile_from_bridge_candidate` |
| `name` | `ResolveName` | `_resolve_name_collision` |
| `insert` | `InsertSkill` | the insert and the update of the row, one transaction |
| `publish` | `PublishAnswer` | `update_response` |
| `context` | `LoadAckContext` | `_load_ack_context` |
| `ack` | `SendAck` | one POST of `send_registration_ack` |

`Stop` ends a coroutine at any of these: its next database call raises, or the
worker dies. What it committed stays. `SetMapping`, `ForgetRefusal` and
`CreateAgentSkill` are the operator and other users. A name is a base name and
a suffix number. A row id is the request whose task inserted the row: every
task inserts at most once and ids are fresh, so nothing is lost. Bodies,
descriptions, tags and pattern signatures are left out: no step tests them. Two
base names never differ by a suffix only. `raced` is history: the tasks between
whose choice of a name and insert another row of their tenant came in.

`Overlap` tells apart two environments. With `Overlap = TRUE` the-loom may have
two POSTs of one promotion in the receiver at once (it timed out and retried);
with `FALSE` a retry starts only after the receiver is done with the one
before, or has died. The compile tasks overlap with everything in both.

### TelemetryCollector

`flusher` says where the task stands: `fill` (in `get()` or about to call it),
`woken` (the timer of `wait_for` has cancelled a `get()` that had nothing, and
the task waits to be scheduled), `send`, `exited`. The gap between `TimerFires`
and `Wake` is real: other coroutines run in it, and may record events. Time is
abstract. `due` is set at any moment by `IntervalPasses`, and `GraceExpires`
may end a `stop()` at any moment, so every duration is covered. Events are
numbered, the history variables remember where each one went, and the
properties are stated over these.

### AgentRuntime

A request carries a tenant, an agent and a thread. `Gate` is the thread gate's
transaction, `Resolve` the two cache lookups up to the first `await`,
`LoadConfig` the transaction of `_get_config`, `StoreConfig` what follows its
commit, `BuildAgent` what follows `lookup_source_tenant`, `Invoke` the call of
the agent, of which only the effect on the thread's stored messages is kept.
A configuration is its tenant, its agent and the key it was read with, and a
built agent is the configuration it was built from. `Restart` loses the caches
and the requests. Skills, integrations and prompts do not change for an agent
once created (no endpoint does it), so what goes stale is the key. `since`
and `held` are history: the keys a chat's tenant has had since the chat arrived,
and those each tenant has had since the worker started.

### RoadmapFile

A call is an endpoint or a tool. Endpoints are `async` functions that await
nothing: the event loop runs one from its first line to its last and starts
nothing meanwhile (`LoopIsBusy`). Tools are plain functions; each runs on a
thread of its own, so anybody may come between any two of its steps.

| `pc` | Action | Code |
|---|---|---|
| `idle` | `Begin` | the endpoint or tool, with its check of the status |
| `read` | `ReadFile` | `read_roadmap`, then the new text or an error |
| `lock` | `OpenFile` | `with _lock:` and the truncation by `write_text` |
| `write` | `WriteSome`, `CloseFile` | `write_text` fills the file; the lock is released |

`WriteFails` is a write that raises, `Restart` the process that stops, `Edit` a
person saving the file. A text is a sequence of headings and table rows; notes
and layout are left out, and so is what no code reads back. Which title contains
which is a constant relation, so every way in which titles can be part of each
other is covered by the proofs. `ledger`, `stale` and `sound` are history:
what the changes would have made of the file one after the other, whose text is
out of date, and whether such a text or a broken write got into the file.

### MemorySync

Sessions and machines share `rows`, the rows with one memory's id. An
operation on the table is `Fetch` (the row it found), then `ClearForRequest` or
`ClearForShim` (the delete), then `Insert`.

| Action | Code |
|---|---|
| `WriteRequest`, `DeleteRequest` | `memory_write`, `memory_delete` up to the fetch |
| `HandleEvent` | one event of `_Handler`: `push_file` or `delete_on_disk_path` |
| `Start`, `PullList` ... `PullTouch` | `run_daemon`, `pull_all`: list, look at a row, write the file, set its time |
| `StartupPush`, `Observe` | the push of what is on disk, then `observer.start()` |
| `Stop` | `--once`, or a signal between two polls |
| `EditFile`, `RemoveFile` | a session's or a person's file operation |
| `SessionFails`, `WatcherFails`, `ShimDies` | a process dies, or a call on the table raises |

Abstractions: one memory, whose name is its file's. Content is the time it was
written, in the form it is stored in. A call on LanceDB is atomic and sees the
latest version. The shim's lock never makes anybody wait: the main thread
pushes only before the watcher exists, and pulls do not take it. A poll whose
listing fails changes nothing and is a stuttering step. Reads and searches, and
the rows the recorder adds under ids of their own, are not seen by any of this.

`Upsert` maps all this to `UpsertStore`. The stored record is what the table
holds, or, between a delete and its insert, what the operation that is about to
insert had found; it changes with the insert, or is lost when the operation dies
there. While operations have overlapped the mapping promises nothing, until one
runs alone.

### MemoryText

That a memory may be followed by the time it was written rests on what storage,
file and parsing do to its text: `Combine` and `Split` are
`_combine_for_storage` and `_split_for_storage`, `Reread` is `serialize_memory`
followed by `parse_memory_file`, `RoundTrip` is a pull and the next push. A text
is the sequence of its lines. `TextSurvives` compares both ways: a memory with
a description of one line and a body comes back as it was, and a stored text
loses one run of blank lines per trip, and none from the third on. A body without a description whose first line stands
alone does come back as a description and a body; it is stored as the same text.

## Runs

| Run | Question | Expected |
|---|---|---|
| `bridge_serial` | does the bridge implement the promotion ledger when POSTs of one promotion do not overlap, coroutines stopping and the operator intervening? | holds |
| `bridge_racing` | what is left when POSTs do overlap: are the tables consistent, in their tenant, and is what replays and acks say of skills true, do names differ unless tasks race, and is a queued answer worked on until something stops? | holds |
| `bridge_live` | does every queued answer become one with its skill if nothing stops half-way, names do not run out and the promotion is not stranded between tenants? | holds |
| `bridge_overlap` | is a promotion compiled once when POSTs overlap? | violated |
| `bridge_crash` | do retries recover a promotion whose compile died? | violated |
| `telemetry` | are events kept, in order, flushed in the end, and does `stop()` end? | holds |
| `telemetry_drain` | does a flusher that returns in time leave nothing behind? | violated |
| `runtime` | does every chat stay within its tenant, with a key no older than the worker? | holds |
| `runtime_key` | is the key a chat runs on one its tenant had when it arrived, or since? | violated |
| `roadmap` | are changes lost, rows mixed up, or calls stuck, with an endpoint, another one, a tool and an editor at the file? | holds |
| `memory` | does a memory keep one row and lose none, is the table an upsert store to whoever runs alone, do file and table agree in the end, and does a text survive the trip? | holds |
| `memory_lww` | does the table keep the newest of what was stored? | violated |

Bounds, and why they are enough:

- Bridge: up to three POSTs. Two of one promotion race, and the third retries
  after both or belongs to a second promotion. Both promotions want the same
  name, so tasks collide on it. One suffix is allowed, so that running
  out of names happens; two ack attempts, so that a retry and the last attempt
  both happen; one stop, at any point; two writes by the operator or other
  users, enough to unmap a tenant and map it elsewhere, or to add a mapping and
  delete the recorded refusal. `bridge_live` checks liveness and so does without
  symmetry, with one promotion, but three operator's writes and three POSTs: two
  tenants can own the source while POSTs race, and the three steps that strand
  a promotion fit in. Names have no suffix there, so that they run out as soon
  as another user has the name.
- Telemetry: batches of two, a queue of two, two POST attempts, six events, so
  that queue and batch fill up with events to spare, and a restart.
- Runtime: two tenants, one agent that one of them owns or creates, two
  threads, three chats or reads, two key writes, one restart. One chat fills the
  caches and two race around them.

- Roadmap: two endpoint calls and a tool, so that a tool races both and they
  follow each other; one edit; one failed write or restart. Two titles, one of
  them part of the other; two texts, in one of which the longer title stands
  alone.
- Memory: one machine, two sessions, edits and requests that begin at three
  times, two starts of the shim, one fault. Two sessions and the two threads of
  the shim are all the actors there are to overlap; what one machine's file
  owes to another's reaches it through the table. `memory_lww` needs neither
  a fault nor a second start. Texts of up to six lines, of two words and blank
  ones: room for a description, a separator, and a body with a blank line on
  either side of a word.

Requests, tenants and threads are interchangeable, and TLC is told so
(`ModelSymmetry`, `RuntimeSymmetry`) where only safety is checked. Deadlock is
not checked: a system whose requests are all answered, or whose collector is
shut down, may rest.

## Fairness

`Bridge!FairSpec`: an event loop runs every coroutine that is ready, so a
request that has arrived takes its next step (weak fairness per request).
Nothing makes the-loom send further POSTs. Under this assumption a coroutine
may still stop where `MaxStops` allows it; `bridge_live` sets it to 0, for the
code has no recovery from it, as `bridge_crash` shows.

`TelemetryCollector!FairSpec`: the ready flusher runs, the flush interval
passes, and `stop()` goes on when its wait is over, be it that the flusher
returned or that the grace period ended. Nobody has to record an event, start
or stop. The send is covered by the fairness of the flusher's actions because
the number of attempts is bounded and each has a timeout.

`RoadmapFile!Fairness`: a call whose thread can run goes on, one assumption per
call. That is enough: while a call waits for the lock its
holder writes, closes or fails, no call starts over, and so the lock is taken
only as often as there are calls.

`MemorySync!Fairness`: a request that was begun goes on, and so do the shim's
watcher and main threads, which poll and handle events for as long as they
live. Nobody has to edit, make a request, or start or stop a shim.

## Proofs

TLAPS checks, for every value of the constants that satisfies the named
assumptions (`BridgeAssumption`, `CollectorAssumption`, `RuntimeAssumption`,
`RoadmapAssumption`, `MemoryAssumption`, `TextAssumption` and that `None` is none of the values it
stands apart from):

| Theorem | Says |
|---|---|
| `BridgeInvariant` | `Spec => []BridgeInv` |
| `TypeCorrect`, `CompiledRowsHaveSkills`, `SkillsStayInTenant`, `PublishedSkillsExist`, `AckedSkillsExist` | its conjuncts, one by one |
| `StoredAnswersKept` | the action property of stored answers |
| `NamesDiffer` | `Spec => []NamesDifferUnlessRaced` |
| `QueuedHasTask` | `Spec => []QueuedIsWorkedOn`, the part of `QueuedGetsPublished` that is safety |
| `SerialInvariant` | `Spec => []SerialInv`, if `Overlap = FALSE` |
| `OneSkill`, `AnswersAreCanonical`, `AcksOfOneTask` | one skill, one answer, one ack of a promotion, if `Overlap = FALSE` |
| `LedgerImplemented` | the bridge implements `PromotionLedger`, if `Overlap = FALSE` |
| `CollectorInvariant`, `EventsAreKept` | `Spec => []CollectorInv`, `[]NothingVanishes` |
| `ChannelImplemented` | the collector implements `EventChannel` |
| `RuntimeInvariant`, `AgentsServeOwnTenant`, `ThreadsKeepTenant` | tenant isolation of chats |
| `KeysAreFromThisWorker` | `Spec => []KeyFromThisWorker`: how stale a key can be |
| `RoadmapIsSafe`, `RoadmapLosesNothing`, `EndpointsAreAtomic`, `UpdatesAreSurgical` | the roadmap file's invariant and its safety properties |
| `MemoryIsSafe`, `SingleWriterKeepsOneRow`, `MemoryIsKept` | the memory table's invariant and its safety properties |
| `StoreImplemented` | the memory server and the shim implement `UpsertStore` |
| `TextsSurvive` | `Spec => []TextSurvives`, for texts of any length; `MemoriesComeBack` is its first half |

The argument is the same each time. The property is not inductive, so it is
strengthened by what a coroutine or a thread knows at each of its steps although
others ran in between:

- `BridgeInv` adds `RequestInv` (past the resolver a request has a tenant; a
  task works for an accepted skill), `JobInv` (a task that chose a name still
  sees its row, because rows are never deleted and never change owner; a finished
  job holds a skill of its promotion) and `InsertedInv` (a row id is not taken
  before its own insert).
- `NamesDifferUnlessRaced` carries its own strengthening: a task that nobody
  came in between still inserts a name which is free.
- `QueuedInv` adds to `BridgeInv` that a queued row has a task whether its
  answer is stored or not (`RowsAreWorkedOn`), because who persists it records
  next and then works; that an answer which says queued has a row
  (`AnswersHaveRows`); and that nobody has a tenant before resolving one
  (`RequestsProgress`). `TaskKept` says when a step of one request leaves a
  promotion to those who work on it; the insert hands the promotion from a task
  that compiles to one that publishes. A stored answer may also be written after
  the row was compiled, by a request of another tenant. This case, `Stranded`,
  is one that the property had to name.
- `SerialInv` is about all requests of one promotion together. Only one of
  them is in the receiver (`OneReceiver`), so what the first step found still
  holds at the last: nothing was recorded in between (`NothingRecordedYet`). So
  one request alone is ever answered 202 (`OneAccepter`): the next one finds the
  answer, and an acceptance is never deleted (`RepliesAgree`). Its task is the
  only one there is, so every skill, every published answer and every ack of the
  promotion comes from it (`SkillOfAccepter`, `OwnJob`, `AckOfAccepter`). The
  hypothesis `Overlap = FALSE` is used once, in `DeliverSerial`. The
  refinement then reads each action off the two tables: recording is `Accept`
  or `Refuse`, the insert is `Compile`, rewriting the stored answer is
  `Publish`, deleting a refusal is `Reopen`, and every other step leaves the
  ledger alone.
- `CollectorInv` adds `FlusherInv` (only a batch with events is sent, a flusher
  that returned holds none). The refinement
  rests on the bounds of batch and queue that it contains, and on lemmas about
  what appending and taking the head do to a concatenation.
- `RuntimeInv` says that a request past the gate owns its thread, and that
  whatever is cached or held under a key serves that key. The last is what
  makes a hit by one request on a configuration another loaded harmless.
  `KeyInv` adds that a tenant's key of now is one it has had, which is what a
  load puts into the cache.
- `RoadmapInv` adds that the file under a writer is the beginning of its text
  (`WriterHoldsLock`), that whoever waits for the lock with a text of the old
  file counts as overtaken (`WriterOvertakes`), and that a text which is not
  overtaken is the change it stands for, applied to the ledger (`TextsFollow`).
- `MemoryInv` adds that an operation which runs alone has found what there is
  (`AloneIsAlone`), so that it clears the table if and only if there was
  something to clear; and that an operation under way knows its row. The
  refinement follows from these: a step changes the record only where an
  operation that ran alone inserts, dies between its two calls, or is joined by
  another.
- `TextsSurvive` needs no induction although texts have any length: where a
  text is cut and where it is stripped are named by indices, and what
  `SubSeq` and concatenation do to them is in the library's theorems.

Each proof has a lemma per action and combines them in `Next...`; the
theorem itself is one temporal step.

Only model-checked: the liveness properties (`QueuedGetsPublished`,
`AcceptedSettles`, `StopEnds`, `CallsEnd`, `FileAndStoreAgree`), which are out
of the prover's reach. All invariants and action properties of the passing
runs, and the three refinements, are proved.

## What the checks found

Each of these is a run with a counterexample; `PROJECT.json` quotes the text
that the code disagrees with.

1. `bridge_overlap`: two overlapping POSTs of one promotion are both answered
   202 and compiled into two skills. The compile task's check for an already
   compiled row reads the status in a transaction of its own.
2. `bridge_crash`: a compile that dies leaves its promotion queued for good.
   Retries are answered 409 queued and compile nothing.
3. `telemetry_drain`: a flusher that wakes up from a timeout after `stop()`
   returns without looking at the queue, in which an event may have arrived
   since the timer fired.
4. `runtime_key`: a provider key is cached with the agent for the life of the
   worker. Replacing or deleting it does not reach chats: in the trace one chat
   builds the agent, its tenant stores another key, and a chat that arrives after
   that still runs on the first key. A key stored while a chat is under way is
   no violation, and neither is an agent without a key.
5. `memory_lww`: the shim's push, which at startup covers files nobody edited,
   replaces a row that is newer than the file.

Seen while modelling, without a run of their own: a promotion stays queued
although nothing stops, if it was refused to one POST while another that had
its tenant was accepted, compiled it after the operator forgot the refusal, and
a third POST arrives once the source is mapped to another tenant (`Stranded`: the
answer of the second was never stored, that of the third promises a compile its
tenant cannot see; the proof of `QueuedHasTask` brought it up); two tasks
of a tenant that race store two skills of one name (`raced`); a full telemetry queue refuses
the newest event where a comment says that the oldest is dropped; a change of the
roadmap that a tool's thread computed can be lost to another, and the other way
round (`NoChangeLost` says that nothing else loses one); an edit between the
shim's startup push and its observer waits for the next one (`missed`); the
removal of a file while it is being pushed takes the row with it and ends the
watcher (`lost`); an operation on a memory that dies between delete and insert
loses its row.

## Not modelled

- The migrations: they run once at start-up, before requests. The keys,
  constraints and policies they create are part of the transactions.
- Authentication, sessions, inspectors, listings, `query_db`: no state, or
  one read.
- `core/runtime/agent.py`, `core/providers/model_registry.py`,
  `core/orchestration/subagents.py`: they build third-party objects from
  configuration.
- The memory recorder, the recall tool and the HTTP transport of the memory
  server: rows under fresh ids, reads, and the choice of a tenant.
- Architecture snapshot and diff, adapters, seeds, deployment files, one-off
  scripts: sequential programs that write reports, or no programs.
- Within the modelled parts: texts, tags, signatures, wall-clock time, the
  source tenant that telemetry carries, memories whose frontmatter name is not
  their file's.

## Plan

Done, in this order: the bridge with its ledger (the most state, the most
steps, an outside party that retries), the telemetry collector with its
channel, the agent runtime, the roadmap file, the memory store with its shim;
for each a proof of its inductive invariant, and for the bridge, the
collector and the memory store a proof that they implement what they promise.

Next:

1. `AgentRuntime`: the source tenant, looked up once and cached with the agent.
2. Memory: a second machine, so that the file of a soft-deleted memory, left on
   one machine, is pushed again by its next start; frontmatter names.
3. Pure algorithms against reference definitions: the name suffix search, the
   architecture diff.
