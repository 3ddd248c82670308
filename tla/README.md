# Verification of foldkit-agent

TLA+ models of this repository: the durable journal and its effect ledger
(`packages/durable`), the replicas of `packages/sync` against the document
server of `examples/sync` and the parts around them, the cache of
`packages/remote` against `remote-server` and `remote-drizzle`, the agent
runtime and its adapters, and the composition laws of `surface` and `mixins`.
TLC checks small instances; TLAPS proves, for every instance, the safety
properties of the journal, the effect ledger, the replicas and the parts around
them, the remote cache's reads, the saved cache, keyset reads, the ownership
laws of a module, and the agent's dispatch, contract and adapters; and that
replication implements a shared document.

Everything in `map` of `PROJECT.json` is translated from `src/`; the numbers
after a file name below are its lines.

## 1. The system

foldkit-agent is a monorepo of TypeScript packages on Effect. One process runs
many *fibers*; a fiber gives up the processor at its asynchronous points only
(an await, a semaphore, a statement of an asynchronous SQL client), and it can
be *interrupted* there. State lives in a `Ref`, in SQLite, in IndexedDB, or in
the application's Model.

### 1.1 Durability and replication

| component | state | operations | interacts with |
|---|---|---|---|
| **durable journal** `packages/durable/src/journal.ts` | tables `operations` and `documents` in SQLite; a sliding `PubSub` of document keys | `append`, `appendAll`, `read`, `compact`, `reset`, `changes` | called by document servers; the application's `authorize` and `reduce` are called inside its transaction |
| **effect ledger** same file, 790-960 | table `effects`; in memory `inFlight`: effect key -> reservation with a `Deferred` | `runEffect`, `clearEffect`, `recover` | called by the exchange handler before it acknowledges, and by a recovery scan at start |
| **sync replica** `packages/sync/src/sync.ts`, `indexedDb.ts` | persisted: next local number, cursor, committed model, window of committed ids, outbox; in memory a copy of it, a revision, a lock, a wake queue of one | `openReplica`, `submit`, `synchronize`, `start`, `close` | storage by compare-and-swap on the revision; server through the transport |
| **document server** `examples/sync/src/journal.ts`, `server.ts` | none of its own | exchange handler, `appendAsServer`, `compact` | journal, ledger, the rooms of connected sockets |
| **transport** `packages/sync/src/transport.ts` | pending requests by id, the socket, the retry schedule | `exchange`, server push | repeats an unanswered frame after a reconnect |
| **authoring, lww, presence, mount** `make.ts`, `lww.ts`, `presence.ts`, `mount.ts` | a logical clock; peers with a last-seen time; the shared slice of the Model | derive codecs, stamp and merge, heartbeat and expire, persist and re-install | built on the replica |

What makes it hard: a replica reads its state *before* the request and uses
the response *after* it, while submits, other exchanges and other tabs go on;
a request may be carried out although its reply is lost, and is then sent
again, possibly while the first copy is still being worked on; the tab may die
between the storage transaction and the installation of its result; storage
may be evicted; the server compacts what a replica has not read yet; a crash
falls between the execution of an external action and its record.

What makes it correct: one total order of operations, each in it once; every
replica holds a prefix of it; no submitted operation is lost or committed
twice; a rejected one is not committed; an acknowledged operation's effect is
settled; a recorded effect is executed once.

### 1.2 Remote data

| component | state | operations | interacts with |
|---|---|---|---|
| **remote client** `packages/remote/src` | in the Model: normalized entities with staleness and tombstones, connections in segments with overlays, optimistic layers, a bounded window of settled mutations, gaps per subscription, retained surfaces | `updateRemote` on every message; `observe` (plans missing reads), `live`, `mutate`, `gc`, `hydrate` | reads, queries, mutations and live events from the server |
| **remote server** `packages/remote-server/src/index.ts` | the live hub's subscribers, each with its own numbering | read level by level, query, mutate, live | the application's resolvers |
| **remote-drizzle** | none | queries, relations and counts by keyset | the database, without a transaction around a read |

What makes it hard: answers, live events and settlements arrive in any order,
duplicated or with gaps, over a cache that optimistic layers cover and that
garbage collection trims; the rows behind a list change between two of its
pages; tabs of several users and builds share one saved cache. What makes it
correct: the visible view is the confirmed state with exactly the pending
layers on top; results are applied once; a list shows no edge twice and hides
no pending insert; collection never changes a view.

### 1.3 Agents

| component | state | operations | interacts with |
|---|---|---|---|
| **agent contract** `packages/agent/src/make.ts`, `expose.ts` | none | construction of the contract | runtime |
| **agent runtime** `runtime.ts`, `completion.ts`, `audit.ts` | waiters on the Model stream, a ring buffer of audit records | `dispatch`: resolve, authorize, construct, send, await completion; cancellation | the application's `dispatch` and Model stream |
| **MCP adapter** `packages/agent-mcp/src` | sessions, streams with a replay buffer, in-flight requests by id | POST, GET, DELETE; list-changed announcements | runtime |
| **A2A adapter** `packages/agent-a2a/src` | a bounded table of tasks | send, get, cancel, settle | runtime |
| **WebMCP adapter** `packages/agent-webmcp/src` | registered tools, a chain of reconciles | reconcile, unregister | the browser's model context |
| **agent-native** | none | one action is one dispatch | runtime |

What makes it hard: a client cancels while the Message is being sent; a task
is evicted or canceled before it settles; a stream is displaced by its own
reconnect. What makes it correct: the waiter is subscribed before the send, a
terminal state that was told is final, and an event is received on its stream or
replayed, unless it falls between a GET's answer and its subscription (section 5).

### 1.4 Composition

| component | state | operations | interacts with |
|---|---|---|---|
| **surface** `packages/surface/src/index.ts` | none; the application's Model passes through it | references (`get`, `set`, `at`, `index`), projections (`select`, `pick`), `Module.add`, `validate`, `manifest` | every package names parts of the Model by its references |
| **mixins** `packages/mixins/src` | a registry of capability names | attach Styles and Behaviors to the slots a view publishes, compose, diagnose | the view's own attributes |
| **mixins-surface**, **mixins-ui** | none | glue; ready-made contributions | mixins, surface |

These run in one turn; what is hard is the number of ways in which definitions
meet. What makes them correct are laws over all of them: what is written is
read, two contributions never share an owner, and order decides only where it
is said to.

## 2. Modules

| module | models | state and actions |
|---|---|---|
| `JournalTables` | the three statements a commit is made of, as operators on a document's tables: `Prior`, `Outcome`, `Insert`, `AfterCommit`, `RowsAfter`, `Compacted` (journal.ts 596-733, 735-790) | none: operators, and the predicates that make tables consistent |
| `Journal` | one document under concurrent callers | `db`, `holder` (whose transaction holds the only connection), `staged` (what it sees), `pc`/`call` per caller, `wake`/`seen` of a change subscriber, the history `answers`. One action per statement: BEGIN, each `commitPrepared`, COMMIT, `announce`, the two statements of `read`, check and write of `compact`, `reset`, interruption, death of the process |
| `JournalTablesProofs`, `JournalProofs` | what the table operators preserve; theorems about `Journal` | |
| `SharedDocument` | what replication promises: a log, and replicas that have applied a prefix of it | `log`, `view` |
| `SyncSystem` | replicas, tabs, storage, transport and document server over `JournalTables` | `tables` (server), `disk`, `mem`, `current`, `saving`, `sent`, `wake` (clients), `job` (requests the server works on), histories. `Save`/`Install` are the two halves of a save under the lock; `Request`, `Receive`, `AppendNext`, `Respond`, `Deliver` the steps of an exchange |
| `EffectLedger` | `runEffect`, `clearEffect`, `recover`, and their two callers | `row` (table `effects`), `owner` and `exit` (the reservation and its Deferred), `pc`/`call` per fiber, the document's `cursor`, `floor`, `saved` recovery cursor, histories `ran`, `lost`, `cleared` |
| `EffectLedgerProofs` | theorems about `EffectLedger` | |
| `SyncProperties` | what `SyncSystem` has to keep, and the refinement of `SharedDocument` | none of its own |
| `SyncProofs` | theorems about `SyncProperties`: committed state, storage and refinement, log and outbox | |
| `SocketTransport` | `layerSocket` (transport.ts 75-123, 191-336) | numbered frames `queued`, `inFlight`, on the `wire`; the `link` through backoff, ready and gone; `Requeue` at a reconnect, `Interrupt`, `Dispose` |
| `LwwClock` | the clock and merge of lww.ts | `stored` counter as compare-and-swap revision, `clock` and `request` stages; `Allocate`, `Save`, `Stamp` are the awaits of `next`; `Merge` folds delivered registers |
| `SharedMount` | `Sync.mount` | `slice` of the Model, `inbox` of Messages, `stage` of each edit's persist, the replica's `committed`, `outbox` and status; `Update`, `Start`, `Persist`, `TakeStatus`, `Dispose` |
| `Presence` | presence.ts, client and hub | `peers` with the age of what they said, `bus` per connection, the `changes` stream's `reading` and `shown` |
| `SyncAuthoring` | composition of fragments and `derivedReplay` of make.ts | an `update` function of a small family, `fragments`, `defined`, `model` and `replica` |
| `SyncParts` | `LwwClock` (extended), `SocketTransport`, `SharedMount`, `Presence` and `SyncAuthoring` side by side, each with variables of its own; states for each the property that runs and theorems share | |
| `SyncPartsProofs` | theorems about `SyncParts` | |
| `RemoteReads` | the client cache between reads and live facts: planner, observe and live entries, coalescer, entity store; a server that changes | `facts` (the server's history), `store` (values, staleness, tombstones), `obs` (an observe entry: its plan, where its read is, what it was answered), `run`/`inFlight` (the coalescer's batches and who reads what), `sub`, `live`, `cursor`, `gap` (the live stream), the history `known`. Every change of the store replans all shown Surfaces (`Replanned`), which restarts the entries whose plan changed |
| `RemoteReadsProofs` | theorems about `RemoteReads` | |
| `Connections` | segments, boundaries, `merge`, overlays (connection.ts, optimistic.ts) | operators |
| `RemotePages` | one list at rest, paged from both ends, answers in any order | `connection`, `asked`, `sent` |
| `RemoteList` | one list whose pages, mutations, answers and live events overtake one another (`updateRemote`) | the server's `list` and `changes`; `request`, `pages` on their way; `segments`, `overlays`, `pending`, `cursor`, `gap`, `boundary` of the client |
| `RemoteGraph` | a view through relations: planner, the server's level-by-level read with denied fields, the write of its answer, patches, collection | `db`, `store`, `view`, `layer`, `read` in flight, `retained` |
| `KeysetReads` | queries, relations and counts of remote-drizzle over tables edited between two statements | `table`, `reading` (order, direction, cursor, what was seen) |
| `SavedCache` | persistence.ts, `Hydrated` | the text under the key `kv`, `tabs` with scope, build, store and a restore under way |
| `SurfaceTree` | references and projections | the `model`; a step replaces one place or installs one picked projection |
| `SurfaceModule` | `Module`, `MessageSet`, `Surface.contract` | the list of `contracts`; `Add` is every kind of item |
| `ViewParts` | `SavedCache`, `SurfaceModule` and `KeysetReads` side by side, as `SyncParts` | |
| `ViewProofs` | theorems about `ViewParts` | |
| `SlotViews` | the merge of one element's attributes (resolver.ts, mixin.ts); capabilities, slots, styles, behaviors, accessibility patterns | the capability `registry`, what is `attached` to a view |
| `AgentContract` | construction of a contract; what is listed and read of it | `declared` variants, `contract` |
| `AgentDispatch` | dispatch, completion waiter, audit ring | per call `stage`, `delivery`, `host`, `settled`, `woken`, `finished`; `audit` |
| `AgentAnswers` | what each adapter answers to each end of a dispatch | operators over `AgentDispatch` |
| `McpSessions` | http.ts, httpApp.ts, handler.ts | `sessions` with streams, replay buffers, list digests and reads under way; `conns` (a GET from its answer with a backlog, through `Attach`, to displaced, orphan, ended or left), `calls`; `Resume` and `Fail` end a read |
| `A2aTasks` | the bounded task table of handler.ts | `tasks` in insertion order, `running` (the controllers), `signalled`, `sends`, the history `told` |
| `WebMcpRegistration` | register.ts | `controllers`, `browser`, the running `job` and `queued` reconciles (of a Model change, or `Refresh` by a caller); a read may reject, the browser may refuse |
| `AgentParts` | `AgentAnswers` (extended), `AgentContract`, `A2aTasks`, `WebMcpRegistration` and `McpSessions` side by side, as `SyncParts` | |
| `AgentProofs` | theorems about `AgentParts` | |
| `MCJournal`, `MCProgress`, `MCSync`, `MCEffectLedger`, `MCParts`, `MCRemoteReads`, `MCViews`, `MCAgents` | instances for TLC | where one holds several systems, a variable `part` chooses initially which of them runs; the others rest. `MCSync` checks `SyncProperties` on the constants of its `.cfg`, and two more instances of it over variables of their own; `MCParts` extends `SyncParts`, `MCAgents` extends `AgentParts` and `MCViews` extends `ViewParts`, so that the runs check the very definitions the theorems are about |

`Journal` refines nothing and is composed by its *tables*: `SyncSystem` runs a
server's appends to completion, as `examples/sync` does with `Effect.runSync`,
so the operators of `JournalTables` are the atomic steps there and the
statements of `Journal` are the steps where fibers interleave. `SyncSystem`
implements `SharedDocument` with `log <- tables.snapshot` and `view <-` the
committed model on disk.

Abstractions: a payload is a model value and its canonical hash is the payload
itself; the reduction of a document is the sequence of its committed
operations, so a reordered, lost or repeated operation always shows; the
application's `authorize` and `reduce` are the constant operator `Accept`,
which decides `refused`, `invalid` or `reduce` from snapshot, operation and
actor. A revision is replaced by the comparison it is used for (`current`).

Where the code folds over a list, the models that are proved about say what the
fold yields: `Without` keeps the pending operations that are left in their
order, and `Landed` keeps for each field the last result that tells it. (An
induction over the list is out of the prover's reach.)

Definitions commented `Mutant` are wrong on purpose: each is a plausible bug
that a property must notice, and no specification uses one.

## 3. Runs

A property a run lists for a component with many laws is the conjunction of
them (`SlotsAreOwned`, `SessionsDeliver`, ...): the conjuncts are stated, each
with the code it is about, in the module of the component, and the module the
run checks composes them. TLC takes a conjunction of invariants, action
properties and liveness apart and checks each.

| run | instance | what it shows |
|---|---|---|
| `JournalFibers` | 2 callers, 2 identities, 2 payloads, 2 actors, 4 batches; preemption, interruption, crash and reset anywhere | tables stay gap-free, unique and equal to their snapshot; answers stay true; a transaction sees the committed tables plus its own operations; history only grows |
| `Progress` | the same callers run to completion, all batches; beside it 2 replicas, one a reader, without faults; fair | the floor is exact; a read is contiguous; a subscriber behind a queue of one always has a wake-up coming and reaches every commit; every outbox drains |
| `Sync` | 1 replica, 1 tab, 2 server slots, 2 submits, 1 server write, every fault; 2 tabs of one replica with eviction; 2 replicas | committed state is the server's prefix, operations are genuine, applied once, and rejected ones not committed (`CommittedIsTheLog`); nothing is lost and storage can be reopened (`OutboxIsKept`); a save never takes storage back; implements `SharedDocument`. `TabsAndReplicasHold`: the same of two tabs and two replicas as far as it is promised to them, and the compare-and-swap keeps a stale tab from reusing an identity |
| `SyncRebase` (violation) | 1 replica and a server write | after somebody else's commit a pending operation no longer replays, though docs/replication.md:196-197 says the outbox never holds such a Message |
| `LedgerFaults` | 2 fibers, 2 effects, 2 runs each; crash, interruption, failed record, clear, reset, compaction behind the recovery cursor | no joiner is stranded, one success per record, a recorded success is real, recovery and acknowledgement only pass settled effects |
| `Parts` | 3 frames, a queue of 2 and one retry; 2 clocks over one storage and over two, 2 stamps; 2 edits and 1 remote change; 2 peers; every composition of two fragments and every update of a family of 64 | slots of the queue are waiting exchanges, frames go out in call order, every exchange ends; stamps are unique, later than what was observed, and merged in any order to the same register; nothing pending means the committed value is shown, every edit settles, dispose waits; nobody is impersonated, changes are shown, silent peers dropped; a tag has one fragment and a replay loses nothing that update wrote |
| `MountDrift` (violation) | 2 edits | a refresh installs the replica's value under an edit whose persist waits: recorded, and gone from the Model |
| `RemoteReads` | 2 Surfaces (one refreshing), 2 entities, 1 field, 2 batches, a log of 3 facts with deletions; failing reads, breaking streams, route changes | every waiting Surface waits for a batch that reads its requirement; an idle Surface misses nothing; no fact is skipped between two applied ones |
| `RemoteHub` (violation) | 1 Surface, live hub | the hub numbers events from the resumed cursor and the client resubscribes after every event, so what happens in between is skipped without the gap docs/remote.md:170-172 promises |
| `Views` | 4 rows, pages of 1 and 2, four requests; 1 edge, 2 requests, 2 changes, 1 page in three boundary policies; 3 entities with crossing relations in two shapes, 3 views, with and without a denied field; a Model of struct, array, record and Option; 8 contracts, 4 at a time; 2 tabs; 3 mixins at a time; 4 rows with ties, NULLs, two parents, 5 orders of which one lacks a tie-breaker, 2 edits | pages join to the list and say truly where it ends; a client that heard everything shows what the server has, failed requests leave nothing; nothing denied is read, no read is in vain, the view is whole in the end, collection is unseen; a saved cache shows nobody another's data; references and projections keep the get/set laws; findings of a module are order-free; attributes of a slot have one owner; quiet lists are read whole and unmoved rows seen once |
| `RemoteWindows` (violation) | 3 entities, one view | requests for one entity with and without a window are united, and the windowed relation is stored whole |
| `Agents` | 2 dispatches of each kind; all contracts of two variants; 3 tasks in a table of 2; 3 tools; 1 session with 3 connections, 2 sessions with a call | the audit is true and keeps the newest, no completion is missed, nothing is sent after a cancel, every dispatch ends; answers of all adapters agree with the end; names, schemas and completions are what construction promises; a told outcome is final but for one named answer, a task shown as working can be cancelled; tools are registered once, are the Model's at rest and all taken back; an event goes to one stream, in order, and is received or replayed outside one named window; lists are current or announced |

### Bounds and why they are enough

* Two callers in `Journal`: the connection serializes transactions, so what
  can go wrong is one caller between two statements of another. Two identities
  and two payloads give the four relations two appends can have (same or other
  identity, same or other content); the verdict of one payload depends on the
  document, so a batch can fail in the middle.
* `QueueSize = 1` is the smallest sliding queue, the one that drops most.
* `Window = 1` for the window of committed ids (1024 in the code) makes it
  slide at once.
* `MaxLocal`, `MaxServer` bound the operations submitted; `MaxCursor` follows
  from them, and the server submits only below it (identities issued again
  after an eviction could pass it). `Evict` happens once per replica,
  `ClearEffect` once per record and `RunsLeft` bounds the executions of an
  effect by `MaxRuns`. Two submits by one replica
  are needed for a submit during an exchange; two server slots for a repeated
  request that overtakes its first copy.
* In `RemoteReads` a gap needs three facts (a baseline, one applied, one
  ahead); joining needs a second batch while the first is in flight, and a
  shared answer two entities, of which one Surface needs both. A Surface is
  shown once: what a second showing could join, the other Surface can.
* Two requests on one edge is the least that disputes it; a second page of the
  same list adds nothing that `RemotePages` does not have. Relations through
  three entities reach the third level, where the windows of two parents meet.
* Three connections on one stream of one session: the current one, the one it
  displaced, and a resumed one. A table of two tasks under three sends evicts.
* `MaxRetries = 1` reaches both a reconnect and exhaustion.
* The families in `Views` and `Parts` (Models, contracts, mixins, fragments,
  update functions) are chosen so that each decision in the code has a member
  on either side; each property has a mutant that its run notices.
* Callers and runs are symmetric in `LedgerFaults` and `RemoteReads`, which
  check no liveness.

### Fairness

* `Journal.Fairness`: a call that has begun runs on (weak), and a statement
  that waits for the connection gets it (strong): the semaphore of the SQL
  client is a FIFO queue. No fairness on starting a call. Used by `Progress`
  for `CommittedIsSeen`.
* `SyncSystem.Fairness`: an open tab's loop runs, a save completes, the server
  works on what it received; a frame is received if the server has room again
  and again (strong), because `layerSocket` sends an unanswered frame on every
  reconnect; a finished reply is delivered (strong: it needs the lock). Nothing
  makes a tab stay open: `OutboxDrains` allows it to close. It is only claimed
  without faults: the loop does not retry a failed exchange by itself
  (sync.ts:627, documented at 153-154).
* `Parts`: the connection goes on or is given up (`Socket!Progress`), the
  runtime processes its Messages and a persist Command returns
  (`Mount!Progress`), time passes and a peer reads its channel. Nobody is made
  to reconnect, edit or publish.
* `Views`: the runtime re-evaluates dependencies, the server answers a read,
  the answer arrives (weak). Data and view may change as often as the bound
  allows; `ViewIsLoaded` speaks of what holds once they rest.
* `Agents`: a dispatch under way goes on, its deadline passes if nothing else
  ends it (one weak condition per call: each of its stages is left for good), a
  canceled dispatch unwinds, a reconcile that runs goes on, the browser answers
  `registerTool`. The host answers a Message it was handed, by accepting it or by
  raising an error; it is not made to accept it, nor ever to complete it.

### Deadlock

Deadlock checking is on except in `Parts`, `Views` and `Agents` and their
violation runs, whose parts really end: every exchange has ended and the
transport is disposed, every mutation begun is settled, a contract is built.
It is off in `RemoteHub` as well, where nothing fails and a client that is
shown nothing has received all there is. (In `RemoteReads` the bounds on facts
and showings alone would end a behaviour; a live stream that may break and be
reopened keeps it going.)

## 4. Proofs

Every theorem holds for every value of the constants that the named assumption
of its module admits (any callers, replicas, tabs, Surfaces, payloads, bounds);
what a theorem assumes beyond that stands in its statement and below.

### Journal (`JournalTablesProofs`, `JournalProofs`)

| theorem | states |
|---|---|
| `TypeCorrect` | `Spec => []TypeOK` |
| `ConsistentAlways` | `Spec => []Consistent`: gap-free, unique, snapshot equals reduction |
| `AnswersAlwaysHold` | `Spec => []AnswersHold`: what a caller was told stays committed as told |
| `TransactionAlwaysOK` | `Spec => []TransactionOK` |
| `HistoryAlwaysStable` | `Spec => HistoryIsStable`: only `reset` takes anything back |
| `ReadersAlwaysServed` | `~Preemptive`: `Spec => []ReadersAreServed`: pages are contiguous, the floor is exact, a subscriber that sleeps has a wake-up coming |

`IInv == TypeOK /\ Consistent /\ AnswersHold /\ TransactionOK` is inductive.
`Consistent` alone is not: COMMIT makes `staged` the tables, so the staged
tables must be consistent too; and `AnswersHold` needs that each outcome a
transaction has reached names a row in `staged`, and that `staged` extends `db`
(`TransactionOK`), so that earlier answers survive the COMMIT. The table lemmas
(`InsertConsistent`, `CompactedConsistent`, `InsertExtends`, ...) say what the
operators preserve, one lemma per action that it preserves `IInv`.
`ReadersAlwaysServed` adds what a reader knows between its two statements; it
needs them not to be preempted, because the tail of `read` does start late when
a fiber compacts in between (section 5).

### Effect ledger (`EffectLedgerProofs`)

| theorem | states |
|---|---|
| `ReservationsAlwaysHold` | `[]ReservationsHold`: one fiber works on an effect, and who joined it is owed an answer |
| `OneSuccessPerRecordAlways` | `[]OneSuccessPerRecord` |
| `AnswersAlwaysRecorded` | `[]AnswersAreRecorded`: a success that was answered or recorded happened |
| `RecoveredAlwaysSettled` | `[]RecoveredIsSettled`: behind the recovery cursor everything is settled |
| `SettledBeforeEveryAck` | `Compaction # "free"`: `[]SettledBeforeTheAck` |

The invariant adds to the properties what each fiber holds at each of its
points: a fiber past its lookup owns the key, a joiner waits on an owner whose
exit is open, a scan has settled everything between the saved cursor and its
own. `reset` may come at any moment: exchanges and scans under way go on with
what they read, so the saved cursor may then be beyond the new document's; what
lies behind it stays settled, because the effect rows stay. The premise on
compaction is the obligation that packages/durable/README.md:177-179 puts on the
caller (compact only up to what recovery has settled); the example server's
maintenance does not keep it, and without it the acknowledgement hazard of
section 5 is real.

### Replication (`SyncProofs`)

| theorem | premise | states |
|---|---|---|
| `SyncTypeCorrect` | | `[]TypeOK` |
| `CommittedAlwaysServerPrefix` | | what a replica has committed, in memory, in storage or on its way, is the log up to its cursor |
| `StorageNeverGoesBack` | | `StorageOnlyAdvances` (action property) |
| `SystemImplementsDocument` | | `ImplementsDocument`: every step is a step of `SharedDocument` or a stutter |
| `ReplicasNeverDiverge` | | `[]Document!ViewsAgree`, carried over by the refinement |
| `LogAlwaysGenuine` | | the log holds an operation once, and only submitted ones |
| `IdentityAlwaysStable` | | a stored identity is only lost by eviction |
| `OutboxAlwaysKept` (`NothingIsEverLost`, `StoredStateAlwaysReopens`) | | `[]OutboxIsKept` |
| `RejectedNeverCommitted` | `RefusalIsStable` | a reported refusal is final |
| `AppliedOnceAlways` | `OneTabEach` | no operation is shown twice |
| `CommittedAlwaysTheLog` | both | `[]CommittedIsTheLog` |

The argument has four layers.

1. `IInv` (`SyncProofs`): types; who holds a handle's lock and what it saves; a
   handle marked current has the state of its storage; a reply is a
   segment of the log, or its beginning; and every
   committed state (disk, memory, the state being saved) *lags*: it is the log
   up to its cursor, and its window of ids is the end of that prefix. That
   `Adopted` keeps this is the heart (`AdoptedLags`): a response read before
   the replica moved on repeats operations it has, and the overlap is skipped
   by exactly the difference of the cursors. The refinement reads off this:
   a step changes `tables.snapshot` by one operation, or one replica's disk to
   a longer prefix, or neither.
2. `OutboxInv` adds the outbox: a pending operation was submitted by its
   replica, is there once and below `next`, and, while storage is intact, not
   among the ids the replica knows as committed; requests and jobs carry only
   submitted operations; what a job acknowledges is in the log; what left the outbox is in the log, remembered
   as refused, or lost with evicted storage (`NothingLost`).
3. `Rejections`, under `RefusalIsStable`: an operation refused for one document
   is accepted for none (it may be invalid). The premise is needed: a server that
   changes its mind commits what an earlier reply had refused when the frame is
   repeated.
4. `SoleTab`, under `OneTabEach`: one tab, one synchronizing fiber. It says that
   the tab's memory is the latest version, and that everything sent and decided
   is still remembered where it has to be found again. The premise is needed:
   TLC finds two tabs of which one shows an operation of the other twice, when
   an answer to an older request arrives after the other tab's operation was
   committed. Everything else above holds for any number of tabs.

### Remote reads (`RemoteReadsProofs`)

| theorem | states |
|---|---|
| `ReadsAlwaysOwned` | `[]ReadsAreOwned`: a requirement in flight has one reader, a waiting Surface always has one |
| `IdleAlwaysComplete` | `[]IdleIsComplete`: a cache-first Surface at rest misses only what the server does not have |
| `NoLoggedFactSkipped` | `Source = "log"`: `NoFactSkipped` (action property); for a hub it is false, which `RemoteHub` shows |

`IdleIsComplete` is not inductive: that an answer fills the hole depends on what
the run read, long before. The invariant follows the requirement: the run that
has it in flight owns it; an answer of a run covers everything the run owns, or
the entity is deleted, for good; a waiting Surface waits for exactly its plan,
and each wait is a run that owns the requirement or an answer that covers it;
and the plan of every entry is the plan of the current store (`Replanned`), so
that an entry is either restarted or lacks what it lacked. `LandedIsComplete`
closes the circle: a plan that survives the landing of all its answers asks
only for deleted entities. For the stream, `cursor <= known` and, for a log,
`cursor = known`.

### Around the replica (`SyncPartsProofs`)

| theorem | states |
|---|---|
| `StampsAlwaysMerge` | `[]StampsMerge`: stamps are unique, later than what their caller knew, and merged in any order to one register |
| `SocketAlwaysCarries` | `[]SocketCarries`: the exchanges that wait hold the slots, go out in the order of their calls, and none waits for a transport that is gone |
| `MountAlwaysAgrees` | `[]MountAgrees`: with nothing pending the Model shows what was committed; dispose waits for the persists |
| `PresenceAlwaysTrue` | `[]PresenceIsTrue`: nobody speaks for another; changes show what is stored |
| `AuthoringAlwaysSound` | `[]AuthoringIsSound`: a tag has one fragment, a recorded Message loses nothing in its replay |

*Last-writer-wins.* `StampsAlwaysMerge` states `[]StampsMerge` for any number
of clocks open over one storage. The invariant says who holds a clock's lock,
that a call about to save is beyond the revision its clock knows, and that
every saved stamp is not beyond the storage: the compare-and-swap then makes
each saved stamp later than all before it, also after a crash or an
interruption between the save and its answer. `HoldsLast` says of each replica
that it holds the last, by counter and replica, of the writes it merged; since
stamps are unique there is one last write, so the order of merging cannot
matter (`LastIsUnique`). That the merge may never meet two values under one
stamp, for which lww.ts:158-159 throws, is the same fact.

*Socket.* `SocketInv`: one of the two queues is empty at any time (what waits
is `queued` before a connection is ready and `inFlight` after), both are in the
order of the calls, and a frame is in one of them if and only if its exchange
waits. A requeue after a lost connection keeps this because it takes all of
`inFlight` back at once.

*Mount.* `CommittedIsShown` is not inductive: a refresh installs a status that
was read earlier. `MountInv` adds that what was seen is never ahead of the
replica, that without a signal it is the replica's status, and that nothing on
its way can change the Model any more once that status was seen (`Restful`).
That "with nothing pending" cannot be dropped is the run `MountDrift`.

*Presence.* The frames on every bus carry their publisher's name; the `changes`
stream that answered the last signal shows what is stored.

*Authoring.* Until the second durable Message the replica's projection is the
Model's, so over the initial local state a replay computes what the update did
(`ReplayIsUpdate`), for every update function there is.

### Agents (`AgentProofs`)

| theorem | states |
|---|---|
| `DispatchTypeCorrect` | `[]TypeOK` |
| `CancelledNeverSent` | `CancelledIsNotSent` (action property) |
| `DispatchAlwaysAccountable` | `DispatchIsAccountable`: records and the answers of all four adapters are true, the log keeps the newest, no completion is missed, a status answered was reached |
| `ToolsAlwaysCurrent` | `[]ToolsAreCurrent`: WebMCP registers no tool twice, none without a record, and at rest those of the Model, unless refused or not read |
| `TasksAlwaysTrue` | `TasksStayTrue`: the A2A table is bounded; a task shown as working can be cancelled, and what runs without that was pushed out or aborted; an outcome told is final, except for the answer of a send whose cancelled task left the table |
| `ContractAlwaysTrue` | `[]ContractIsTrue`: names, completions, schemas and resources of a contract that was built |
| `SessionsAlwaysDeliver` | `[]SessionsDeliver`: MCP delivers an event once, on its stream and in order; it is received or replayed outside the window, and received by somebody while a transport is attached; termination aborts; lists are current or announced |

*Dispatch.* None of the properties is inductive: a record is written at the end
of a dispatch and speaks of what the host was sent before and may still do
after. `Staged` says what the stage of a dispatch implies for the host, for the
delivery that will be recorded, and for who is subscribed; `Waited`, that
whatever finished has been taken by every live waiter and that whatever a
waiter took or woke up with was reached. A record is true when it is written
(`Accounted`), and stays so because no step takes back what `Steady` lists;
only the operations of calls that have begun count, so that a later call cannot
falsify an earlier record. `NewestKept` is the lemma on sequences: dropping one
entry of a full log when one is added keeps the newest.

*WebMCP.* At rest the browser has the Model's tools, except those it refused;
the set `failed` remembers them, and `unread` that the last read rejected. The
invariant speaks of the time before: `ToolsJob` says where each tool the running
reconcile wants stands (registered, to do, awaited, refused), and that with no
turn queued it wants what the Model has now, so a Model change in the middle
always finds a turn that will look again. `ToolsRest` says what is left when
nothing runs, after `unregister` too.

*A2A.* `TasksInv`: the table holds an id once (`EntryIsState`: what it says of
a task is what its one entry says, whichever order settled it); a terminal state
told of a task in the table is the one the table has; whoever was told one, or is
shown with one, while the send is under way was signalled; and a controller
without an entry was pushed out of a full table (no other step takes an entry
and leaves the controller). The table of `TasksAssumption` holds at least one
task, as `Math.max` in the handler.

*Contract.* Construction reads every declaration once and nothing changes it
afterwards: `ContractInv` carries what was checked (`Checked`) over to what is
listed and read.

*MCP.* The invariant has four parts. `StreamsInv`: stream ids and the events of
their histories never repeat within a session; a stream's subscriber is the
attached transport that says so, and the other way round (so a displaced
transport cannot stay subscribed, and a current one cannot be forgotten); what a
transport got, or is to get, is below the session's next event. `HeardInv`:
delivery. An event of a history is, for each client of the stream, behind its
cursor, in its answer, in its window, or still to be replayed (`Covered`,
`Past`); whoever attached was accompanied since by a transport that received
each event (`Accompanied`), which holds because `emit` prefers a connected
stream, not the newest one: that is the mutant; and a transport that hears
nothing has a successor on its stream, or no stream (`Displaced`). `ReadsInv`:
the last read begun sees the tools of now, without one what was advertised last
is what they are unless a read failed, and a client's list that is not what was
advertised has an announcement behind it (`Noticed`), which by `Accompanied` was
received if anybody was attached. `CallsInv`: what still runs for a terminated
session is aborted.

### Views (`ViewProofs`)

| theorem | states |
|---|---|
| `SavedAlwaysOwn` | `SavedIsOwn`: no tab is shown what was read for another scope; a snapshot takes nothing newer back under `preserve-existing` |
| `ModuleAlwaysOwned` | `[]ModuleIsOwned`: without findings everything has one owner; findings depend on no order, and grow; the manifest is true |
| `ReadsAlwaysTheList` | `[]ReadsAreTheList`: pages of a list nobody writes are the list and its count; a row left alone is seen once, in its place |

*Saved cache.* `SavedInv`: whatever holds entities (a store, what a restore
brought, the text under the key) holds those of one scope, none newer than the
server; a restore checks the text's scope before it brings anything.

*Module.* `validate` compares each contract with the earlier ones only. The
lemmas show that whether a rule is broken depends on the *set* of contracts
(`Foreign`, `Namesakes`, `Contested`, ...), by way of the first of the two in
the list; the laws follow, for lists of any length.

*Keyset reads.* The order of a page is lexicographic over the values of the
order columns (`Less`), strict, and total on present rows because of the
tie-breaker; backward is its converse. A NULL counts as the greatest value in
the `ORDER BY` and in the cursor's comparison alike; hence what a cursor's
values select is exactly what the order puts after them. `KeysetInv` is about
what was read so far, in the direction it is read (`Have`): it is sorted on
rows left alone; what of them it holds is what lies before its last row, or
before the cursor's values; with nobody writing it is a start of the list, and
the whole if no page is to follow. Rows that others move in between may appear
anywhere, which is why the property speaks of the others, and why it stops
where the row of a cursor was touched (`drifted`). `OrderBy` is given by ranks
(how many rows lie before), so that it is a sequence without a recursion.

### Assumptions on the constants

They say what the code's types and checks say, and TLC evaluates each of them.

* `undefined` and the other marks are none of the values they stand beside
  (`NullAssumption`, `NothingAssumption`, `ToolsAssumption`, `SessionsAssumption`,
  `PartsAssumption`, and conjuncts of others).
* Bounds are naturals; queues and tables hold at least one where the code takes
  care of it (`DispatchAssumption`, `TasksAssumption`, `QueueAssumption`,
  `SyncAssumption`). Retention of a replay buffer, the socket's queue and a
  page's size may be 0: window.ts:36 asks for `requested >= 0`.
* A batch is not empty (`BatchAssumption`); a capability that gates or
  correlates is one (`DispatchAssumption`); a Replica is a number, for stamps
  compare them (`ClockAssumption`); an object with the fields of a declaration
  can be sent (`ContractAssumption`); a path is a sequence of names
  (`FeaturesAssumption`); an update maps a Model to a Model and Commands
  (`AuthoringAssumption`).
* `RowsAssumption`: ids and ranks are integers, any finite number of rows, any
  tables, edits and orders over them. That a query's own order has a unique
  column is what remote-drizzle asks of an application (index.ts:509) and no
  code checks; a relation adds the tie-breaker itself (314-322).

### Only model-checked

* Liveness (`CommittedIsSeen`, `OutboxDrains`, `EveryRequestEnds`,
  `EveryoneIsAnswered`, and the convergence of lists and views): the prover has
  no `ENABLED` and no fairness.
* `TreeIsTrue`, `GraphIsTrue` and `SlotsAreOwned`: references, relations and
  styles are trees, and their modules recurse over them.
* `PagesAreTheList` and `ListIsTrue`: the merge of segments in `Connections` is
  a recursion over them.
* That the code's folds over lists yield what `Without` and `Landed` say of them
  (section 2): this is read off the code, neither checked nor proved.

## 5. Findings

Each is a violation run; the quoted line is in `PROJECT.json`.

* `SyncRebase`: the outbox can hold an operation that no longer replays;
  `submit` then throws until it leaves.
* `MountDrift`: a refresh, or a failed persist, reverts another edit whose own
  persist still waits.
* `RemoteHub`: a change between two live subscriptions is silently missed.
* `RemoteWindows`: one window answers for another request of the same entity.

Seen while modelling, stated under `hazards` with the premise that excludes
them from a passing property, and without a run of their own: the tail of
`read` may start late when a fiber compacts between its two statements;
compaction beyond the recovery cursor acknowledges an operation whose effect
never ran (example server, 229-233); a read joined after a live patch writes
its batch's older answer over the newer value (coalesce.ts:74-75, 150-155); an
update that reads local fields replays to another value than the Model's
(make.ts:258); a page read before a live removal and merged after it brings the
edge back; two tabs of one replica synchronize and, until the older answer is
replaced, one shows an operation of the other twice; a cursor whose row was
moved skips or repeats rows that were not. A selected Option field is read from
the Option object (surface index.ts 165-185, 225-237); a page of size 0 claims
both ends of the list; a computed count does not apply the relation's `where`
(remote-drizzle index.ts:471); a contributed child attribute is not checked for
protection (resolver.ts:155-159).

In the agents' adapters, and excepted by name in their properties. An MCP event
emitted after a GET was answered and before its body is subscribed goes to
nobody (http.ts:354-376): it is in the stream's history, so a reconnect replays
it, but not once the client has seen a later event, although
agent-mcp/README.md:101-103 promises that what was missed is replayed
(`InWindow`). An event held for a client that has had no stream yet
(http.ts:243-245) is not replayed to a GET without a Last-Event-ID, which opens
another stream. A transport whose stream another GET took, or whose stream was
forgotten before it was subscribed, is never sent the end that http.ts:33-42
and httpApp.ts:31-33 promise on termination (the states `displaced` and
`orphan`). An A2A task that is pushed out
of the table while it runs can no longer be cancelled (handler.ts:88-91,
246-249); and one that was cancelled and then left the table,
pushed out or cleared by `close`, is settled anew by its own send, which may
answer otherwise than `tasks/cancel` did. These are stated here and not as
violation runs of their own.

`Sync` checks a related case that is no finding: after a storage eviction
local identities are issued again, and neither the log nor any committed state
is corrupted by it.

## 6. Not modelled, and why

* Schema migrations of the tables; SQL, JSON and codec failures other than as
  a failed statement; the schemas of `packages/*` as such (types decide them).
* Replica `status` and the projection cache (a memo of `Optimistic`); frame
  formats; wall-clock delays of retry schedules (only their number counts).
* In `RemoteReads`: the freshness of `staleWhileRevalidate` and the order in
  which a batch answers its requests (every order is allowed). Windows,
  relations, layers and lists are the other modules'; an optimistic layer and
  an overlay of one request are not put together. The merge of several live
  sources into one cursor (remote-server 754) has no specified result to check.
* A socket's `send` that throws inside a flush (transport.ts:276-330); the status
  a `statusChanges` stream may miss before it subscribes (sync.ts:640-643); the
  eviction of settled mutation ids from their window in the remote client; rows
  that were compacted before payloads were hashed (a NULL `payload_hash`,
  journal.ts:460, 635-638): a retry of theirs is compared by its actor alone.
* In the adapters: the debounce of MCP announcements (a change then starts a
  later read) and a WebMCP registration with `followModel: false`, which
  reconciles at `refresh` only.
* The compilation of filters, policies and mutations to SQL: the database's
  semantics decide it. The ordering of NULLs is Postgres's.
* Rendering, CSS text, markup and the ready-made widgets of `mixins-ui`:
  constants without decisions. `mixins-surface` passes one value on.
* The stdio transport of MCP (no sessions), the A2A agent card and the agent's
  generated documentation: pure output.
* Applications under `examples/` other than the sync server.

## 7. Plan

1. *(done)* journal, replication, ledger, remote data, agents, composition.
2. *(done)* proofs of the journal, the ledger, replication and its refinement,
   the remote cache's reads, and of the first-order modules around them: the
   parts of sync, the agent's, and of views.
3. `PagesAreTheList`: `Connections!merge` stated by its result (segments are
   maximal runs of overlapping ones), as `OrderBy` is by ranks, would bring
   `RemotePages` and then `RemoteList` within the prover's reach.
4. Weaker premises for `AppliedOnceAlways`: what two tabs do keep of it.
