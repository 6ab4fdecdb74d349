# OpenSpace in TLA+

Models, model-checking runs and machine-checked proofs for OpenSpace, the Rust workspace in `src/`. The project is
written from the code: every definition that stands for code is tied to its file and lines in `PROJECT.json` ("map").
Paths below are relative to `src/crates/`.

1. [The system](#1-the-system)
2. [What is hard about it](#2-what-is-hard-about-it)
3. [The modules](#3-the-modules)
4. [The runs](#4-the-runs)
5. [The proofs](#5-the-proofs)
6. [Where code and documentation disagree](#6-where-code-and-documentation-disagree)
7. [What is left out](#7-what-is-left-out)
8. [Plan](#8-plan)

To run: `tlc -config X.cfg MCm.tla` for a run of section 4, `tlapm M_proofs.tla` for the proofs of section 5.

## 1. The system

OpenSpace is a desktop assistant: an application shell (`app`, `feature-*`) over a domain crate (`shared`), adapters
for storage (`persistence`), language models (`ai-providers`), themes (`theme`) and logging (`observability`). Several
windows, hence several processes, share one SQLite database, one `settings.toml` and one operating-system keychain.
Inside a process tokio tasks, the blocking pool, one thread per SQLite connection and two watcher threads run
concurrently.

| Component (files) | State | Operations | Correct when | Status |
|---|---|---|---|---|
| Secret store (`shared/src/ai/secret.rs`, `ai-providers/src/in_memory_secret_store.rs`) | map key -> secret behind a mutex | set, get, delete, list_keys | each call is atomic | modelled |
| Keychain store (`keyring_secret_store.rs`, `keyring_backend.rs`) | keychain entries, an index entry among them | the same, as up to three keychain calls | entries stay atomic; index and entries drift only in repairable ways | modelled, proved |
| Settings store (`persistence/src/settings_store.rs`) | file, in-memory snapshot, async write lock, watcher thread, debounce | load, edit, reload, drop | an acknowledged edit stays; snapshot and file agree in the end; a restart finds a whole file | modelled, proved |
| Migration (`persistence/src/migration.rs`, `db.rs`, `bin/migrate.rs`) | `_meta` row, schema, SQLite's write lock | open, status, up, up --dry-run | version tells the schema, whoever races or dies | modelled, proved |
| Repositories (`persistence/src/{workspace,session,chat,turn,attachment,permission,sql}.rs`, `migrations/*.sql`) | eight tables, foreign keys, search index, write lock | fourteen writes, the reads | each write is atomic; references resolve; transcripts only grow | modelled, proved |
| OpenAI-compatible adapter (`openai_compatible/*`) | SSE parser, queue of events, call ids, terminal flags | chat_stream, polled by its consumer; list_models | the request carries the conversation; nothing of the answer is lost or reordered, one terminal item, it ends | modelled |
| Anthropic adapter (`anthropic.rs`) | line parser, index map, generator | the same | the same | modelled |
| Tool-call accumulator (`accumulator.rs`) | buffer, scanner state, scan position | append, is_complete, take_finished | objects come out whole, once and in order, however they are cut | modelled |
| Egress gate and HTTP client (`ai-providers/src/client.rs`) | policy, prompt in flight | a check before each request, with a timeout | no request leaves without leave; a prompt pins nobody | modelled, proved |
| Sandbox policy (`shared/src/sandbox.rs`) | permission table, network patterns | check_network, parse, matches | a pattern lets through what it spells; more trust never asks more | partly, proved (paths and commands are left out) |
| Provider registry (`registry.rs`) | map id -> adapter | register, lookup, remove; notify_change is a stub | a key goes only where its configuration says | modelled, proved |
| Settings domain (`shared/src/settings.rs`) | system appearance, subscribers, resolved theme | poll, subscribe, resolve | the painted theme follows the system | modelled |
| Theme store (`theme/src/lib.rs`, `iced_bridge.rs`, `shared/src/theme`) | custom themes, diagnostics, active theme, watcher thread, drop handle | new, reload, set_active_theme, drop; parsing | subscribers and windows end with what the store has; a choice stays; drop ends | modelled, proved |
| Commands and key bindings (`shared/src/command.rs`, `keybinding.rs`) | registry; pure parsing | register, unregister, lookup; parse, display | the key shown for a command runs it | modelled, proved |
| Agents and tools (`shared/src/agent.rs`, `tool.rs`, `observability/src/retry.rs`) | budget, usage ledger, attempts | add_usage, record_turn, is_exhausted, decide | a spent budget stays spent, retries end | partly, proved (the loop itself does not exist yet) |
| Notifications (`observability/src/lib.rs`, `feature-home`) | bounded log, broadcast, consumer's panel | record, subscribe, sync | nothing falls between log and subscription | modelled, proved |
| Log files and crash dumps (`file_logging.rs`, `crash_dump.rs`) | log directory, ring of recent lines, panic hook | start, log, panic | a dump holds the end; old logs go | modelled, dumps proved |
| Application shell (`app`, `feature-welcome`) | windows | layout | - | start-up only |

How they interact. Every feature reaches storage through the traits of `shared/src/persistence`; the repositories share
one `Database` per process, opened through `MigrationRunner`, and all processes share its file. Provider adapters read
their credential from the `SecretStore` when a call starts, ask the egress gate, then hand a stream of `StreamEvent`s
to their consumer. The theme store and the settings store each run a `notify` watcher with a debounce thread and
publish over a broadcast channel. A window draws from the theme store when it hears of the active theme; the home panel
draws from the log of notifications when it hears of one. Panics are dumped from the ring that logging fills.

## 2. What is hard about it

- *Several processes on one file.* The keychain index is read, changed and written back with no lock; `_meta` is
  counted and seeded in two autocommit statements; the settings file has no cross-process lock at all. Only SQLite's
  write lock serialises anything, and only inside a transaction.
- *A thread beside the lock.* The watcher thread re-reads `settings.toml` and publishes without `write_lock`. An edit
  can finish between its read and its publication.
- *Work that outlives its caller.* A cancelled `edit` drops its lock, but its write on the blocking pool runs on; a
  dropped repository future leaves its closure to commit on the connection's thread.
- *Crash and power loss* between value and index, body and version, temp file, rename and directory sync, statement and
  commit.
- *Arbitrary fragmentation.* Both streams are cut by the transport anywhere (inside a line, between CR and LF, before
  the first byte of an event) and may end or fail there.
- *Checks that another writer can invalidate*: has the workspace sessions, whose turn is this, which sequence is next.
- *State and its announcement under two locks.* Theme store, appearance source and error log change something, let the
  lock go, and then tell their subscribers; the next change, or a new subscriber, comes in between.
- *A user between check and use.* The approval prompt may stay open while providers and keys are edited under it; the
  answer races its timeout and the caller's own patience.
- *Texts at the edge of their grammar*: bytes against characters in colours, one key in two spellings, wild cards, text
  that balances its braces and is no JSON.
- *Counters and rings at their limit*: saturating token counts, 200 recent lines, 32 waiting messages.

`PROJECT.json` lists each hazard at its line, with the properties that cover it.

## 3. The modules

```
SecretStore <-implements- KeyringStore            KeyringStore_proofs
SettingsStore                                     SettingsStore_proofs
Migration                                         Migration_proofs
Tables <-extends- AtomicRepositories <-implements- Repositories
                                                  Repositories_proofs
SseParser, StreamItems <-extends- OpenAiStream    -implements-> ChatStream
           StreamItems <-extends- AnthropicStream -implements-> ChatStream
Sandbox, Requests <-instances- Egress
KeyBindings <-instances- Commands

Providers:   instances Egress, OpenAiStream, AnthropicStream, Accumulator, Requests
  <-extends- MCProviders     (the values for TLC)
  <-extends- Providers_proofs (egress, accumulator, requests) -extends-> Lists_proofs (facts about sequences)
  <-extends- Streams_proofs   (both adapters' streams)        -extends-> Lists_proofs
Desktop:     extends ThemeStore; instances SettingsStore, FileLogging, ActiveTheme,
             Notifications, Commands, Agents, KeyBindings, ThemeFile, Sandbox
  <-extends- MCDesktop       (the values for TLC)
  <-extends- Desktop_proofs   (all of them; instances SettingsStore_proofs)
```

`MC*` modules add what TLC needs (sets of inputs, symmetry). `Providers` and `Desktop` host several components that
share no state: the variable `part` says which one a behaviour explores, and the others stand still. Both have every
input and bound as a constant, so that the proofs are about the very properties the runs `providers` and `desktop` check. That is a sum
of state spaces, not a product; where components do share state (sandbox and requests inside egress, key bindings inside
commands, both adapters' streams under one ChatStream) they are composed by INSTANCE.

An operator named for a slip (`BeginIndexFirst`, `DeleteChatsKeepingIndex`)
and placed before the operator it varies is a mutation: a version of the code with a plausible bug, which the property
listed with it in `PROJECT.json` catches. They are used nowhere else.

Throughout, a guard is the code's condition or early return, and a step is as large as the code lets it be without
another actor being able to see or change anything in between.

**SecretStore** is the trait as the in-memory store realises it: a call is invoked, takes effect at one instant, and
returns. `secrets` is the map, `ops` the calls in flight.

**KeyringStore** follows `set`, `get`, `delete` and `list_keys` keychain call by keychain call: `SetPassword`,
`ReadIndex`, `WriteIndex`, with `Revised` the index the call means to write. An entry is a value, `NoEntry`, a list of
keys or `Corrupt`. The environment makes a keychain call fail, kills a caller, deletes an entry or damages the index.
`accepted`, `alone` and `serial` are history: which keys ever had a value, whether a call has been disturbed, whether
calls ever overlapped.

**SettingsStore** has one variable per thing that can disagree: `file`, `stable` (what a loss of power may leave),
`snapshot`, `holder` of the write lock, the progress of each `edit`, pending `events` and the watcher's `reload`. A
settings value is the set of changes in it, so "the edit is lost" is `e \notin file.settings`. `edit` is five steps
(draft, temp file, rename, directory sync, publish), the reload three (read, compare, publish); load reads the file
before it installs the watcher. The watcher is `Settled` when no event waits and no reload is under way: only then has
`SnapshotFresh` anything to say. `calm`, `raced` and `gap` record which interference has happened.

**Migration** keeps the committed `db`, the states `recent` to which a loss of power may return, the `writer` that holds
SQLite's lock and its `draft`. A run goes through CREATE TABLE, SELECT COUNT, INSERT, SELECT, and then for every pending
migration a body, an UPDATE and a COMMIT. Modes are Database::open, status and up --dry-run (a read-only connection).

**Tables** is the schema: a database is a record of tables (functions from ids to rows or `None`), `Requests` the
writes, `Verdict` what a write is refused for (`ConflictingWrite` for constraints and the repositories' own conflicts,
`NotFound`), `Effect` what it changes, with the cascades, `ON DELETE SET NULL` and the triggers of the search index.
Columns no check or cascade looks at are left out.

**AtomicRepositories** is the promise: a write is applied at one instant of its call or not at all.
**Repositories** is `write_transaction`: BEGIN IMMEDIATE, checks and statements on a private `draft`, COMMIT; the busy
back-off within the retry budget; failure, crash, and an `Outsider` that takes the lock and may never give it back.
`Begin`/`Backoff`/`GiveUp` are the three ways an attempt ends; `Execute` is the whole closure, since nobody can see into
an immediate transaction; `Commit` replies, or finds nobody to reply to.

**ChatStream** is what a consumer may rely on: the items delivered are always a prefix of the events the response stands
for, and end with at most one terminal item. **SseParser** is `SseParser::feed` byte by byte (bytes are pieces of a
payload, CR, LF). **OpenAiStream** is `StreamState::pump`, one action per turn of its loop, with the queue of decoded
events, the map from tool-call index to call id and the two terminal flags. **AnthropicStream** is the generator of
`chat_stream` with `JsonNlParser` and `parse_wire_event`. In both, `expected` is computed from the bytes that have
arrived by a definition that knows nothing of chunks, parsers or queues.

**Requests** holds what happens to a conversation before a request: `CapabilitiesFor`/`ModelCapabilitiesFor` and
`CheckCapabilities`, then `BuildMessages` (one message per turn, one per tool result, the turn's text in front of the
first) and `BuildRequestBody`. A part is a kind and its place, so that a part lost, doubled or moved can be told.

**Sandbox** is a table: `ApprovalFor`, `FromTrustMode`, `CheckNetwork`, and `Parse`/`Matches` of network patterns, which
are sequences of tokens (labels, points, colons, stars).

**Egress** is a call's way out: `ChatStream` or `ListModels` with its refusals, `Open` (the key is read, the URL and, in
one adapter, the headers are checked, the gate decides), the prompt (`Approve`, `Deny`, `ApprovalTimeout`), `Send`, the
server (`Respond`, `Disconnect`, `ReadError`, `ReadModels`), and `Cancel` anywhere. The registry (`Register`,
`RemoveProvider`) and the keys (`StoreKey`) change meanwhile. `paired` remembers which endpoint and key a configuration
ever brought together, `approved` who was approved in time, `stale` that a call runs on an adapter that is no longer the
registered one.

**Accumulator** is the scanner: characters are braces, quotes, backslashes and others; `AppendFragment` feeds any
piece of the script, `TakeFinished` takes the queued object and resumes the scan, or does not when it was malformed.

**ThemeStore** has the directory `dir`, the store (`custom`, `diagnostics`, `active`), the watcher with its pending
`event`, and a reload as the code runs it: file by file, publication of themes, of diagnostics, and then one
announcement after the other, where the look at the active theme, its reset and its message are three steps. A
subscriber's `mirror`, a `window` that redraws in two steps, a user who chooses in two (`SetActive`, `SendActive`) and
`Drop` run beside it. `chosen`, `raced`, `blind`, `gap` are history. **ThemeFile** is `parse_theme` and `parse_color`
with every answer they have, a panic among them. **ActiveTheme** is the appearance source with its poller, subscription
and resolver.

**Notifications** records in two steps (log, then broadcast) and creates the consumer in two (subscribe, then copy).
**FileLogging** is a start (prune, appender, hook), an event's way into the ring and then into a file, and a panic's
dump. **Commands** is the registry, with **KeyBindings** for the keys. **Agents** is the usage ledger with saturating
counters, the budget's `Exhausted` axes, and the retries of a tool call.

## 4. The runs

| Run | States | What it asks |
|---|---|---|
| `keyring_shared` | 62 k | two callers, two keys, every fault: the index only names accepted keys, drift is repaired, serial parity, set/get/delete refine SecretStore |
| `keyring_lost_key` | violation | two concurrent sets, no fault: does `list_keys` list every stored key? |
| `settings_lost_edit` | violation | three edits, no disturbance: does each acknowledged edit survive? |
| `migration` | 526 k | two processes of two releases, every fault: version tells the schema, open is complete, one row if serial, never backwards, runs end |
| `migration_two_rows` | violation | two windows, fresh database, no fault: has `_meta` one row? |
| `openai_after_error` | violation | text and a malformed payload in one chunk: is the error the last item? |
| `repository_tables` | 1.2 M | every sequence of writes by one caller: references, heads, index, transcripts |
| `repository_writes` | 174 k | two callers, an outsider, failures, crashes: writes are atomic, sessions outlive, calls return |
| `grant_denied` | violation | one denial: does it read back as one? |
| `providers` | 258 k | by part. Egress: one caller, two edits of providers, two keys stored, every prompt, status and fault: leave before send, keys stay home, prompts end. Streams: every response of two frames (three line ends) or three lines (two), cut and ended anywhere: everything surfaces, ChatStream is implemented, they end. Accumulator: three texts cut anywhere: every call once. Requests: every conversation of two turns of two parts: nothing is lost |
| `desktop` | 769 k | by part. Settings: two edits, an external write, cancellation, failure, kill, power loss: a restart finds a whole file, only what was on disk is published, calm edits survive, the snapshot is fresh when settled and converges. Themes: two files saved twice, two choices, drop: mirror, choice, window, catching up, drop returns. Appearance, notifications, log files and dumps, commands, the ledger, and texts: one property each |
| `old_logs` | violation | two starts further apart than logs are kept: does the file of the first go? |

**Bounds.** Every protocol here goes wrong, if at all, between two actors on one object, and a third object tells
whether it was touched by mistake; so each run has two of the actor that matters. `keyring_shared` needs two keys (the
index loses one by way of the other) and two values (a get must tell old from new). Two edits, a reload and one external
write give every overlap of draft, write and publication; the lost edit takes three edits and its own run. Two releases
and two migrations give an old binary on a new schema and a stale list of pending migrations; `MaxStarts = 2` lets a
process come back after a crash. Two frames of up to two fragments each give two calls under one index, a late id, a
fragment after `[DONE]`, and an error before or after good events of its chunk; three lines give start, argument and
stop of one block. Two chats and two turns give a parent in another chat, a head that would belong to another chat, and
a cascade that must spare the other chat. `MaxRetries = 1` gives every outcome of the retry loop; the number of retries
matters to nothing else. One caller is enough for egress, because calls share only registry, keys and policy, which the
user changes under it; two edits and two keys give a successor under the same identifier and a key rotated while a
prompt is open. Two theme files give two files of one identifier, an override that comes and goes and a theme that
moves; two saves let one fall into the reload of the other, two choices let one race it. Three changes of appearance let
one fall on either side of a poll. Three notifications in a log and a channel of two overflow both. Three events in a
ring of two push one out, and two panics may meet in one millisecond. The ledger's counters end at 3 instead of 2^32 -
1, so that saturation happens. Texts have up to three segments (keys), eight bytes (colours), five tokens (patterns).
The proofs of section 5 need none of these bounds.

Grants are in `repository_tables`, sessions in `repository_writes`, to keep each small; the tables interact only through
the workspace they belong to, and the proofs have them all.

**Symmetry** is used only for invariants, action properties and a refinement without fairness, and never together with
a liveness property.

**Deadlock** is checked in the storage runs. Elsewhere the system may really stop: a closed stream, a dropped store, a
text read, a bound on saves and events reached.

**Fairness**, and why the code justifies it:
- settings (in `desktop`): the watcher thread loops on its channel, and a write once handed to the blocking pool runs
  to its end; a
  task that awaits `edit` is polled. Nobody is obliged to start anything or to write the file.
- migration: a run is one closure on the connection's thread. No fairness for `StatementFails`, `Exit` or `Checkpoint`.
- streams: the consumer polls (`Pump`, one class of steps for the adapter). None for the server or the transport: the
  client sets no read timeout, so `Ends` starts from the end of the response and not from the request.
- egress: the runtime's timer fires and a polled call moves on (`Advance`); none for user, server and answers, so
  `PromptsEnd` ends at the server's door.
- themes: the watcher's thread, a setter between its two statements, a window with a message. None for saves, choices
  and the drop.
- appearance: the poller wakes again and again, and the resolver reads its mail.
- repositories: the connection's thread and the timer of the back-off. None for the outsider; `CallsReturn` must hold
  while it keeps the lock for ever.

## 5. The proofs

All proofs are for any sets of callers, keys, rows, versions, texts and faults. The assumptions are the named ASSUMEs of
the modules: markers such as `None` or `NoOne` are not ordinary values, `INDEX_KEY` is no provider key, versions are
positive numbers, bounds are natural numbers, the ring of recent lines holds at least one (200 in the code).
`TextAssumption` says what texts are made of: sequences of tokens, where characters, modifier names, key names and
function keys are told apart by their spelling, a function key can be written without zeros in front, hosts are not
empty and have no colon or star, and a command's default binding is a text that parses (`Command` holds a `KeyBinding`,
not a text). `TextsAssumption` says that a text of the accumulator's script is an object by JSON's rules for braces and quotes
(`IsObject`, which knows nothing of the scanner) or prose without a brace, `DialoguesAssumption` that conversations
are what the types of the source allow (`IsConversation`). TLC evaluates them all in the runs above.

| Module | Theorem | Says |
|---|---|---|
| `KeyringStore_proofs` | `TypeCorrect` | type invariant; the index entry never holds a secret |
| | `IndexSafe` | the index names accepted keys only |
| | `DriftRecoverable` | an undisturbed set or delete leaves its key listed exactly when stored |
| | `SerialUseIsExact` | one call at a time, list_keys is exact |
| | `Linearizable` | set, get and delete implement SecretStore |
| `Migration_proofs` | `TypeCorrect` | type invariant; one open transaction at most |
| | `VersionIsExact` | the schema holds exactly the migrations up to `schema_version`, after a loss of power too |
| | `OpenIsComplete` | an open that returned left nothing pending |
| | `SchemaNeverRegresses` | no step goes backwards, loss of power apart |
| | `OneRowWhenSerial` | `_meta` has one row unless two runners prepared it at once |
| `Repositories_proofs` | `TypeCorrect` | type invariant; the write lock is held exactly while a transaction is open |
| | `ReferencesHold` | no row refers to one that is gone |
| | `HeadsAreOwn` | a chat's head is a turn of the chat |
| | `IndexIsExact` | the search index holds exactly the turns |
| | `WritesAreAtomic` | `write_transaction` implements AtomicRepositories |
| | `PlacesDiffer` | the turns of a chat have different places |
| | `TranscriptsGrow` | no step changes, moves or removes a turn of a chat that stays |
| | `SessionsStay` | a session goes by its own delete only |
| `Desktop_proofs` | `TypeCorrect` | type invariant of the theme store |
| | `MirrorCorrect` | between reloads a subscriber that follows the announcements has the store's themes |
| | `ChoiceCorrect` | a choice stays active and announced unless it raced a reload's reset |
| | `WindowCorrect` | a window with no message waiting shows the active theme |
| `Providers_proofs` | `EgressTypeCorrect` | type invariant of a call's way out |
| | `LeaveCorrect` | no request without the policy's or the user's leave |
| | `KeysCorrect` | a key goes only to endpoints it was configured for |
| | `EveryCallOnceCorrect` | the tool calls handed out are the objects of the stream that are in, each once, whole and in order, however the stream is cut |
| | `AccumulatorTypeCorrect` | type invariant; the scanner is inside an object exactly while one is open |
| | `CarriesCorrect` | the body of a request holds every part of the conversation once, in order, with its turn's role, or the request is refused |
| `Streams_proofs` | `EverythingSurfacesCorrect` | a stream that has closed has yielded every event of what had arrived, in order and under the right tool call, and then one terminal item, however the bytes are cut and wherever they end |
| | `ChatStreamImplemented` | either adapter implements ChatStream, step by step |
| | `StreamTypesCorrect` | type invariants of both streams |
| `SettingsStore_proofs` | `TypeCorrect` | type invariant; a running edit that was not cancelled holds the lock |
| | `StoreInvariant` | the inductive invariant, of which the theorems `RestartCorrect`, `PublishedCorrect`, `CalmCorrect` and `SnapshotCorrect` of `Desktop_proofs` are consequences |
| `Desktop_proofs` | `RestartCorrect` | a restart finds a whole file, whatever was killed or lost |
| | `PublishedCorrect` | what the settings store publishes was in the file |
| | `CalmCorrect` | undisturbed, an acknowledged edit stays in file and snapshot |
| | `SnapshotCorrect` | the snapshot of a settled watcher is the file's content |
| | `DumpCorrect` | a crash dump holds the last event of the thread that panicked |
| | `PanelCorrect` | a consumer that has caught up lists what the log holds, each recorder in its order |
| | `ExhaustionCorrect` | out of turns, tokens or tool calls is for good, at any width |
| | `LedgerTypeCorrect` | counters stay within their width |
| | `RetriesCorrect` | attempts and waits stay within the policy |
| | `HintsCorrect` | the key a command's row shows runs it, or one with the same key in the same scope |
| | `TextsCorrect` | what users write means what it says, by the next four |
| | `BindingsReadBack` | a text is a binding exactly if it is modifiers and then a key; the canonical form reads back |
| | `ColorsReadBack` | what is read as a colour is stored as a text that reads back as it |
| | `FaultsAreNamed` | a theme file is refused exactly for a fault, and the token named has it |
| | `PatternsMeanWhatTheySay` | a network pattern lets through exactly what it spells |

*Keychain.* The type invariant carries the shape of a call (`WellFormed`) and is inductive by itself. `AcceptedInv` adds
that a set at the index has had its value accepted and that a copy of the index holds accepted keys only; without the
copy the write of a stale index could not be bounded. `ReconcilesInv` says what an undisturbed call knows at each
stage, `SerialInv` that at most one caller is inside and that its copy of the index is what is stored. The refinement
maps a call's stages to pending, executed and failed.

*Migration.* `IInv` adds to the type invariant and `VersionTellsSchema` what each runner knows (`RunOK`): the version it
read is not above the committed one, and its draft is one migration ahead of the database. The second part is what makes
a commit preserve the exactness; it is preserved because only the writer changes the database. A stale list of pending
migrations fails in the body, because the body's CREATEs are unconditional.

*Repositories.* `IInv` has three parts. `Good(db)` is everything claimed of a database, plus a bound on the sequences so
that a next one exists; it is preserved by every write, one lemma per kind of write (`AppendGood`, `DeleteChatsGood`,
...) under `EffectGood`. The heads need `HeadsOwned` and `Resolved` together: a turn goes only with its chat, so a head
never dangles. `DraftsCurrent` says that a draft is the effect of its write on the database *as it still is*: it is
inductive only because an open transaction holds the lock, which is the last part of `TypeOK`. The same fact lets the
commit refine the abstract `Apply`, and gives the action properties: a step that changes the database is the commit of
one write on the database as it is (`OnlyCommits`), so `TranscriptOnlyGrows` and `SessionsOutlive` are facts about
`Effect` (`EffectExtends`, `EffectKeepsSessions`). A transcript as a function of places needs the places to differ,
which is the part `Numbered` of `Good`; an append keeps it because it takes the place after the last under the lock.

*Settings store.* `IInv` has four parts. `TypeInv` is the types and the lock. `DiskInv`: the temp file is synced before
it is renamed, so all that `file` and `stable` may hold has been in the file, and so have the snapshot and what a reload
has read. `CalmInv`: while nothing interferes every draft holds the acknowledged edits, because a draft is taken from
the snapshot under the lock and the snapshot holds them; that no edit is an orphan while `calm` is what keeps the
renamed file the one of the edit that holds the lock. `FreshInv`: a snapshot that differs from the file has an event
waiting or a reload under way, and a reload that has read an older text has an event behind it; `raced` and `gap` are
the two ways in which the code breaks this, and the invariant excuses nothing else.

*Log files.* `RingInv` says that the ring is the last events, numbered without a gap. `PanicInv` says that a thread that
is writing a dump has logged nothing since it panicked. A dump that is cut (`Cut`) is cut behind a snippet only.
`DumpInv` is then the property, for every dump that one thread alone has written.

*Notifications.* `NumberInv` and `ToldInv` say that the log is in order, and the channel in order for each recorder,
though not for all of them. `PanelInv` is what makes the property inductive: each event of the log is listed, or in the
channel ahead of the consumer, or logged and not yet told; and what is listed has behind it all the log holds of its
recorder from before. The panel keeps the first of two equal events, which needs a least index. A proof attempt exposed
that the model's `Logged` had two overlapping cases at a log of no capacity; it now has the code's early return.

*Themes.* `MirrorIsExact` needs to know, in the middle of a reload, for which identifiers the mirror is still old: those
in `left`, the rest being new already (`Mirrored`). `ChoiceSurvives` (`Agreed`) follows the driver through look, reset
and message, each stage saying what is known of `active`, `chosen` and the last message as long as nobody raced.
`WindowFollows` (`Alive`, `Shows`) says that a window that is out of date has a message waiting or an identifier still
to be announced.

*Egress.* `IInv` adds two facts to the two properties: every pair that registry and keys make now is in `paired`, and a
call past its first poll that is not stale holds a key paired with its endpoint (`InHand`), and past the gate has leave.
The first is what the second needs when a call opens; both are kept by edits because `paired` only grows.

*Accumulator.* `ToolsHold` says that the buffer is a window of the script's characters and that scanner and takings fit
the texts before it: each object that is wholly behind the scanner has been handed out or waits, and where the scanner
stands in a text its state is the one `Reached` there, quotes and depth, by the tables that say what an object is
(`Quoted`, `Nesting`). An object that is malformed JSON is balanced like any other, which is why it cannot pull the
scanner out of step.

*Requests.* What is sent is a list of lists run together (`Collected`): the parts of a message, the messages of a turn,
the turns of a conversation. `CollectedFlatten` runs together in either order, and what a turn's messages collect to is
the turn's parts (one lemma per role), so the theorem follows for any number of turns.

*Streams.* Of Anthropic's (`AnthropicHolds`): the first d lines are dealt with, what is fed and not decoded are the
lines after them, what was yielded is `Yielded` of the first d, and the map from block index to call is the one these
lines establish. Of the other adapter's (`OpenAiHolds`): `Where` says where among the frames the parser is and what its
two buffers hold, `Heard` that the payloads of the complete frames are those dealt with and those still in the queue, and
what was yielded, followed by what waits in `pending`, is `Told` of those dealt with. After an error the order is lost
(`openai_after_error`) and what is known is that the items are around the error. Both meanings are defined on the bytes
as a whole, so the lemmas that carry the proof say what one byte, one line or one payload adds to them. The refinement of
ChatStream needs in addition that what arrives only adds to the meaning (`MeaningGrows`, `BeforeGrows`, `ToldGrows`): a
line or payload behind the first that ends the stream adds nothing, one before it adds at the end. `AnthropicMeans` ties
`expected` to the lines; what follows an error in the other adapter is invisible to the mapping (`Lingers`).

*Agents.* Saturating addition grows and is monotone in both arguments (`PlusGrows`, `PlusMonotone`); tokens therefore
only grow, an exhausted axis stays so (`StaysExhausted`), and the first axis reported never moves back. The clock is
apart: it may go back (see section 6), and the property leaves that axis out.

*Key bindings and commands.* `WellFormed` describes the texts that parse by the segments and the one key at the end.
`WellFormedParses` and `ParsedIsWellFormed` are the two directions; the canonical form of a binding is well formed
(`DisplayIsWellFormed`), and reads back flag by flag. The count of flags is a cardinality (`FlagsAreCounted`): as many
flags as segments means that none is set twice. `HintsCorrect` needs of the registry only that each entry's key was read
from a text (`EntryInv`); what it shows then reads back as the key (`BoundReadsBack`), so that what a key press finds is
what shows the key (`ShownIsFound`).

*Colours, themes, patterns.* The stored form of a colour is eight digits, each of which is read back as itself
(`DigitRead`); the bytes of a text without two-byte characters are its characters (`BytesOfNarrow`). For patterns,
`Lets` is the meaning of a parsed host; parsing splits at the last colon (`SplitAtLast`), and a host's spellings have no
colon, so a text is one of the spellings exactly if its two halves are.

*The composition.* A step of `Desktop` is a step of the part's `Next` or leaves its variables alone (`FilesStep`,
`AgentsStep`, `LogsStep`, `NoticesStep`, `CommandsStep`); initially each part is in an initial state, explored or idle.
An inductive invariant of a part is therefore one of `Desktop`.

*Without induction.* The provers cannot instantiate an induction theorem, so where a least element or a prefix is
needed, `LeastNumber` gets it from the well-founded order of the finite sets (a first-order fact of the library), and a
concatenation is determined by its prefixes (`Flattened`) because a least place where two functions differ cannot exist.
`Climb` and the lemmas on recursive functions in `Lists_proofs` do the same for what a step carries along a sequence, and
for a function on `Nat` given by its first value and its step.

The type invariants are proved and not in a run; those of the streams and of `Accumulator` follow from the invariants
above. Those of `Commands` and of `Notifications` only document the shape of the state.

*Model-checked only*: all liveness (`Converges`, `RunsEnd`, `Ends`, `CallsReturn`, `PromptsEnd`, `CatchesUp`,
`DropReturns`, `Follows`), which is beyond the prover. Every other property that a passing run checks has its theorem.

## 6. Where code and documentation disagree

Each is a run of its own; `PROJECT.json` "findings" quotes the line.

- `list_keys` is documented to return every key in the store; two concurrent sets lose one index entry
  (`keyring_lost_key`).
- A reload may publish what it read before an edit was acknowledged; the next edit then writes that edit away
  (`settings_lost_edit`).
- Two processes opening a fresh database both seed `_meta`, and every later open refuses it as corrupt
  (`migration_two_rows`).
- After a malformed payload the events decoded before it in the same chunk follow the error item (`openai_after_error`).
- A denied grant reads back as an allowed one: the table has no column for the decision (`grant_denied`).
- Log files are to be kept for fourteen days; the names the appender gives them have no `.log`, which the pruning looks
  for, so none that the process wrote is ever removed (`old_logs`).

Noticed on the way and not given a run: `delete` of workspaces and sessions reports NotFound where the traits call it
idempotent; an attachment without a turn is allowed by the type and refused by the schema; the id of a grant is stored
in `network_pattern`, so the primary key does not make "the same triple" unique; `busy_timeout` equals the retry budget,
so the retry loop rarely retries; `up --dry-run` fails on a database without `_meta`; a failed write leaves its temp
file behind for good. Further:

- *Themes.* `set_active_theme` between a reload's look and its reset loses the choice (`raced`). A file saved in two
  writes may be read half, which deletes its theme and resets the active one. A custom theme that appears under the
  active identifier is announced as Created only, and windows keep the old look (`blind`). Deleting an override resets
  the active theme although the bundled one is there. A subscriber more than 32 messages behind loses some. `parse_hex`
  slices bytes: a `#` text of six or eight bytes with a longer character panics, which ends the watcher's thread, where
  `docs/theme-authoring.md` speaks of typed errors; the required tokens listed there lack seven. `+f` is taken for a byte.
- *Egress.* The alternative adapter registered under another identifier refuses every model; its table of statuses says
  ModelNotFound for 404 and the code ProviderError; the two adapters class 5xx, malformed URLs and bad headers
  differently, one of them after the prompt; the model filter is compiled after the response. A removed adapter reads
  its successor's key (`stale`). Bodies of errors are read without limit.
- *Accumulator.* After a malformed object, text already buffered behind it is not scanned until the next append
  (`stalled`); at the end of a stream a whole call is lost.
- *Commands.* `lookup_by_keybinding` is documented to return None when several match and returns one of them.
  `f05` parses as F5.
- *Appearance.* A change between resolve and subscribe is missed (`missed`). Two concurrent polls may tell in the wrong
  order (the code has one poller). A failed detection reads as dark.
- *Notifications.* Two recorders may log in one order and tell in the other; an event may be shown twice; what the log
  held before raises no surface; a later modal replaces one still open; the panel has no bound.
- *Agents.* A clock that goes back un-exhausts the time budget; cached tokens count twice.
- *Log files.* One old log that cannot be removed turns all logging off, and `main` discards the error. Two panics of
  one millisecond share a file. A long text after `file_content=` cuts off the rest of a line with its line feed, and in
  a dump everything after it. Crash dumps are never pruned.

## 7. What is left out

- *Power loss in Repositories.* With `synchronous=NORMAL` the newest acknowledged commits may be undone. Migration models
  it (`recent`), Repositories does not: the claim of `ImplementsAtomic` is about crashes of processes.
- *Column contents, times and orderings by time*, search ranking, the number of rows a read returns.
- *The rows of the model catalogues and the JSON of bodies.* Families stand for rows; parts for contents.
- *The agent loop, tools and their approval channel* have no implementation in the source; `effect.rs`, identifiers and
  workspace types are data without behaviour. `notify_change` is a stub.
- *Path and command checks of the sandbox*: the same table as for the network, over globs that a library matches.
- *The library's side*: redirects, TLS, the rolling of log files, the broadcast channel beyond its capacity, cancel
  tokens.
- *A lagging subscriber* of the settings store: nothing in the repository subscribes outside tests.
- *Formatting, span helpers (`tracing_support.rs`), redaction patterns, the flame layer, highlight names, window layout.*

## 8. Plan

Done: the shared storage (keychain, settings, migration, repositories), the provider layer from the conversation to the
last stream item, and the parts behind the shell; the proofs of every safety and refinement property that a run checks.
Left: **the agent loop**, once the source has one: egress, stream, accumulator, ledger and retries in one composition,
over the theorems of the parts.
