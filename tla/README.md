# A formal model of sofarpc-cli

sofarpc-cli is an MCP server (and a small CLI) with which an agent inspects
Java facades, plans SOFARPC calls and runs them over the BOLT protocol.  This
directory holds TLA+ models of the parts of it whose correctness depends on
order: what several tool calls do to shared state at the same time, what a
failing or dying process leaves behind, and what must eventually happen; and of
the two parts that carry the values of a call, the planner that makes Java
arguments of JSON and the codec that writes and reads them.

Each component has a module that states its variables, its actions and its
properties; an `MC*` module and `.cfg` files give the constants small values
for TLC; a `*_proofs` module proves theorems for all values with TLAPS.
`PROJECT.json` maps every definition to the source lines it translates.

## Inventory

| component | state it keeps | operations | what is hard | what makes it correct | model |
|---|---|---|---|---|---|
| Invoke limiter (`mcp/invoke_limiter.go`) | `globalInUse`, `perTarget`, `notify` under one mutex | Acquire, release function | callers wait on a channel read under the lock and closed at any release; queue timeout and cancellation race with a release | exact counters, limits kept, no lost wake-up, a queued call settles | `InvokeLimiter`, `Bulkhead` |
| Session registry (`mcp/session.go`) | `sessions` under one mutex | Create, Get, CapturePlan, PlanByID | sessions expire and are evicted between the look-up and the capture of one tool call; the wall clock may step back | bounded, LRU, no revival, history = recent captures | `SessionStore` |
| Source contract store (`sourcecontract/store.go`) | index (fixed), parse cache, in-flight parses, failure counts under an RW mutex | Class (lazy parse), Diagnostics | single flight per file, re-check after the lock upgrade, waiters, files edited meanwhile, parser panics | one parse per file, nobody misses a stored class, every look-up answers | `SourceStore` |
| Contract holder (`mcp/contract_holder.go`) | per-project entries with a `sync.Once` each, recency list | Default, ForProject | the load runs outside the lock while the cache evicts and re-creates entries; loader panics | coherent LRU cache, a call gets its own project's store | `ContractHolder` |
| Project config files (`core/projectconfig`, `core/projectbootstrap`) | `.sofarpc/config.json`, `config.local.json`, `.gitignore` | Run, WriteProfile, UseProfile | check, read, rename without locks, from tool calls and CLI processes; failures and kills in between | whole files, no lost fields, no overwrite without force, local file ignored | `ConfigFiles` |
| Target resolution (`core/target/target.go`) | none; config is read per call | Resolve, ProjectSources, ServiceAllowlistForSources | precedence of seven layers, default and selected profile | one winning endpoint, local allowlist wins | `TargetResolution` |
| Execution policy (`core/invoke/policy.go`) | environment, per call | Validate | compares the plan's target with an ambient one resolved separately; checked before the queue wait | no real call outside the allowlist, the target and the hosts | `ExecutionPolicy` |
| Tool call pipeline (`mcp/invoke.go`, `replay.go`, `scope.go`, `open.go`) | none of its own | open, invoke, replay | several steps over the registry, the holder, the policy and the limiter, each with its own lock | a replay runs the plan its handle names, a session brings its own project and profile | `ToolCalls` |
| BOLT transport (`boltclient/client.go`, `core/invoke/direct.go`) | request id counter; a connection per call | Invoke | deadlines, cancellation, wrong or truncated answers, field widths | ids never zero, an answer belongs to its request, an exchange ends in time, an error of a request that was sent says what happened | `BoltClient` |
| Invocation planning (`core/invoke/plan.go`, `core/contract`, `javatype`) | per request: the resolver's memo and budget | BuildPlan, ResolveMethod, NormalizeArgs, BuildSkeleton, RewriteWireTypeNames, WireParamTypes | overloads inherited through generic interfaces, several spellings of a nested class, `@type` against declared types, a budget shared by all names, objects visited in map order | one method, its parameters bound; classes go out by binary name; a class stands only where it may; a skeleton comes back | `JavaTypes`, `MethodResolution`, `Planning` |
| Hessian codec (`sofarpcwire`) | per message: references, class definitions, types, limits; the writer's definitions | BuildGenericRequest, BuildSuccessResponse, DecodeResponse, FormatValueSafe | three tables that two sides number alike, input that ends anywhere, cyclic answers, keys and properties, limits, widths of integers and chunks | decoding inverts encoding, limits hold, decoding ends (it does not for cyclic keys), an answer can be printed | `HessianWriter`, `HessianDecoder`, `HessianWire`, `HessianInts`, `HessianStrings` |
| Setup of clients (`cmd/sofarpc-mcp/setup.go`) | `~/.claude.json`, `~/.codex/config.toml`, two skills | `setup` at user scope | four files one after the other, read and replaced while the clients save them; TOML edited line by line | only the server's own entry changes, guardrails kept, success means registered | `UserSetup` |
| Java source parsing (`sourcecontract/parse.go` ...) | none | parse one file | text processing | - | not modelled |
| Doctor, resources, describe, target tools | none | read-only views | doctor runs seven checks concurrently, each in a slot of its own | - | not modelled |
| Invocation properties (`core/invocationprops`) | none | Merge, Resolve | masks and references to the environment | the first declaration of a key decides | `MergeProps` in `TargetResolution` |
| Workspace discovery, other CLI commands, JDK symbol table | none | pure or read-only | - | - | not modelled |

How they interact: a tool call runs in a goroutine of its own.  `sofarpc_open`
creates a session.  `sofarpc_invoke` looks the session up, asks the contract
holder for the project's store, resolves classes through that store, builds a
plan, captures it into the session, validates the policy against the config
files and enters the limiter before the transport.  `sofarpc_replay` takes the
plan from the session or the payload and joins at the policy.
`sofarpc_init_project` and the CLI write the config files; `setup` at user scope
writes those of the clients.  The plan's arguments are what the codec writes, and
what it reads of an answer is what the tool call reports.  A panic in any of
these ends in the tool's panic guard (`mcp/panic_guard.go`): deferred calls run,
anything else the handler left half done stays as it is.

## Modules

### InvokeLimiter, Bulkhead

`InvokeLimiter` has one action per critical section of `l.mu` and per branch of
the `select` in `Acquire`.  `l.notify` is replaced and the old channel closed at
each release, so a waiter's channel is either the current one (`parked`) or
closed (`woken`).  The environment variables are an input of `Init`, so one run
covers limits that are on, off and negative.  `Release` may run twice, as
`sync.Once` allows.  `Bulkhead` is the abstract specification: callers outside,
asking or inside, admitted while there is room.  `InvokeLimiter` implements it
under the refinement mapping of `Abstraction`.

### SessionStore

Every method holds `s.mu` throughout and is one action.  A call that was
planning while its session was evicted is a `CapturePlan` on an id that is no
longer there, which has no effect.  `log` records what was attempted on each id
and is compared with what the session remembers: as many of the captures within the
byte limit as fit, newest first (`Remembers`).  The clock is free to advance,
stand still or step back by one, because `s.clock().UTC()` drops the monotonic
reading.  `Kept` and `Lru` are the two loops of `enforceCapLocked`, the scan for the
smallest `lastUsed` and the delete while the registry is full; every scan visits the map
in an order of its own (`Scans`).  `EvictsLeastRecentlyUsed` says what the loops must
achieve whatever the orders and ties are.

### SourceStore

`Class` is split where the code gives the lock away: the read-locked look-up,
the write-locked second look, the parse, the write-locked store, the waiter's
re-read and its failure record.  A parse takes what the file declares at that
moment; `Edit` changes a file.  `ended` is a history variable: what the parses found
that ended while a look-up was in progress.  `MissesAreReal` says that a look-up of an
indexed file answers "no such class" only with such a parse to show for it, and that it
never parses again what one of them has found; both can be broken by steps of others
between its own.  `ParsePanics` leaves the in-flight entry behind,
as the code does; `EveryLookupAnswers` therefore promises an answer only to
look-ups of files whose parse has not panicked, and shows that the others are
not affected.

### ContractHolder

`Request` is `ForProject` up to the unlock, with touch, insert and eviction;
`StartLoad` ... `Snapshot` are `once.Do` and the reads after it.  A call keeps
the entry it bound, cached or not.  The recency list moves a root to its end
(`MoveToEnd`), and `requested` does the same without a bound.  `requested`, `loads` and `drops` are history
variables that say what the cache should contain and when a load is justified.

### ConfigFiles

The three writers of `projectbootstrap`, one action per file system call, with
the files as the only shared state.  A configuration keeps the base settings and
each profile as "who wrote it", the allowlist as unset, empty or listed, and the
default profile.  `Fails` is an error of any file system call, `Dies` the end of
the process; `version` and `seen` record whether a file was replaced since a
writer looked at it, `found` in which versions of which files a selection saw its
profile.  The three reads of a selection are three steps: `SelectsADefinedProfile`
says for every interleaving what they are worth, namely that the default which is
written is defined unless every file in which it was found was replaced in its window.

### TargetResolution, ExecutionPolicy, ToolCalls

`TargetResolution` gives the precedence of caller, profiles, base settings and
defaults as operators over two config files, `ExecutionPolicy` the guard of real
calls as a function of the environment, those files and the plan.  A `directUrl`
and the address it means are kept apart (`Dial`), since the policy compares
addresses and the plan keeps spellings.

`ToolCalls` is a call from the decoded request to the answer.  It composes
`SessionStore` (all registry steps are its actions) and `Bulkhead` (what
`InvokeLimiter` was shown to implement).  Each place where another goroutine or
process can come in between is a step: the two look-ups of a replay by planId,
the reads of the two config files, the session look-up before or after them, the
capture, the policy check, the queue.  The call keeps the files it read, so a
rewrite (`EditFile`) shows up as a stale or mixed reading.  What the contract
store answers is an input of `BuildPlan`: attached or not, resolved, not
resolvable, or another error.  A call queues under the address its plan goes to,
however the plan spells it (`TargetKey`).  `ReplayIsACapture` has an instance of its own with more
calls: what a replay takes at its second look-up must be a plan that its session still
remembers, by the log of all captures, whatever was captured, opened or evicted since
the first.

### BoltClient

A real call below the limiter: its request id, the frame, the dial, the deadline,
the write and the two reads, with one action per place where the call can block
or fail.  Calls share the id counter and the peers.  A peer may send any frame of
`Answers` on any connection on which a request arrived, with the id of any request
that was sent: late, refused by the header checks, above the limit, or for another
call.  `Classify` turns an error into the code a caller sees by the words of its text,
whatever the call was doing, so each place that fails brings the words its text can
contain: names that a text quotes (`Quoted`) bring any word, an open connection what the
network reports (`Reports`).  `target.connect-failed` is therefore no proof that nothing
was sent: a connection whose retransmissions end in a refusal or a lost route reads so
too.  `ErrorsOfSentRequests` says that this is the only case, and that a timeout
of a request that was sent had its deadline.  Cancelling a call ends its dial and
nothing else, as in the code.

### HessianValues, HessianWriter, HessianDecoder, HessianWire

A message is a sequence of tokens, a token being a tag with the bytes that belong
to it: a scalar, a reference, a class definition, the start of an object, a map or a
list, a terminator, or something malformed (`Tags`, `Tokens`).  Values are scalars or nodes of
a heap.

`HessianWriter` adapts the JSON values of a request or an answer (`PrepareValue`:
arrays become lists, an object with a non-blank `@type` an instance of that class,
any other a map) and writes them depth first; its recursion is the stack `todo`,
which gets the `Entries` of a map in the order of their keys, its table of definitions
`objectDefs`, in which an object looks for its own (`Known`).  Baggage keys are trimmed and must then
differ.

`HessianDecoder` is the recursion of `readValue` as a stack machine: one action per
tag and per kind of caller to which a value returns.  `refs`, `classDefs` and `types`
are the decoder's three tables, entered where the code enters them: a map or an
object before its parts, a list after its items.  `limits` holds the depth, the number of
items and the number of references.  A reader can meet the end of the input at any
token.  The integers inside tokens (`readIntValue`) are not read as values of their
own; that the call for them needs one more level is `RoomForInt`.  The text of a key is
made when the value behind it has been read; that of a key that contains itself never
ends, which is the status `"crashed"` (`Crash`): an overflow of the Go stack ends the
process.

`HessianWire` composes the two by `INSTANCE` and adds what `DecodeResponse` and
`FormatValueSafe` make of an answer.  The message comes from the client, from a
service that answers as `BuildSuccessResponse` does, or from a peer that sends any
tokens of its repertoire in any order.  `PropsPrinted` is the printing of
`responseProps`, which can end the process like a key.  Left out: an untyped map under
the name `fields` (it would pass for an object) or `entries`; all lists,
maps and objects that are used as keys print to one text.

### HessianInts, HessianStrings

Pure functions, which `HessianWire` extends: the compact forms of 32 bit integers
in the two functions that read them, against the shortest form a Java writer
takes; and strings in chunks, whose lengths count characters, against a limit that
counts bytes.  A character is the number of its bytes.  64 bit integers, doubles, dates
and characters beyond the basic plane are left out.

### JavaTypes, MethodResolution, Planning

`JavaTypes` is the store's classes with their supertypes, type parameters, fields and
roles.  A name is a model value, and `Undollar` says what it is with its last `$` as a
dot, which is all that the resolution of names does with text.  `Resolution` counts
the candidates against the budget.

`MethodResolution` collects the overloads depth first through substituted
supertypes and picks one: exact types, then assignable ones.  The source store erases
the arguments of a supertype that are parameters themselves (`materialize.go`): of
`Mid<U> extends Base<U>` it keeps `Base<java.lang.Object>`, so only what is right above
the service is ever bound to its types.  The classes of the instance are as the store
keeps them, with the parameters a method has of its own.

`Planning` is `BuildPlan` with a contract from the resolved method to the plan.  A
value is a function from paths to nodes.  `normalizeForType` and `normalizeLoose` are
a stack of parts with the type to go by, one action per branch; the entries of an
object are taken in any order, since Go ranges over a map and the order decides who
spends the budget.  `Rewrite` is `RewriteWireTypeNames` for one name,
`PlanSkeleton` the call without arguments, and the source `"filled"` the agent that
sends the skeleton back as it was shown.  The code passes on, as they are, objects
where a scalar belongs and the fields of an enum's object; `ClassesGoByBinaryName` and
`ObjectsFitWhereTheyStand` say so (`Inside`), and that with the budget spent a name with
dollars goes out as it was spelt, with fields that are not checked (`OfUnresolved`).
The instance has a case of each, without which the properties fail.  Left out: the limits on the memo's size and
on a name's length and separators, the conversion of booleans, raw references to
generic interfaces, generic services, and `@type` among the entries of a typed map.
All placeholders of scalars are one text, and the budget of the parameter types,
which is a new one, is ample.

### UserSetup

A run of `setup` at user scope, with one action per file it reads or replaces.  The
JSON file is what setup distinguishes in it, each part as "who wrote it"; the TOML
file is the sequence of its lines, because setup finds its blocks by the lines that
match `codexHeaderRe`.  Clients save settings of their own between any
two steps; `version` and `seen` tell a replacement of what was read from one that
overwrites a later save.  `Fails` is an error of any file system call or a kill;
that a replacement itself is all or nothing is checked with the same protocol in
`ConfigFiles`.

A header with a comment behind it (`Noted`) and an array of tables (`Array`) are no
headers to setup, and one with its name in quotes (`Quoted`) is the header of some other
table; what Codex reads (`Owner`, `Readable`) goes by the rules of TOML.  `user_setup`
has such lines only for other tables and where setup removes nothing behind them;
`MCSetupHeaders.cfg` has them on the server's own entry and `MCSetupArrays.cfg` behind
it, and with both setup goes wrong.  Strings over several lines, in which a line may look like a header,
are not modelled.

## Runs

| run | what it asks | instance and why it is enough |
|---|---|---|
| `limiter` | all limiter properties, the refinement, and settling under fairness | 3 callers, 2 targets, global limit off or 2, per-target off or 1, timeout or none: one caller can be inside, one waiting for the target and one overtaking or releasing |
| `sessions` | LRU, history, no revival | 4 ids for a capacity of 3, scanned in every order, history of 2 with 3 captures (it rotates), clock 0..3 with TTL 1, which gives ties, expiries and steps back; ids are symmetric |
| `source_store` | single flight, misses, failures, answers | 3 look-ups (owner, waiter, latecomer), two files, a nested name that its file never declares, a name with no file, one edit |
| `contract_holder` | cache coherence, LRU, justified loads, answers | 2 calls, 3 projects and the default, a cache of 2, 4 requests: a project can be dropped and requested again while a call still loads its first entry |
| `config_files` | whole files, no litter, no field lost that could be seen | 2 writers with every pair of operations, each file missing, unparseable or hand-written with an empty allowlist; writers are symmetric |
| `tool_calls` | policy, session context, profile selection, limits and replays across concurrent calls | 2 calls at a time and 3 in all on 2 projects, with one rewrite of the first project's files, which can change the default, delete a profile, break the local file or block all services; two spellings of one address, which has a limit of one call; with and without override, hosts and environment variables.  In one more environment (`ReplayWorld`) files stay and only sessions name the project, but there are 5 calls, 4 while an invoke is sent, and 3 sessions for a registry of 2, with a history of one plan: between the two look-ups of a replay its plan can rotate out or its session be evicted, under a running call too, and two sessions can hold a plan each.  `MCBounds` is the action constraint that tells the environments apart; callers and ids are symmetric |
| `bolt` | answers, limits, deadlines and error codes of real calls | 2 calls with ids of 0..2 and any start of the counter, so that it passes zero between them; lengths below 4 and limits of 2 and 4, so that a sum can wrap; a timeout of one tick, a context with a deadline or without, three instants |
| `hessian` | round trip, references, limits, the end of decoding, printable answers, integers and strings | four peers: one that refers to maps and objects being read (depth 4, 1 item, 2 references), one whose properties do (4, 1, 2), one that nests lists with and without lengths (3, 2, 2), one that defines classes twice, names a field twice and sends malformed tags (4, 2, 2), so that every limit is reached; 8 values to send, with nested, repeated and over-long parts; every bound of a compact form and its two neighbours; all strings of up to 4 characters of 1 to 3 bytes in chunks of 2, against byte limits inside a character, inside a chunk and above all |
| `map_key` | decoding survives whatever is a key | the peers of `hessian`; violated |
| `planning` | names, types and skeletons of plans | a service with generic interfaces above it, one of them two levels up and erased, overloads by class, arrays, lists and maps, classes that are nested twice, extended, recursive, an enum, and one with a dollar of its own; values with and without types, in right and wrong spellings and places, also inside scalars and enums; a budget of 4 candidates, which some requests spend |
| `user_setup` | what setup changes in the clients' files, and what its success means | 2 runs with every pair of 8 ways to call it, 3 JSON files (missing, garbage, with an entry) and 7 TOML files (the entry first, last, split, without environment, absent, and among a commented header, an array and a quoted name); each client saves once |
| `skeleton_loop` | a skeleton that is sent back is planned | the requests of `planning` that send skeletons back; violated |

More configurations reproduce disagreements of the code with its documentation (see
Findings); in each TLC finds its one property violated:

| configuration | module | property | instance |
|---|---|---|---|
| `MCHessianProps.cfg` | `MCHessianWire` | `SurvivesProps` | the peers of `hessian` |
| `MCEnumTypes.cfg` | `MCPlanning` | `ExplicitTypesAreChecked` | objects of three spellings and classes for an enum |
| `MCMethodParams.cfg` | `MCPlanning` | `ParametersAreTypes` | a method of a generic interface with a parameter of its own |
| `MCSetupArrays.cfg` | `MCUserSetup` | `ReplacesOnlyItsEntry` | an array of tables behind the entry |
| `MCSetupHeaders.cfg` | `MCUserSetup` | `SuccessCoversEveryClient` | an entry with a comment behind its header, or with its name in quotes |

Properties that belong together are one: `StoreIsConsistent` is the type invariant of
`SourceStore` with `SingleFlight` and `FailuresCountedOnce`, `CacheIsExact` that of
`ContractHolder` with `CacheCoherent` and `KeepsMostRecent`, `FilesAreSafe` that of
`ConfigFiles` with `NeverTorn`, `NoLitter` and `LocalIsIgnored`, `CallsKeepTheirPlace`
that of `ToolCalls` with `SafetyContextIsTheSessions`.  The type invariants of
`InvokeLimiter` and `SessionStore`, `LimitsRespected` and `WithinCapacity` are proved and
have no run.

Bounds that exist only in the model: `MaxTime` and `MaxCaptures` (SessionStore),
`MaxEdits` (SourceStore), `MaxCalls` (ContractHolder), one operation per writer
(ConfigFiles), `MaxCalls`, `MaxEdits`, `Edited`, `Directories` and the sets of
requests, file contents and `Limits`, with `MCBounds` (ToolCalls), `Timeouts`, `ContextTimeouts`, `Limits`,
`Answers` and `MaxTime` (BoltClient; its `IdSpace` and `LengthSpace` stand for 2^32),
`Sent`, `PeerLimits`, `OwnLimits`, `Forests`, `Ints`, `MaxLength`, `ChunkLength`,
`ShortLength` and `ByteLimits` (the Hessian modules), `Requests` (Planning), and the
sets of options and files (UserSetup).
Deadlock is not checked where the bounds
end the behaviour (`ContractHolder`, `ConfigFiles`, `ToolCalls`, `BoltClient`), where
a message, a plan or a run of setup is finished (`HessianWire`, `Planning`, `UserSetup`), or where the code itself can stop for good: in
`SourceStore` panicked parses can strand every look-up.

## Fairness

- InvokeLimiter: runnable goroutines run (weak fairness of `TakeSlot`, `Park`,
  `Retry`) and timers fire.  When both cases of the `select` are ready, Go picks
  one uniformly at random, hence strong fairness of `GiveUp`.  An admitted call
  releases: the dial ends with its context or when the operating system gives up,
  the exchange by its deadline (both in `ExchangeWithinTimeout`), and the release is
  deferred.  No
  client is assumed to call or to cancel.
- SourceStore: weak fairness of each look-up's steps; a parse is a loop over the
  text of one file.  Panics and edits are not fair.
- ContractHolder: weak fairness of each call's steps; a load ends, by a return
  or a panic.
- HessianWire: weak fairness of the next step.  Reading is a loop over bytes in
  memory; a peer may go on sending for ever, and decoding still ends because of the
  limits (`DecodingEnds`), except where the printing of a key ends the process.
- Planning: weak fairness of the next step, a plan being built in one call
  (`SkeletonIsPlanned`).
- SessionStore, ConfigFiles, ToolCalls, BoltClient and UserSetup state safety only.
  `BoltClient` takes timers as prompt: time does not pass a deadline before whoever
  waits for it has seen it.

## Findings

Seven disagreements of the code with its own comments, plans and tests have a
configuration of their own:

- `skeleton_loop` (run): `BuildSkeleton` renders a parameter or field of type
  `java.lang.Object` as `{"@type": "java.lang.Object"}`.  Sent back as it is,
  `normalizeLoose` takes it to `normalizeForType` and back for ever.
- `map_key` (run): a value is stored under the text of its key; a key that refers to the
  map it stands in is printed by `fmt.Sprint` until the stack overflows and the process
  dies, where the fuzz test of `DecodeResponse` asks it to return for any data.
- `MCHessianProps.cfg`: the items of `responseProps` (`response.go:194`) are printed the
  same way, and can refer to the response around them.  No recovery helps, as it does
  with a panic.
- `MCEnumTypes.cfg`: `normalizeEnum` (`normalize.go:209`) takes over an explicit type
  without validating it, so an object of any class goes out in place of an enum.  The
  plan of 2026-05-16 for generics (lines 56-58) has every explicit subtype validated
  against the declared type.
- `MCMethodParams.cfg`: a method of a generic interface with a type parameter of its own:
  once the interface's are bound (`typeparams.go:48`), that one is no longer erased, and
  the service is called with a class named `X`; `docs/architecture.md:368-371` has a
  bounded one rendered as its bound.
- `MCSetupArrays.cfg`: stripping the server's entry from Codex's file (`setup.go:501`)
  also strips an array of tables behind it, because `[[...]]` does not count as a header;
  `setup.go:388-391` and `418-420` say that every other shape is left alone.
- `MCSetupHeaders.cfg`: an entry with a comment behind its header (`setup.go:392`), or
  with its name in quotes, is not found; a second table of the same name is appended,
  Codex cannot read the file, and setup reports success, where `setup.go:418-421` calls
  what it does equivalent to replacement.

Other disagreements between code and documentation that came up in modelling are
stated as properties of their modules, which TLC finds violated when they are added
to the module's configuration:

- `ExpiredDroppedOnNextWrite` (SessionStore): the comment says that `UpdatePlan`
  collects expired sessions; only `Create` does.
- `NoOverwriteWithoutForce` (ConfigFiles): `projectconfig.Write` looks for the file and
  then renames over it; a file created in between is replaced without `force`.
- `ProfileWritePreservesTheRest` (ConfigFiles): of two concurrent profile writes one can
  be lost, with everything else it changed.  `MergeKeepsTheRest` and
  `OverwritesOnlyWhatItCouldNotSee` say what does hold: nothing is lost unless it
  was written in that window.
- `NeverPersistsAnUndefinedDefault` (ConfigFiles): the comment on `UseProfileInput` says
  it errors "rather than persisting an undefined default"; a forced initialization
  between its reads and its write takes the profile away.  `SelectsADefinedProfile` says
  what does hold.
- `SelectingAProfileIsEnough` (ToolCalls): the policy resolves the ambient target without
  the profile that the call or its session selected, so a call to a profile with
  another address needs `SOFARPC_ALLOW_TARGET_OVERRIDE`, which ADR 0003 asks for only
  when a `directUrl` or a payload overrides the target.  `SentWithinPolicy` says what
  does hold.
- `ConnectWithinTimeout` (BoltClient): `connectTimeoutMs` is read by the probe and by
  nothing else, and `timeoutMs` starts after the dial.  `ExchangeWithinTimeout` says
  what does hold: a dial ends with its context's deadline, if there is one.
- `ReferencesFollowTheSpec` (HessianWire): a list is numbered after the lists, maps and
  objects inside it, where Hessian numbers it before them, so a reference behind such
  a list means another value.  `ReferencesCount` says what does hold.

## Proofs

Each theorem holds for every value of the constants that the assumptions of the
modules allow; the bounds of the runs play no part in it.  Hardly any property is
inductive alone, so each proof module states the invariant that is, and one lemma
per action.

**InvokeLimiter_proofs**, for any finite set of callers, any targets and any integers
as environment values: type correctness, `CountersMatchHolders`, `LimitsRespected`,
`NoLostWakeup`, and that the limiter implements `Bulkhead`.  The invariant is their
conjunction with the fact that an admitted call has not run its release yet
(`released` is what makes the second run harmless).  Exact counters turn the guard
`CanAcquire`, which reads counters, into the bulkhead's guard, which counts callers;
`NoLostWakeup` is kept because every step that makes room also wakes everyone who is
parked.

**SessionStore_proofs**, for any finite set of ids, capacity, expiry time and
(positive) history length: type correctness (only issued ids are live),
`WithinCapacity`, `DroppedStaysDropped`, `EvictsLeastRecentlyUsed` and
`HistoryIsRecentCaptures`.  What the eviction leaves is proved from its loops, by
induction over the sessions a scan has visited (`LruIs`) and over the rounds (`KeptIs`).
The last needs that attempts are numbered in order
(`Numbered`), so that the plan captured now is the greatest of those that were kept,
and moves to the front of the history, pushing at most the smallest out.

**ContractHolder_proofs**, for any calls, finite set of roots and capacity:
`CacheIsExact`, `LoadsAreJustified` and `AnswersTheRequestedProject`.  `Recent` says
that the recency list is an end of the list of all requests with repetitions removed,
and all of it while there is room: the form of `KeepsMostRecent` that moving a root to
the end and dropping the first keeps.  `Ledger` counts the entries: those ever
allocated for a root are the dropped ones and the cached one, and its loads are those
that are no longer fresh.  `Bound` ties a call to an entry of its own root after that
entry has left the cache.

The same module holds the proofs about the store that an entry holds (`SourceStore`,
whose variables and formulas have names of their own, since they stand beside the
holder's), for any look-ups, names, files and edits: `StoreIsConsistent`,
`MissesAreReal`, and that a waiter has an owner who will wake it
(`WaitersAreServed`, the safety half of `EveryLookupAnswers`).  `WitnessesAreTrue` ties
what a look-up has been there for to the cache: what a parse found is in it by the time
the waiters are woken.  `SingleFlight` needs to
know that the entry of a panicked parse stays (`PanicsAreFinal`), or a second parse of
the file would be a second owner, and that a look-up in progress has a file of the
index (`LookupsHaveFiles`).  `FileOf` picks the first enclosing name that the index
knows; that there is a first is the least element of a set of naturals, proved from
the well-founded order of finite sets.

**ConfigFiles_proofs**, for any number of writers, any profile names and any files in
the beginning, with failures and kills between any two calls: `FilesAreSafe`,
`OverwritesOnlyWhatItCouldNotSee`, `MergeKeepsTheRest` and `SelectsADefinedProfile`.
The invariant follows a writer through its steps: what is renamed is whole
(`TempIsWhole`, `BodiesAreWhole`), a local file is touched after `.gitignore`
(`IgnoresFirst`), and as long as the version is the one that was seen, an
initialization saw no file and an edit holds that file, edited (`BodyIsAnEdit`).
`NamesAreFound` follows a selection from read to read: its profile is in the shared
file as long as that has the version of the read, in the local file until the second
read, and from then on in what it will write; a replacement by anybody only takes away
the version it speaks of (`FoundStays`, `FoundIsPast`).

**ToolCalls_proofs**, for any callers, sessions, projects, config files and rewrites of
them: `SentWithinPolicy`, `CallsKeepTheirPlace`, `PlanHonoursSelection`,
`ReplayIsACapture` and `WireWithinLimits`.  `GoodCall` says of one call, by the step it has reached, what is
settled: its session's project and profile, a plan under the selected profile, a plan
that was captured in the named session, a policy that has accepted.  A step of another
call can evict the session or issue a new one but not change what an issued id was
opened with or what was captured (`Grows`), which is why the invariant speaks of the
logs of all issued ids and not of the live sessions alone.  The precedence of the
layers (`TargetResolution`) is proved to yield a profile's own address when the
profile has one.  `ReplayIsACapture` uses the registry's own proofs, instantiated
(`Proved`): every step of a call is one of the registry's or leaves it alone
(`RegistryStep`), so its history is exact here too, and fewer than `History` kept plans
are younger than one that is remembered (`FewAreYounger`).  `WireWithinLimits` rests on `Slots`: a call that sends is inside the
bulkhead under the key of its plan, so that the calls that send to an address are among
those that the bulkhead counts for it.  Each step of a call is also a step of
`Bulkhead` or leaves it alone (`CallsKeepToTheBulkhead`), and `InvokeLimiter`
implements `Bulkhead`.  The run has a limit per address and none over all; the theorem
has any two.

**BoltClient_proofs**, for any set of calls, any timeouts, limits and frames: type
correctness with the bound of a body, `ExchangeWithinTimeout`,
`ErrorsOfSentRequests` and `OwnAnswer`.  For the first three the invariant speaks of
one call (`GoodCall`): a deadline is fixed at the connect, when it lies ahead, and kept,
and so is that of the context; a call has no outcome before it is done; a request that
was sent is past its dial, whose text always reads as a failed connect, and its
outcome is `Truthful`.  `OwnAnswer` rests on distinct ids (`IdsAreDistinct`): the ids given out since
one that is in use are all in use, so giving that one out again would mean that the
counter has gone round and every id belongs to a call, but a call without an id leaves
one free (`AnIdIsFree`, by counting).

**HessianWire_proofs**, for any tokens from any peers, any limits and any values to
write: `WithinLimits`, `ReferencesCount`, `AnswerHasAnEnd` and `ScalarsAreExact`.  The
invariant of the first three has three parts.  `ReaderInv` describes the reader's stack, heap and tables: a waiting call knows
how many parts its node still gets, so that a node cannot outgrow the limit
(`GoodFrame`), and nodes are nested in the order in which they started (`Nested`).
`WriterInv` says that what the client writes are tokens, which the reader relies on.
`Counted` says of the references what is true at every moment: they are numbered in the
order of the nodes, except that a list being read has no number yet, or some list holds
(`HoldsLater`) or is about to hold (`WillHoldLater`) what starts inside it.
`AnswerHasAnEnd` follows from the heap alone: an answer without an end has, among
its finitely many nodes, a set each of which holds another (`GoesAround`, by the
pigeonhole principle on a path as long as the heap), and the formatter would meet these
ever deeper, beyond its limit (`FormattedEnds`).

`ScalarsAreExact` speaks of no variable but the status, and is proved for every set of
integers of 32 bits, in every form that holds them, and for strings of any length, any
widths of characters, any size of chunks and any limit.  Of an integer, the tag tells
the form, and what the bytes behind it add up to is the integer (`EveryIntegerIsExact`);
of a string, the reader goes through the bytes of each chunk character by character and
ends where the chunk ends, so that it joins what the sender cut, or refuses it when it
is beyond the limit (`EveryStringIsExact`).

**UserSetup_proofs**, for any runs of setup, options and files in the beginning:
`SuccessCoversEveryClient`, `ReplacesOnlyItsEntry` and `KeepsGuardrails`.  Half of the
module is about lines: what stands under a header (`OwnerIs`, `UnderIs`), that taking
our tables out leaves none and keeps every other line once (`StrippedIs`), that the
rendered entry has each guardrail at one place (`RenderedIs`), and that behind a header
of its own a part keeps its owners (`OwnerJoined`), from which it follows what Codex
reads after a run (`UpsertedIs`).  The invariant says of each run that the jobs it has
left behind are done and stay done whatever others write (`Progress`), because everybody
only ever writes files that register some run (`BodyIsGood`); and that a run whose
version is still current holds what it makes of the file as it is (`Current`).
`SuccessCoversEveryClient` has the hypothesis that setup finds the headers of the
server's own tables (`OursAreFound`), as it finds those it writes; and
`MCSetupHeaders.cfg` shows what happens otherwise.  `ReplacesOnlyItsEntry` has the hypothesis
that all headers are plain (`HeadersArePlain`: no arrays, comments or quotes), since the
code does not see where another one begins and `MCSetupArrays.cfg` shows what it then
removes; `KeepsGuardrails` also that no guardrail is set twice
(`SetOnce`), which TOML forbids.

Where a proof is about recursive data (the bytes of an integer, the characters of a
string, the lines of a file), the recursion is a function over `0..n`; that such a
function exists and what it yields is shown by induction over the naturals in a form
without an operator for the formula: what holds is a set that contains 0 and the
successor of each member (`SetInduction`, `Recursion`).

The assumptions are those stated in the modules: finite sets of ids, roots and callers
where they are counted, numbers that are numbers, inputs of the types the decoders of
the tools and files produce (`SourceAssumption`, `InputsAssumption`,
`AnswersAssumption`, `MessagesAssumption`, `SetupAssumption`), integers of 32 bits and
chunks that hold a character (`IntsAssumption`, `StringsAssumption`), cache sizes and history
lengths that are positive, as the code's constants are, and a `None` that is no value.
`FewCalls` (fewer calls than ids) is what `OwnAnswer` needs: with 2^32 calls at a time two
would share an id.

Only model-checked: liveness (out of the prover's reach), and the properties of three
parts.  `RoundTrip` of the Hessian modules relates two machines over trees of every
shape, the writer's stack and the reader's, token by token.  `JavaTypes`,
`MethodResolution` and `Planning` are written with recursive operators, since types and
skeletons are trees, which the prover cannot take; with them stay
`ClassesGoByBinaryName`, `ObjectsFitWhereTheyStand` and `SkeletonIsAccepted`.

## Not modelled

Formatting, logging, progress notifications and JSON; the text of diagnostics; Java
parsing (text processing of one file) and the JDK symbol table (generated data); the
walk of the workspace; read-only tools (doctor, describe, target, resources) and the
probe; `call`, `version` and the parsing of flags.
In the modelled components: `Set`,
`SetDefaultRoot`, `SetProjectLoader` and the `With...` setters, which run before
the server accepts calls; resolution issues, which only feed diagnostics; other
lines of `.gitignore`.  In `ToolCalls`: the contract holder, the method resolution
and the normalization of arguments beyond their outcome, the Java names a replay
rewrites, expiry by time (all sessions count as equally old, and any of them may
be the one that is evicted at capacity), and requests that are refused while they
are decoded.  In `BoltClient`: the bytes of a frame, the header map, and the lengths
of a request and of its header, which the encoder cuts to 16 bits without a check
(`client.go`).

## Plan

1. Proofs: `RoundTrip`, which needs the writer's and the reader's stacks related token
   by token; the invariants of `Planning`, once its recursive operators are functions.
2. The composition of `ToolCalls` with `BoltClient`: one slot per open connection.
3. The outcome of `Planning` in place of the inputs of `BuildPlan` in `ToolCalls`.
