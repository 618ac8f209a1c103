# Specifications of recompose

recompose is a desktop app that runs local gateways. The main process holds the
stored gateways, the accounts and their credentials, and directs one engine
child, a utility process that listens on each gateway's port, serves its requests
through a tree of routers and provider targets, and translates each provider's
stream into the dialect of whoever called. The modules here model the parts whose
correctness rests on order: which of two walks moved first, which report came
late, what a crash left behind, which half of a split stream came first.

## Inventory

Paths are under `src/`; `main/` is `apps/desktop/src/main/`, `engine/` is
`packages/engine/src/`.

| part | state it keeps | operations | meets | hard behaviour |
|---|---|---|---|---|
| route table, policies (`engine/routing/route-table.ts`, `policies.ts`) | none (a snapshot) | reachable targets, the pick of each mode | the walk | none by itself |
| attempt walk (`engine/routing/attempt-walk.ts`, `walk-descent.ts`, `outcome-classification.ts`, `walk-notes.ts`) | per request: attempts noted, routers spent, judgments; per descent: path and turns | descend, offer, attempt, move on, descend again, settle | the memory, the judge, providers | many walks interleave at each await over one memory |
| cooldown ledger, rotation cursors | per gateway: who stands down until when, each rotation's position | cool, read, advance, hand back | every walk | turns come back out of order |
| judge decision (`engine/routing/judge-decision.ts`, `provider/judge-call.ts`) | per request: what each router decided; per gateway: branch pins | ask once or twice, pin, decline, refuse | the walk, the ledger | a judge in trouble, a sealed turn, a walk that comes back |
| conversation pins, kept children (`engine/gateway-routing-memory.ts`, `gateway-kept-child-file.ts`) | per conversation and router: a child; one file for every gateway | remember, forget past a bound or an age, hand over, restore | the walk, disk, windows | forgetting between two turns, coalesced writes, late lives |
| engine host (`main/engine-host/engine-host.ts` and the files beside it) | the states every window reads, acts in order, directives awaiting a report | start, stop, restart, forget, hear a report, give up, hear an exit | the child, IPC, desks | late, lost and dropped reports, a death mid-act |
| engine child, runtime, listeners | which gateway serves which snapshot | open, halt, report | the host | refused binds, directives in turn |
| looks and spend lanes (`engine-looks.ts`, `spend-grant.ts`) | questions awaiting an answer | ask, answer, fold; resolve a node's secret | host and child | time-outs, a child's death, rows rebound between two reads |
| traffic watch and desks (`engine/gateway-traffic-watch.ts`, the ledgers of `engine-host/`) | cables live or settled, log rows, cooldowns, pins | note, settle, drop, interrupt, evict, replay | engine, windows, usage ledger | throws, dropped answers, words of a turn that outlived its gateway |
| stored gateways served (`main/ipc/gateway-storage-ipc.ts`, `engine-ipc.ts`, `stored-gateway-serving.ts`) | documents on disk, one write lane | save, rewrite, move port, remove, start, stop | storage, the host, the watcher | a save racing a start, a removal racing anything |
| serving memory (`serving-memory.ts`) | which gateways to start again | keep, close, stand up | the host, disk | quit and launch between two writes |
| usage ledger (`main/usage/usage-store.ts`, `storage/writing-in-turn.ts`, `flush-cadence.ts`) | rows, what of them is on disk | accrue, flush, age, quit | desks, disk | rows that settle mid-write, overlapping flushes |
| vault (`vault.ts`, `vault-order.ts`, `vault-maintenance.ts`) and accounts (`accounts-store.ts`) | secrets in one file, rows naming them in another | save, rotate, remove, sweep | accounts, spend lane | two files and no transaction |
| sign-in (`main/subscriptions/`) | codes and listeners under way, homes, the chosen account | device code, browser, adopt, restore, activate, remove | a tool of the person, the keychain | minutes of waiting on a person between two steps |
| credential renewal (`engine/subscription/refresh.ts`, `main/subscriptions/delegated-renewal.ts`, `custody-repair.ts`) | rotating tokens | renew, store, spend, hand to the owning tool, repair | engine, main, providers | one token, several turns |
| stream commit (`engine/gateway-stream-commit.ts`) | what a stream said so far | hold, classify, commit, fail over, relay | the walk, the caller | failure around the first event |
| dialect streams (`engine/dialect/`) | open blocks, held pieces, indices | decode, rewrite, encode | providers, callers | pieces that interleave, split, come late or never |
| xAI sockets (`engine/provider/xai-websocket-*.ts`) | per caller: its turns in line, one connection to xAI, a transcript | take a turn, connect, replay, record, compact | a caller's socket, xAI | turns that compact, change target or lose their connection |
| updates, menus, tray, windows, IPC dispatch, request translation, other providers, plugins, renderer, site | | | | presentation, stateless forwarding, shapes, vendor data |

`PROJECT.json` lists every part with its sources, and the hazards at the lines
where they bite.

## Modules

A component's module names its state and has one action per operation, handler or
stretch of code between two awaits. Its constants include every bound. Its safety
properties are state formulas and actions, so that a root can claim them of one of
its parts.

### Routing

**RouteTable** is the table as a constant: targets, routers of three modes, a
judge that stands beside the tree. `TableIsServable` assumes what
`gateway-routing.ts` refuses to store a table without. Picks are predicates over
the set of children that can serve, each as the policy computes it.

**AttemptWalk** composes any number of walks over one memory. `BeginDescent` to
`StepAtTarget` are `walk-descent.ts` and `attempt-walk.ts`; `AskJudge` (which reads
whether the judge stands down), `CallJudge` (which calls it, once its seat was resolved
and its grant awaited), `JudgeAnswers` and the decisions without a judge are
`judge-decision.ts` and `gateway-judging.ts`; `MoveOn`,
`AttemptAnswers` and `AttemptThrows` what an attempt comes back with. `ledger`,
`cursors`, `pins` and `rotationPins` are the gateway's `RoutingMemory`; the other
variables are one walk's `Walking` and `Descending` objects. `tries`, `judgeCalls`,
`landed`, `spread`, `sawCooling` and `sawReady` are history, read by nothing but properties.
A judge another request cools while the grant is awaited is called all the same, since
nothing reads its standing again: `StandDownsAreHeeded` claims only that a judge that
stood down at every instant of a walk is called for none of that walk's routers.
Instants are abstracted: a child is ready, or stands down on a guess or on a
promise, and a stand-down ends at any moment.

`OneDrain` chooses how much interleaving there is. Only the awaits of a judge and
of an attempt wait on the network; every other one yields to the microtask queue,
where a walk resumed alone runs on to its next network wait. `TRUE` models that.
Two walks do share a drain when one event settles both; `FALSE` lets any two walks
interleave at every await, which covers that and more. `ExhaustedMeansNobodyWasLeft`
and `DeadDescentsHoldNoTurn` are claimed under `TRUE` only: a walk whose offered
child stood down inside the same drain does end nowhere, holding its turns.

**StreamCommit** reads an answer as far as the first event, under the bound, and
relays what follows: held events, a bound passed, a child let go, a connection
that dies, a stream that opens with an error, answers read whole.

**XaiSocket** is one caller's Responses socket carried to xAI. `work` and `stage`
are the turn the lane is at and the await it stands in, `conns` the sockets made so
far with what each has `pending`, `transcript`, `replay` and `compacted` the fields
of `XAIWebSocketTranscript`. `talk` is history: the conversation as the caller heard
it. `TheTranscriptIsTheTalk` and `EveryTurnEnds` are claimed of a caller that waits
for each answer (`inTurn`).

**PinStore**, **ConversationPins**, **KeptChildren** are the pin stores under their
bound and window, the tallies told to the windows, and the one file the gateways
of a process keep children in: `owed` is what was handed over, `disk` what lines
the file holds, and lives of a gateway overlap (`lingering`).

### Host and storage

**EngineHost** puts the host and the child side by side. One gateway's acts take
turns; an act sends one or two numbered directives; the child works one gateway's
directives off in order and reports; the host hears a report, drops it when its
directive was given up on, or gives up itself. A restart keeps its stop from the
windows (`MidRestart`). `Die` takes the listeners, the directives unanswered and
any suffix of what was said; until `HearExit` the host goes on posting to a dead
child. `"failed"` stands for stopped with the port that could not be bound.

**GatewayServing** extends it with one stored document, the write lane, port moves,
removals, foreign edits and the watcher that hashes what it knows.
`OneActAtATime` and `StepsAreQuick` choose whether acts settle before the next one.
**GatewayDocuments** is the same lane over several documents and a port each, with
listings that go stale. **ServingMemory** keeps what serves over quits, exits, deaths and
launches, those of what is remembered and those that start every stored gateway. Its writes
land in any order or are refused (`Land`), and those under way when the app ends are
dropped with it (`End`, `Crash`): nothing in the quit path awaits one. `lastTold`, `fleets`,
`leftServing` and `leftStarting` are history. **UsageLedger** is the ledger with its
flushes in turn.

**TurnTraffic** is one request's words to the canvas and rows of the log, told by
the walk, by what an attempt spends and by the body that ends; **HostDesks** the
desks that keep them, evict, interrupt, batch them to windows and hand settled rows
on, with the gateways the host keeps a state of (`states`), which are the ones a child's
exit interrupts: a removal takes a gateway out of them, a report heard puts it in, that of
a start refused its port included; **EngineLooks** and **SpendGrants** the lanes between child and host.

### Credentials

**CredentialRenewal** (the engine renews a rotating token, main stores it),
**AdoptedRenewal** (the person's tool does), **CustodyRepair** (an older build's
credentials carried home, a process that ends or a keychain that refuses cutting it
anywhere; `cut` is history of the one place where that matters), **KeyVault** (keys and
rows in two files), **DeviceSignIn**, **BrowserSignIn**, **AccountSignIns** (rows, homes
and the chosen account over the three lanes the code writes them in).

In **AccountSignIns** a person finishes the tool as whoever they please, a restore
included, and the tool may leave no record naming them; `strayed` is history of the
accounts a restore was recorded for under another label. An account is found again by the
records in its home for a tool's run, by its label for a page, by either for an adoption;
nobody is found under no name, and an account with none gets an id of its own. In the
keychain a credential moves home in two writes, either of which may be refused
(`WriteUnder`, `LetGoOfPending`), and an old tool's write to the item of the person's own
install is moved to the home and the login put back (`MoveTheWriteHome`,
`PutTheSnapshotBack`); `"cut"` is a job refused between the two.

### Dialect streams

**HubEvents** names the events every dialect is decoded into, and what a reader who
heard some of them knows. **HubStream** is the abstract specification: a message
begins once, each block opens under an index of its own, is told only while open,
closes once, the message ends with no block open, and nothing follows.

**ChatStreamDecode**, **ResponsesStreamDecode** and **GeminiStreamDecode** decode; **GeminiSignatureStream** puts detached signatures
back; **StreamRewriters** are the three rewriters; **AnthropicStreamEncode** (the
serializer included), **ResponsesStreamEncode** and **StreamEncoders** (chat,
Gemini, Interactions) encode; **ChatToAnthropic** composes a decoder and an encoder
under the client's pull, the decoder as an instance of its own module. A chunk of several
choices is several choices decoded one after the other, and choices go on after one of them
finished. Upstream ends its frames with `[DONE]`, stops short of it or throws
(`FramesStop`; `Throws` in the Gemini decoder, whose source may also just end). A text is a count of pieces, a signature or a name a
member of a small set. Encoders are fed by any source HubStream allows, within
their bounds.

### Proofs and roots

**AttemptWalkProofs** (with `StreamCommit`), **EngineHostProofs** (with `EngineLooks`,
`UsageLedger` and `TurnTraffic`), **KeyVaultProofs** and **ResponsesStreamEncodeProofs**
hold the theorems about the modules they are named for, **StoredProofs** those of
`GatewayDocuments`, `ServingMemory`, `KeptChildren` and `HostDesks`, **CredentialProofs** those of
`CredentialRenewal`, `CustodyRepair`, `AdoptedRenewal`, `DeviceSignIn`, `BrowserSignIn`
and `AccountSignIns`; `SpendGrants` and `XaiSocket` hold their own. `EngineHost` and
`ChatToAnthropic` are checked as they stand; the roots **MCAttemptWalk**, **MCServing**, **MCStored**, **MCObserved**,
**MCCredentials** and **MCDialects** instantiate the modules at the settings worth
asking about.

A root declares the variables of several modules that share no state. `part`, chosen
at the start and never changed, says which instance moves in a behaviour while the
others rest in one initial state; several parts can be one module at several
settings. So one run is the disjoint union of its instances, and each conjunct of a
root's property names the part it is about, unless it holds at rest too. Two rules keep that honest. A module
that rests has one initial state, so it multiplies nothing. And fairness is stated
of a part only while it is the one at work: weak fairness of an action enabled in
a module at rest would rule out every behaviour of the others, and liveness would
hold of nothing.

## What is checked

| run | parts and instances | shows |
|---|---|---|
| `walk_ladder` | 2 walks, failover over a rotation over 3 children, limit 2, refusals with and without a promise, `OneDrain` FALSE | no child twice, sealed turns not spread, waits promised by the tries themselves, types |
| `walk_sorter` | 2 walks, rotation over a judged router, limit 4, `OneDrain` TRUE | turns taken once and given back, two judge calls at most, unjudged never served, exhausted means nobody left |
| `walk_lone` | 2 walks, one child left to serve | the judge's cooling is read from the gateway's ledger, before its grant is waited for; every walk ends |
| `host_orders` | 1 gateway, 2 snapshots, 3 acts, 6 give-ups, 1 death, 1 removal, refused binds | what the windows read and what serves agree at rest but for a restart that lost its port, a restart serves its own snapshot and blinks nothing |
| `host_settles` | 2 gateways, 2 acts, 4 give-ups, 1 death, refused binds | every act settles |
| `serving` | 1 document at three settings (6 acts that settle; 4 that overlap; the lane over 6 give-ups), 1 walk over two judged routers chained, an answer of 2 children and 3 chunks, a socket of 3 turns over 2 targets, 2 out at once | stored means served, removals stop first, one child speaks, a socket carries one talk and one connection, every job, walk, answer and turn ends |
| `stored` | documents and ports raced for; 2 gateways, 3 changes and 2 runs of the app, its writes landing in any order, refused or cut; 2 routers over a store of 2 pins; 2 gateways over 2 lives of one file with a death and a refusal | no port twice, no answered write undone, a launch stands up the fleet that was left where the disk was told of it last and one that served where it was not, pins forgotten in order, what is handed over lands |
| `observed` | 3 rows with a refused write and an end; turns over 2 children (4 settings of throws, keys and plans); 2 gateways' rows over a roomy desk and a full one, stops, starts refused, deaths, a removal, reloads; 3 looks over 2 children | rows reach the disk and stay, cables and rows settle, desks tell once, looks are answered |
| `credentials` | 3 turns over a chain of 3 rotations; 2 turns with losses and refusals; 3 turns over a tool; 3 accounts repaired, cut anywhere; 2 vault jobs with a death, a refusal and a damaged registry; 2 asks over rebinds; 2 plans, 2 codes, 2 waits; 3 browser tries over one port; 3 jobs over the homes, 2 over the keychain, 2 of an old tool, 3 letting go, the keychain refusing once | nothing spent before it is kept, nothing lost or orphaned, grants are the node's own, sign-ins answered by their own code and page, one account per address but for restores finished under another name, each over its own credential, every ask ends |
| `dialects` | 11 streams over 2 to 3 blocks, 1 to 3 pieces each, 2 blocks held at once, and one decoder under one encoder | readers hear a hub stream, all of what was said, once, with an end wherever upstream told one |
| `host_port_taken`, `pipe_interleaved` | | the findings below |

Bounds. The code's limit is 8 attempts; 2 or 4 meets the same comparisons on tables
of three or four children, where 8 would never be reached (the chained tables use
8, since nothing there stops a walk but its own routers). Two walks are what every
sharing hazard needs: one to move the memory, one to be surprised. Three acts let a
stale report of the first meet a third while the second is given up on; give-ups are
as many as the directives, so no bound stops an act from settling. Three turns of a
socket are one that speaks, one that compacts and one that goes on from it, on the
same target or another. Two gateways share
a file or a lane in every way more can. Two pins fill the store so that the third
evicts across routers. Rotations of a token and turns are three: one renewing, one
waiting on it, one that comes after. Two or three blocks interleave, wait and drain;
a call's name, its first piece and a late one are what the pieces tell apart. A
decoder's buffer is empty again after any of these, so more of them repeats.

Deadlock checking is off where the system may rest: requests end, quits end, jobs
run out.

Settings that narrow a claim are constants with a name, and say what the code does
not: `OneActAtATime` (acts overlap), `Orderly` (a provider that resumes a block it left),
`SearchEarly`, `SignsMedia`, `SignsSplits`, `LateTools`, `Ops` (which lanes run together), and
the bounds that say a desk forgets nothing it is asked about later (`MaxStops`, `MaxForgets`,
`MaxGiveUps`, `MaxReloads`). What the code does outside them is under Departures.

Fairness. A process of the app that has work and waits on nothing outside goes on:
walks, jobs of a lane, a desk's own timers, a stream's pump have weak fairness. A
provider or a judge ends its call, by an answer or a dead connection or the bound
the code sets it. A child owes no report and no death; the host's give-up timer is
fair. A person owes nothing: a device code runs out, a browser's listener gives up.
Writes end, refused or not, as often as the bound on refusals says. A spend lane is
given strong fairness where a rebinding person can keep disabling it; nothing else
is.

Each property of a passing run has a mutant in `PROJECT.json`: a definition changed
the way a slip in that code would change it, under which the property fails. The
mutated forms stand beside the definitions they vary, commented as such.

## Refinement

`ChatStreamDecode`, `ResponsesStreamDecode`, `GeminiStreamDecode` and the rewriters
implement `HubStream`: each maps `heard`, the events it has told so far as a reader
knows them, onto the abstract reader, and `HubSpec` is that specification under
the mapping. `AnthropicStreamEncode` implements it a second time (`ClientSpec`):
what an Anthropic client hears is a hub stream in which at most one block stands
open. `ReadersHearAHubStream` checks all of them. `ChatToAnthropic` composes two
stages that each implement it.

## Findings

`host_port_taken`. A restart whose start loses its port goes unpublished.
`midRestart` (`engine-host-restart.ts:28`) holds back every stopped report of a
gateway a restart stands over, the one meant and also the answer of the start that
follows. That start resolves, so `wentQuiet` is not called, and the windows go on
reading running over a gateway nothing listens for. The comment above
`restartGateway` promises the reverse. `host_orders` shows `WindowsShowWhatServes`:
this is the only way a window at rest is left behind.

`pipe_interleaved`. Reasoning, content, then reasoning again: the chat decoder tells
the late reasoning of the block it closed; the serializer keeps it as a block that
waits, drains it as one with no close, and holds the message's end behind it for
good. An Anthropic client is never told `message_stop`.

## Departures

Where the code does otherwise than its docs, comments or tests say, or (an empty
cell) than a caller would expect of it where nothing is said, as the model
checker found it. Each property below is stated in its module. One marked with a
setting is claimed of the code where that setting holds; the others are claimed of
nothing, and are there to be checked against the module by whoever mends the code.

| code | what it does | what is said | property |
|---|---|---|---|
| `main/ipc/gateway-storage-ipc.ts:77` | a document rewritten while its gateway starts is stored and not served; one rewritten while its gateway stops starts it again | `gateway-storage-ipc.ts:104`, `:117` "One a person stopped is left stopped" | GatewayServing `ServesWhatIsStored`, `StopsAreKept` (`OneActAtATime`) |
| `main/ipc/gateway-storage-ipc.ts:210` | a gateway removed while it starts goes on and serves until the watcher looks | `:193` "The stop lands before the delete" | GatewayServing `RemovalStopsIt` (`OneActAtATime`) |
| `main/storage/gateway-watcher-wiring.ts:21` | the watcher, not told of a removal, stops the removed slug, and the host writes it down again as stopped | `main/ipc/storage-context.ts:28` "Stops and forgets" | GatewayServing `RemovedStaysForgotten` |
| `main/boot/stored-boot.ts:111` | nothing a quit calls flushes the usage ledger | `main/usage/usage-store.ts:73` "immediately on `flushNow` for quit" | UsageLedger `AQuitLosesNothing` |
| `main/engine-host/serving-memory.ts:124` | writes of the memory race, the slower renaming the older over the newer, a refused one is only logged, and a quit awaits none: the next launch may stand up an earlier fleet | `serving-memory.ts:110` "stands the same ones back up" | ServingMemory `AQuitKeepsTheFleet` (`disk = lastTold`) |
| `engine/gateway-traffic-watch.ts:159` | an attempt that throws after its grant leaves its cable live | `:131` "every child it spent on is noted" | TurnTraffic `LiveMeansInFlight` (`Throws`) |
| `engine/gateway-proxy.ts:121` | a last child that could not be reached is painted red and has no row | `engine/gateway-traffic.ts:279` "can never disagree" | TurnTraffic `RedCablesHaveRows` |
| `engine/subscription/observed-send.ts:52` | a plan's failed send has a row of its own and one of the walk's | `engine/gateway-walk-notes.ts:143` "would count one try twice" | TurnTraffic `TriesAreCountedOnce` |
| `engine/gateway-proxy.ts:121` | an unbound last child leaves the child before it painted twice | `:113` "would paint one cable twice" | TurnTraffic `CablesArePaintedOnce` (`Unbound`) |
| `main/engine-host/logs-ledger.ts:51` | a row interrupted, evicted and reported late is counted twice | `:65` "exactly once per row id" | HostDesks `SettledIsToldOnce` (`Retained`, `MaxStops`) |
| `main/engine-host/route-node-desk.ts:79` | a refusal told after its gateway stopped stays filed | `main/engine-host/cooldowns-ledger.ts:25` | HostDesks `FiledMeansStandingDown` |
| `main/engine-host/engine-host.ts:139` | the exit of the child interrupts the gateways the host keeps a state of: a request told late of a gateway removed since, or of one whose start's report was given up on, reads in flight for good | | HostDesks `NoDeadRequestPulsesForEver` (`MaxForgets`, `MaxGiveUps`) |
| `renderer/src/shared/api/engine.ts:181` | a window that binds never asks for the route-node desks again | `main/engine-host/traffic-ledger.ts:22` | HostDesks `WindowsHoldTheSnapshot` (`MaxReloads`) |
| `engine/gateway-kept-child-file.ts:139` | a gateway that reopens reads the disk, though a newer set waits to be written | `engine/gateway-kept-child.ts:11` | KeptChildren `ARestartKeepsConversations` |
| `engine/gateway-kept-child-file.ts:142` | a turn of the last life hands over its set and replaces the standing one | `:162`, `gateway-kept-child.ts:15` "One authority" | KeptChildren `TheFileHoldsTheStore` |
| `engine/subscription/ready-claude-identity.ts:65` | an identity stamped late stores a spent credential over a renewed one | `docs/adr/0080-…:29` | CredentialRenewal `StoreMovesOn` (`Claude`, the stamp only) |
| `engine/subscription/refresh.ts:281` | the lane of a token clears before the renewed one is stored, and a holder of the old grant presents the spent token | `docs/adr/0080-…:21` "collapse into one operation" | CredentialRenewal `NoSpentTokenIsPresented` |
| `main/subscriptions/custody-repair.ts:68` | a repair cut between its two writes keeps neither copy of a parked login at the next launch | `:80` "no ordering loses a credential" | CustodyRepair `NoCredentialIsLost` (`cut`, that login only) |
| `main/storage/vault-maintenance.ts:54` | a registry moved aside reads as empty, and the sweep drops what it names | `vault-reconcile.ts:62` "loses nothing that was recoverable" | KeyVault `SweepsNothingRecoverable` |
| `main/ipc/reader-credential.ts:104` | the old reader key leaves the vault before the row that names it moves on | `:82`, `vault-reconcile.ts:12` | KeyVault `ReadersOpen` |
| `main/subscriptions/device-sign-in.ts:96` | a wait begun before a code was replaced is settled by the old one | `:43` "replaces the first" | DeviceSignIn `AReplacedCodeSettlesNothing` |
| `main/ipc/app-sign-in-ipc.ts:107` | waits queue, so one begins after its code ran out | `device-sign-in.ts:32` "either one may settle first" | DeviceSignIn `EitherMaySettleFirst` |
| `main/subscriptions/codex-sign-in.ts:151` | a browser that will not open leaves its listener on the port | `loopback-callback.ts:32` | BrowserSignIn `TheNextOneCanListen` |
| `main/subscriptions/codex-sign-in.ts:144` | the page opens before the listener stands | `:135` "only once the loopback is listening" | BrowserSignIn `OpensOnlyWhileListening` |
| `main/subscriptions/loopback-callback.ts:52` | any request to the port ends the sign-in | `:34` "a stray callback settles nothing" | BrowserSignIn `AStrayCallbackSettlesNothing` |
| `main/subscriptions/subscriptions-wiring.ts:211` | adoptions have a lane of their own, and one address gets two rows | `:198` "one write lane" | AccountSignIns `OneRowPerAddress` (`Ops`) |
| `main/ipc/tool-run-sign-in.ts:111` | a restore finished with another address keeps its id and takes that address's label, beside the row that had it | `main/ipc/subscriptions-workshop.ts:81` "one address standing as one account however it arrived" | AccountSignIns `OneRowPerAddress` (`strayed`) |
| `main/ipc/tool-run-sign-in.ts:112` | an account is looked for by the records of the homes alone, and its label asked of the far end as well: a tool that leaves no record signs one address in twice | `main/ipc/subscriptions-workshop.ts:81` | AccountSignIns `OneRowPerAddress` (`InKeychain`) |
| `main/subscriptions/credential-custody.ts:78` | a move refused between its write and its removal leaves the credential in both homes, its row as it was, and the next sign-in finds it pending | `:64` "no account ever squats on another's" | AccountSignIns `RowsHoldTheirCredential` (`NothingIsCut`) |
| `main/subscriptions/subscription-release.ts:28` | the pointer heals to survivors read before somebody else was chosen | `subscription-release.test.ts:73` | AccountSignIns `RemovalDisturbsNobodyElse` |
| `main/subscriptions/subscription-homes.ts:77` | the heir may be an adopted account, which has no home | `subscription-homes.test.ts:159` | AccountSignIns `SomeoneIsChosen` |
| `main/subscriptions/subscription-homes.ts:129` | the keychain item of an abandoned run is landed by the next | `subscription-homes.test.ts:71` "leaves nothing of the first behind" | AccountSignIns `LandsWhatItsToolWrote` (`LateTools`) |
| `engine/gateway-answers.ts:169` | an answer read whole that dies is thrown past the siblings | `engine/gateway-attempt.ts:131` | StreamCommit `ADeathUnheardMovesOn` |
| `engine/chat-sse-hygiene.ts:62` | a chat stream that opens with a comment is carried raw past `[DONE]` | `chat-sse-hygiene.test.ts:51` "is withheld" | StreamCommit `NothingAfterTheTerminator` |
| `engine/dialect/chat-completions-stream-decode.ts:78` | reasoning after content is told of a closed block | `chat-completions-stream-decode.test.ts:248` | ChatStreamDecode `NothingIsSaidToAClosedBlock` (`Orderly`) |
| `engine/dialect/chat-completions-stream-decode.ts:161` | the finish of one choice closes the calls of every choice: what another still tells of its own is kept and never told | | ChatStreamDecode `NoCallIsLeftBehind` (`Orderly`) |
| `engine/dialect/chat-completions-stream-decode.ts:229`, `engine/stream-wire.ts:103` | chat frames that stop short of `[DONE]`, and any upstream whose body throws, leave the caller with open blocks and no end or error event | `openspec/specs/dialect-translation/spec.md:38` "MUST end the way the source ended" | MCDialects `EveryStreamIsEnded` (`frames`, `upstream.over`) |
| `engine/dialect/responses-stream-web-search.ts:59` | a search's result takes the index of the next item | `responses-stream.test.ts:23` | ResponsesStreamDecode `EachBlockHasItsOwnIndex` (`SearchEarly`) |
| `engine/dialect/responses-stream-outcome.ts:16` | a turn that thought and said nothing is completed | `reasoning-only-stream-parity.test.ts:8` | ResponsesStreamEncode `ThinkingAloneIsNotCompleted` |
| `engine/dialect/gemini-responses-signature-stream.ts:132` | words and calls beside two thoughts that merge are dropped | `gemini-responses-signature-stream-coverage.test.ts:46` | GeminiSignatureStream `HeldIsReleasedWhole` (`MaxParts`) |
| `engine/dialect/gemini-responses-signature-helpers.ts:17` | signed media is taken for a signature and dropped | `openspec/specs/dialect-translation/spec.md:81` "never a silent drop" | GeminiSignatureStream `HeldIsReleasedWhole` (`SignsMedia`) |
| `engine/dialect/gemini-stream-runs.ts:80` | the unnamed rest of a signed call opens a nameless block | `openspec/specs/dialect-translation/spec.md:38` | GeminiStreamDecode `CallsAreNamed` (`SignsSplits`) |
| `engine/provider/xai-websocket-proxy.ts:157` | a turn sent before the last one is answered replaces its pending record, so the earlier answer is recorded as the later one's and the later one's not at all | | XaiSocket `TheTranscriptIsTheTalk` (`inTurn`) |
| `engine/gateway-websocket.ts:31` | a compaction whose request throws answers nobody | | XaiSocket `EveryTurnEnds` (`lost`) |
| `engine/provider/xai-websocket-proxy.ts:171` | a turn under way when its caller leaves opens a connection to xAI nobody closes | | XaiSocket `OneConnectionStands` (`late`) |
| `engine/dialect/gemini-stream-encode.ts:127` | an error reaches a Gemini client as text and a finish | `openspec/specs/dialect-translation/spec.md:51` | StreamEncoders `EndsTheWayTheSourceEnded` (`Target`) |

## What is proved

Every theorem holds for every value of the constants that satisfies the module's
named assumptions, and rests on nothing else.

`AttemptWalkProofs`, from `TableIsServable` and `WalkAssumption`, for every table,
set of walks and conversations, limit and both values of `OneDrain`:

- `TypeCorrect`. `TypeInv` strengthens `TypeOK` with `Placed`: a walk inside a
  descent stands at a node of the table, and at a router while it asks one. Without
  it the entry a judge or a pick writes would have no type. One lemma per action.
- `TurnsAreTakenOnce`. `TurnInv` strengthens `NoTurnIsTakenTwice` with
  `TurnsBehind`: each turn held or spent lies behind its rotation's cursor. A pick
  then takes a turn nobody has, and a turn that comes back was the last one.
- `ChildrenAreTriedOnce`. `TryInv` strengthens `NoChildIsTriedTwice` with
  `TriesNoted`: all but the last try are noted, and the last is while its attempt is
  out, or the walk is over.
- `UnjudgedStaysUnserved`. `UnjudgedIsNeverServed` is inductive given `TypeInv`.
- `RoutersAreJudgedTwiceAtMost`. `AskInv` counts: a
  router the request has no decision about was asked nothing yet, or is being asked
  now, and then its calls are the asks of this visit. A decision is never taken
  back, so a walk that returns asks nothing. Without the count a second visit could
  start again from one.
- `StandDownsOutlastRequests`. A judge is called after the wait for its grant, when its
  standing may have changed, so what was read has to be remembered: `HeedInv` says that
  a walk under way has seen every judge that stands ready, and that one at a judge, asking
  or calling, saw it ready.

Its second part, from the same assumptions, is about where a walk can get. It
begins with the table: that `Below` holds what it should, that whatever lies below a
router lies below exactly one of its children, that no node lies below its own
child. `Below` is a least set, so there is no induction to do: a set that is closed
holds it, and a counterexample of least size refutes the rest.

- `SealedTurnsKeepTheirChildren`, of rotations (a conditional's branch is judged, not
  spread). `SealedInv` says of every rotation on a sealed
  turn's path that the child taken is one it had handed to the conversation. It
  rests on `PathInv`: a path lies above the node the walk stands at (so a router's
  children on it are at most one), a walk at a router does not rotate where it is
  sealed, and a pinned child is the router's own and was handed over.
- `WaitsWerePromised`. `WaitInv` ties the wait told at the end to the notes, and
  `TargetsTried` every try to a target of the table, so no try escapes the notes.
- `TurnsAreHandedBack`, `ExhaustionLeavesNobody`, both assuming `OneDrain`.
  `DrainInv` says that only the walk being drained stands between two of its
  network waits, `LeadInv` that a descent under way leads somewhere: below the node
  it stands at somebody is left that can be attempted, and a child offered is one
  whose subtree can serve. Hence a descent ends nowhere only at the entry, and
  holds no turn there (`HeldInv`). `LeftInv` remembers why a router was spent:
  everybody in reach below it was tried or was seen standing down, which later
  steps only add to (`SawInv`). The assumption is needed; without it both are false.

Its third part is about `StreamCommit`, from `CommitAssumption`:

- `OneChildIsHeard`. `AnswerInv` says of each way a child can stand what it may have
  told and may be bounded by (`Stands`), that what the caller heard is what one child
  told, in its order (`Heard`), and that a stream committed to had begun with something
  else than a rate limit, or was over before it began (`Openings`). It is needed because
  while the walk gathers, the caller hears nothing: what a flush will tell is not yet
  visible in what was heard.

`XaiSocket`, from `SocketAssumption`, for any number of turns, targets and turns out at
once, however handshakes fail, connections close and callers leave:

- `TalksAreKeptWhole`. `SocketInv` says where a caller that waits for each answer has
  its one turn (`TalkIsInTurn`): nowhere, in line, in the lane's hands, or sent. In the
  first three the transcript is the talk and the connection that stands owes nothing
  (`BetweenTurns`); in the last what is pending, once recorded, is what the caller will have
  heard (`Carries`), and is all its connection owes (`OwesIt`). It is needed because
  between a turn sent and its answer the transcript is not the talk, and what will be
  recorded is read off the pending request and not off what the provider tells.

`EngineHostProofs`, for every set of gateways and snapshots, any number of acts,
give-ups, deaths and removals, and ports that may or may not be taken:

- `RestartsBlinkNothing`, from `HostIsTyped`, whose invariant adds that a gateway
  awaits a report only while an act of its own waits for one.
- `WindowsAreTold`, `RestartsServeTheirOwn`. `HostInv` follows a number through the
  child: what is owed and what was said of one gateway rise in number, and are told
  in that order (`NumbersRise`); the last report of a gateway, when none is to
  come, is what it serves (`LastWordIsTrue`); the report awaited fits the act that
  awaits it (`AwaitedFits`); and behind the stop of a restart, heard or not, nothing
  in the lane serves another snapshot (`RestartsClear`). An act that rests on an
  answer rested on the last number sent, so nothing of its gateway is to come but
  what a dead child no longer tells, and the three together say what serves.
- `WithPortsFreeShownIsServed`, assuming `~PortsMayBeTaken`: what
  `host_port_taken` refutes is true where no port is taken.
- `LooksWaitOnTheLiving`, `LooksAreAnsweredOnce`, about `EngineLooks`, for any number
  of looks, children and children that would not spawn. `LooksInv` adds to the desk
  and its bounds that a host without a child has nobody waiting: the next look spawns
  one, and would otherwise find looks of the last one on the desk.

About `UsageLedger`, from `LedgerAssumption`, for every set of rows and any number of
flushes, refused writes and ends:

- `ReadingsAndDiskAgree`, `DiskOnlyGoesForward`. `LedgerInv` says that one flush
  works at a time, that a snapshot taken holds all that was on disk and nothing that
  never settled, and that what is unwritten is flagged as such. A rename then adds
  to the document, and an answer that arrives while rows settled leaves them flagged.

About `TurnTraffic`, from `TrafficAssumption`, for any number of turns, children, stops
and deaths of the child, and clients that may leave at any moment:

- `TrafficIsTold` states `TurnsAreTold`, which `observed` checks at three of its settings.
  `TrafficInv` says of each turn what its walk has noted (`WalkStands`: every child it
  asked for before the one it is at, and the one it tried last is the one it asked last or
  one it did not have to ask for), whose row may still read in flight (`RowsStand`), and
  which cables it has told of (`WordsStand`); and of each cable that, where nothing on its
  way ends it, a turn that goes on has yet to tell of it (`PulsesAreCarried`). The last is
  needed because the desk trails the turns: what it reads live may be settled by a word
  still in the lane, and what a word in the lane opens may be closed by one behind it.
  Where attempts throw the cable's half is not claimed, and where an account left, that a
  cable is painted once is not (departures listed above).

`StoredProofs`, for every set of slugs, ports, definitions and gateways and any
number of requests, launches, lives, deaths and refused writes. About the documents,
from `DocumentsAssumption`:

- `ListingsStand`, `PortsAreHeldOnce`, `AnswersAreKept`. `DocsInv` says that only
  the head of the lane has listed, and that its listing is the disk. A job then
  decides from what is stored, so a port refused by the listing is refused by the
  disk, and what an earlier caller was told still stands after the write.

About the serving memory, whatever becomes of its writes:

- `QuitsKeepTheFleet`. `FleetInv` says that while the app runs what the memory was told
  last is what serves and at most what is still starting besides, and from the quit or the
  death on what served and was starting then (`FleetIsTold`); and that the disk and every
  write on its way are fleets that served together at some instant (`FleetsAreReal`). The
  first is needed because the exit of the killed child is heard after the memory closed;
  the second because nothing is known of which write the disk took last.

About the file of kept children:

- `NobodysLinesAreErased`. `KeptInv` follows the set handed over to the file: one write
  is at work, the earliest (`OneWriteAtWork`); the last one sent tells what is held, or
  another is owed (`TheLastWriteTells`); what a life holds is what it opened on and was
  handed since (`HeldIsOwed`). A writer that found nothing left to do then left the file
  as held, unless the disk refused (`RestedIsWritten`).

About `HostDesks`, from `DesksAssumption`, for any rows, gateways and room, and any number
of stops, refused starts, give-ups, removals, deaths and windows that reload:

- `DesksTell` states `DesksAreTold`, which `observed` checks at four of its settings.
  `DesksInv` adds, where the desk has room for every row (`Roomy`), that the ids it
  remembers are exactly the rows it told and hold every kept row that settled
  (`ToldAsSettled`). A desk that evicts forgets ids, so there the memory of what was told
  is in the channel: where no gateway ends (`Steady`), a row is settled by one report, and
  while that word is on its way the row was not told (`ToldByOneReport`). Where a gateway
  ends and the desk evicts, a row may be told twice (departures listed above); a run may
  hold a row that was evicted meanwhile. What a removal keeps is stated by the place of the rows
  in what was kept (`StillKept`), since nothing is known here of `SelectSeq`.

`CredentialProofs`. About `CredentialRenewal`, from `RenewalAssumption`, for every set
of turns, any number of rotations, both kinds of plan, lost answers and refused writes:

- `NothingIsSpentUnkept`. `RenewalInv` relates the three places a credential passes
  through: who waits for a renewal holds its token and waits once, who handed one to
  main waits until main answers and carries what it handed over, and whatever a turn
  bears past that point is written. It is needed because main answers the head of
  its queue and not a turn: without it an answer could free a turn whose own
  credential is still in line.
- `TheNextTokenIsNeverLost`, for a plan that is not Claude's, and `StoresNeverGoBack`, for
  either kind, but for a stamp (a departure listed above). `ChainInv` says that nobody is
  past the provider, that while an answer to a rotation is to come the provider is
  exactly one ahead of everybody and somebody waits for that answer, and that what is
  on its way to main is in the order of the chain, behind what main keeps. It is needed
  because the next token is in none of the three places by itself: the answer moves it
  into the queue only when its flight is not empty, and main may drop the head of the
  queue only when what is behind it is newer.
- `RenewalsStayKept`: the types and the first two of these in one, as the run checks them.

About the other ways a credential is kept, each from its module's assumption, for
every number of accounts, turns, plans, codes, waits and pages:

- `CustodyStaysKept`. What main keeps moves forward as above. In `CustodyRepair`, wherever a
  process ends and whatever the keychain refuses, a credential is never without a place: an
  account is carried from its slot to its home by steps in an order
  (`CarriedInOrder`), and the active one's stands in the shared item until its own home
  has it; the shared one then gets back the person's login (`BeforeSharing`,
  `AfterSharing`). Where the first part was cut between its two writes the claim exempts that
  login (a departure listed above), and says instead that the shared item goes on holding
  the active account's. In `AdoptedRenewal` the tool runs only for a credential that was
  ageing when its turn of the lane came.
- `SignInsStayTheirOwn`. `DeviceInv` has one wait at a time hold a code
  told for its plan (`WaitsAreInTurn`) and says that a code whose wait is over is forgotten
  (`OverIsForgotten`), so no second wait finds it. `BrowserInv` ties the port to the
  listener that holds it (`ListenersHoldThePort`) and each sign-in to its own
  listener (`SignInsFollowTheirListener`).
- `AccountsHoldTheirOwn`, for sign-ins through a plan's tool or a page, restores and
  activations (`SignsInOnly`: no late tool, which is a departure listed above), tools new
  and old, finished as anybody, in the keychain or out of it. `HomesInv`
  follows the one job at work in the lane from the pending home to the row: where the
  credential it brings stands at each step (`Brings`), and the one moment a home is
  already written over and its row not yet (`WrittenOver`). An account then holds the
  credential of the address it is named by, until a move between two items of the
  keychain is cut (`NothingIsCut`). Out of the keychain
  (`AccountsStandAlone`) a home's records agree with its credential and the job brings the
  one account of its address, but for accounts restored under another name (`strayed`); in
  the keychain they need not agree, and one row per address is not claimed.
- `TheChosenOneStaysStanding`, for adoptions, activations and removals, which run in
  three lanes at once (`LetsGoOnly`). `LetGoInv` says that every home on disk is of an
  account that stands, that a removal past its home finds it gone for good, and that an
  adoption still knows of every account of its address (`TaskLetsGo`). Signing in while
  another lane adopts breaks the first of these (a departure listed above), and signing
  in while another removes is outside both.

`KeyVaultProofs`, from `VaultAssumption`, for any number of rows, jobs, deaths and
refused writes, damaged registries included:

- `RestingVaultsAreReached`, `NamesStandApart`, `VaultIsTyped`. `VaultInv` follows the
  one job at work between its two writes. What it read still stands (`ReadsStillStand`:
  the rows, the name it found free, the vault until it saves), and what it saved is
  what the rows will reach once it has amended them (`ReachedOrAboutToBe`). It is
  needed because `NoSecretIsOrphaned` speaks only of an app at rest, where nothing
  says why the registry will catch up with the vault.
- `SpentKeysStand`. `RefsStandOnce`: a reference was minted once, for one entry of one
  row. What a job drops is then its own row's, and what the sweep drops nobody's.
- `SignInsOutliveJobs`. An amendment rewrites one key of the registry it finds.
- `VaultKeepsItsRegistry`: all of these together, as the run checks them.

`SpendGrants`, for every number of attempts, accounts and secrets:

- `GrantsStayLive`. `GrantsInv` says that what an attempt carries from one read to
  the next (the account its node named, the secret its row named) stood at a moment
  since it asked, and that a moment is not forgotten while the attempt is open. No
  read is of one instant, and each is of the attempt's own time.
- `GrantsAreTheNodesOwn`, from `GrantsAssumption`. `HeldInv` adds that every row names
  a secret that stands except the row a job is at work on (`RowsAreHeld`), and that the
  secret this job minted is named by no other row (`TheJobsSecretIsItsOwn`). It is
  needed because a rotation and a removal are two writes, between which a reader may
  come.

`ResponsesStreamEncodeProofs`, from `EncodeAssumption`, for every finite set of blocks,
any number of them open at once, any number of deltas, and signatures native or not:

- `ClientsReadAHubStream`: the encoder implements `HubStream` for its client, step by
  step, a pull telling the next event and a take none. Its source is only a
  `HubStream` itself, numbered and interleaved as it likes. A step of the source may
  owe the client three events, between which the client knows less than the encoder
  does, so an invariant of what both know is not enough. `EncodeInv` says that the
  events not yet pulled are due one after the other, and that a client who pulls them
  all knows what the encoder knows (`Plays`, `Matches`): which items stand open, under
  which index and as what (`Shows`), what each was told (`Lists`), and that there are
  indices left for an open text to have a second item (`Fitted`).
- `ListingsAreWhatWasTold`: an end is told alone, with no block open and nothing left
  to pull, and `Lists` then speaks of the listing the client reads.
- `EncoderIsTyped`: `TypeOK`, from the same invariant.

Only model-checked: liveness, which needs `ENABLED`; the other implementations of
`HubStream`, whose decoders fold over lists of any length and whose flushes recurse, so
that what they tell is induction over data; the tallies of `ConversationPins`, read off
a sorted and filtered list; and the modules without proofs, whose properties
the roots' runs check. `TypeOK` of a module without proofs is checked as part of
its root's properties.

## Not modelled

- The request side of dialect translation, providers other than xAI's sockets, and
  plugins: rewriting of shapes with no state between two calls.
- The Anthropic and Interactions stream decoders. Both keep state between events: one the stop
  reason, the blocks it skips and the last text block, the other whether the message began and
  ended, which blocks are open and whether a tool was seen. Their upstreams number, open and
  close their own blocks, which the decoders repeat.
- Windows, menus, tray, dock, IPC dispatch, the renderer and the site: presentation
  and forwarding. The accounts watcher, which repeats the gateway one; the settings
  store, whose writers share no lane, so that the last of two overlapping
  amendments stands alone.
- The AI Studio relay: nothing attaches a page under the account a request names
  (`gateway-websocket.ts` lets `attach` draw a random channel), so no request of the
  app goes over it.
- Updates: a wrapper over the updater library. Prices and the sums of usage: data.
- What the person does to the login of their own install while an older tool runs: a login
  made there meanwhile is taken for the tool's write and moved
  (`tool-run-sign-in.ts:71-102`). The model takes the person to leave it as it is.
- Sign-ins that run beside a removal: each is checked with the lanes of its own setting
  (`Ops`), and with adoptions beside removals and activations.
- Attribution of answers to children beyond what `TurnTraffic` paints.
- Clocks: an instant is before or after a bound, never a number of milliseconds.
- Disposal of the host at quit ends the process and is its end here.

## Plan

1. Proofs of the other refinements whose steps tell a bounded number of events.
2. An abstract request (answered, refused or thrown out exactly once) implemented by
   `AttemptWalk`, and a gateway that is down or serves one snapshot, implemented by
   `EngineHost`.
3. Other compositions of a decoder and an encoder, with the rewriters between.
4. The settings store, the accounts watcher, and the repaints of menus and tray.
