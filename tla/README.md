# Verification of external-dns-openwrt-next

TLA+ specifications, TLC runs and TLAPS proofs for the ExternalDNS webhook
provider that writes records to an OpenWrt router.

## The system and its parts

ExternalDNS, in the same pod, runs a loop: it asks the webhook for the records
the router holds (`GET /records`), lets it trim the endpoints the cluster asks
for (`POST /adjustendpoints`), compares the two and sends what is left as a
change set (`POST /records`). The webhook turns a change set into UCI calls over
ubus JSON-RPC, and mirrors what became of each record into `OpenWrtRecord`
objects on the Kubernetes API server.

| Part | Source | State it keeps | Operations | Talks to |
| --- | --- | --- | --- | --- |
| ubus client (two of them) | `pkg/ubus/ubus.go` | session, staged, under a mutex | `Call`, `Reset` | rpcd, over HTTP |
| record types | `pkg/openwrt/types.go` | none | `Key`, `canonical`, `Validate` | |
| section index | `pkg/openwrt/index.go` | the snapshot a change set decides against | `owned`, `named`, `add`, `drop`, ... | |
| `ApplyDNSRecords`, `GetDNSRecords` | `pkg/openwrt/openwrt.go` | none between calls | one pass over a change set; one read | both ubus clients |
| provider | `internal/provider/provider.go` | none | `Records`, `AdjustEndpoints`, `ApplyChanges` | openwrt, tracker |
| tracker | `internal/provider/status.go` | what the last runs showed of each record, under a mutex | `observeRecords`, `observeDesired`, `observeApply` | syncer, by callback |
| syncer | `pkg/status/syncer.go` | the newest snapshot, under a mutex; a channel of one | `Publish`, `Run` | API server |
| status client | `pkg/status/client.go` | none | `list`, `apply`, `remove` | API server |
| webhook | `pkg/webhook/webhook.go` | `applyMu` | the four routes | provider, metrics |
| router and `main` | `pkg/router/router.go`, `cmd/webhook/main.go` | two listeners, the syncer goroutine | start, serve, shut down | all of them |
| metrics | `pkg/metrics/metrics.go` | the series, under a mutex | `Inc`, `Add`, `Set`, the scrape | |
| logger, config | `pkg/logger`, `pkg/config` | none after the start | | |
| wire types | `pkg/webhookapi` | none | JSON | |
| rpcd, ExternalDNS | not in the repository | sessions and staged changes; the cluster's wishes | `uci` calls; a run on a timer | |
| chart, scripts, CI | `charts`, `hack`, `.github` | | | |

Everything the program keeps is in memory. What survives a restart is on the
router (the sections and their ownership markers) and on the API server.

### What is hard about it

- **Atomicity over a network.** A change set is a dozen HTTP requests and has to
  take effect whole or not at all. What makes it so is rpcd's per-session staging
  together with three decisions in the client: a session with staged changes is
  never replaced, a failed change set forgets its session, and the decisions are
  made on a reading through the writing session.
- **Answers that get lost.** A change set that was committed may be reported as
  failed, and is sent again.
- **Safety of a shared daemon.** A CNAME loop or a second CNAME for an alias stops
  dnsmasq, and with it name resolution for the network; a CNAME hides an A record.
  Both depend on everything in the file, not only on the provider's own records.
- **Concurrency.** ExternalDNS gives up on slow requests; their handlers run on.
  Readings, change sets, tracker updates, publications and the syncer's pass
  overlap. A mutex each for the client, the change sets, the tracker, the syncer and the metrics, a
  channel of one and a callback order them.
- **Callers that stall.** No timeout covers a request's body, and a caller may leave at any
  time: a change set must go on without it, and nobody may wait for a body.
- **Shared objects.** Another instance may use the namespace of the mirror, and people edit
  objects by hand; between a pass's list and its writes both go unseen.
- **A control loop.** No step is retried by the webhook itself; convergence is left
  to ExternalDNS' next run, planned on what the router answers then.
- **Shutdown.** Two servers, a goroutine that writes to the API server, a budget,
  and signals that may arrive at any time.

### What makes each part correct

| Part | Properties |
| --- | --- |
| `ApplyDNSRecords` | it implements `ChangeSets` (`Promise`); no staged change survives the change set it is of (`StagedIsIssued`); dnsmasq starts (`DnsmasqStarts`) and hides nothing (`NoneHidden`); it restarts dnsmasq only if it has to (`AppliesOnlyIfNeeded`); it reports as skipped just what is missing (`SkippedIsMissing`); it returns (`ChangeSetReturns`); with nobody else writing it leaves others' sections alone (`ForeignSectionsKept`) and adds no second CNAME (`NoSecondCNAME`), and whoever writes, no section it adds takes the place of another (`AddsReplaceNothing`) |
| section index | the loop search terminates (`Ends`) with the right answer (`AnswersRight`) |
| ubus client | callers share one login (`NoLoginWasted`), an apply commits what was staged (`AppliesWhatWasStaged`), the client never takes a session that holds changes for one that holds none (`StagedNeverMissed`), every call returns (`CallReturns`) |
| provider | no plan jams the loop (`NeverJams`), the loop converges (`Converges`) |
| webhook | change sets take turns (`OneAtATime`), each is carried out although its caller has left (`ChangeSetIsApplied`), readings wait for none (`ReadingIsAnswered`), `applyMu` is held exactly while a change set runs (`LoopTypeOK`, `TypeOK`) |
| metrics | the counters of a change set agree (`MetricsAgree`), the time of the last success does not go back (`LastSuccessIsLast`) |
| tracker | what it shows is true (`ReadyIsTrueAgain`, `MirrorSettles`) and current (`ReasonIsLast`) |
| syncer, status client | no snapshot is lost (`NoSnapshotForgotten`), transition times are kept (`SinceKept`), others' objects too (`OthersKept`), the objects catch up (`MirrorCatchesUp`) |
| router, `main` | a clean exit has cut nothing off (`NothingCutOff`), the process ends when it should (`EndsOnSignal`, `EndsWithListener`), and a request publishes to a syncer that is gone only in a process that reports a failure or an abandoned change set (`PublishesBeforeGone`) |

`PROJECT.json` lists the hazards behind these, each at its line.

## The modules

```
DnsRecords <- SectionIndex <- Rpcd <- OpenWrt <-----------+
                  ^   ^                 | implements       \
                  |   +- ChangeSets <---+                   Reconcile
                  +- CnameLoop                              /
                  +- Provider <- ExternalDns <-------------+
Metrics <- Webhook        UbusClient        Tracker        Syncer        Lifecycle
```

Pure parts, without variables:

- **`DnsRecords`** (`types.go`): a record's canonical form, key and `Validate`.
  Names are model values; `Canon` maps each to its spelling in lower case and
  without a final dot, and `BadName`, `IPv4`, `IPv6` are the classes `Validate`
  tells apart.
- **`SectionIndex`** (`index.go`): a router's `dhcp` configuration is a function
  from section names to records; `newSectionIndex`, `owned`, `unowned`, `named`,
  `add`, `drop`, `markOwned` and `closesCNAMELoop`, and what dnsmasq needs
  (`Startable`, `NothingHidden`). `Loop` says there is a nonempty set of CNAMEs each of
  which leads to another of the set, a definition without recursion, so theorems can be stated
  about it. `closesCNAMELoop` is defined by the sets closed under CNAMEs, and
  `CnameLoop` shows that the search in the code answers the same.
- **`Rpcd`** (external): staging. What a session has staged is a function from
  sections to changes; `apply` replays it on what is committed by then.
- **`Provider`** (`provider.go`): `Records`, `AdjustEndpoints`, and what `ApplyChanges` makes of a plan
  (`PlanRemoves`, `PlanAdds`, `cancelOut`), on endpoints. `Passing` is a loop that appends what passes a test,
  written with `FlattenSeq` rather than `SelectSeq`, which is recursive and cannot be reasoned about here.
- **`Metrics`** (`metrics.go`): the registry as a function from the series there are to their values.
  A negative delta is ignored; a series is there from its first update on. `AddEach` is a loop of `Add` over
  labels: one series after another, none twice, so their order leaves no trace.
- **`ExternalDns`** (external): the plan, as `provider.go` and `types.go` describe it.

State machines:

- **`ChangeSets`** is the abstract specification of `ApplyDNSRecords`: a change
  set takes effect on the committed sections in one step and as a whole, or not at
  all. `TakesEffect` is written from the promises of the README and the comments,
  not from the loops of the code, and so leaves open which unowned section is adopted
  and which name a new one gets.
- **`OpenWrt`** is the code: `pc` says in which loop `ApplyDNSRecords` is or for
  which `uci` call it waits. One action per decision of the loops (`RemoveRecord`,
  `AlreadyPresent`, `AdoptRecord`, `SkipRecord`, `CreateSection`, ...), one per
  answer (`Read`, `Deleted`, `Adopted`, `Created`, `Applied`), and the
  failures: `LoginFails`, `Denied` (the session is gone, or lacks the ACL),
  `CallFails`, `AnswerLost` (done by the router, not heard of), `Expire`, `Restart`.
  `Fail` is the deferred `Reset` with the return. `Promise` maps `busy` to
  `pc # "idle"` and the other variables of `ChangeSets` to those of the same name.
- **`CnameLoop`**: `closesCNAMELoop` step by step, with its `next` and `seen`. The code
  pops names in a fixed order, the module in any: the answer must not depend on it.
- **`UbusClient`**: the same client below `Call`, with any number of goroutines in
  `login`, `call`, `isStaged`, `forget`, `track` and `Reset`. `mu` is a variable
  because a login holds it over a request; the other sections are single steps
  that wait until it is free. `writer` chooses which of the provider's two clients it is: the one
  shared by readers, or the one with a single user that stages and applies.
- **`Reconcile`** composes `OpenWrt`, `Provider` and `ExternalDns` with the webhook's
  `applyMu`: runs of ExternalDNS, change sets waiting for the mutex, callers that give up, edits
  by hand, a changing cluster. `Holds` says when a router holds what is asked for.
- **`Tracker`** (`provider/status.go`) with the requests that feed it. The
  router is abstracted to the set of targets each name and type has, a change set
  to its effect on those (what `ChangeSets` promises); the point of the module is when
  the tracker hears of what.
- **`Webhook`** (`webhook.go`, `logRequests` of `router.go`): one handler per request, with `stage` for
  the place it is at: decoding a body, reading, waiting for `applyMu`, with the provider, between the
  result and the time of the last success, or about to be counted. Each route has its rejections
  (404, 406, 415, 400, 413). A route goes by the name of its handler. Callers leave or stop in the middle of a body; the router may be down. The
  provider is external here: `Records` has its caller's context, `ApplyChanges` has not.
- **`Syncer`** (`syncer.go`, `client.go`): `Publish` in its two statements, `Run`
  with a pass as one list and one call per object, any of which may fail. An object has
  the label of an owner: `List` selects this instance's, an apply takes over whatever has the name
  (server-side apply with force), a remove goes by the name alone. `limit` is how many objects fit into
  the 4 MiB the client reads of an answer.
- **`Lifecycle`** (`main.go`, `router.go`): main with its deferred calls, the two
  listeners, `Router.Run`, handlers, the syncer's goroutine, signals, the budget.

`MC*` modules give the constants their values. The `*Proofs` modules hold the
theorems. Definitions marked `Mutant` in a comment are wrong on purpose; no
specification uses them. They are there to show that a property fails if the code
were changed that way (the `mutants` of `PROJECT.json`).

### Abstractions

- A name, an address, an ID is a model value. Lengths, characters and the case mapping are
  in `Canon`, `BadName`, `Wildcard`. JSON, logging and wording are left out.
- rpcd serves requests in the order in which they arrive, so a request that timed out has been
  served, or never will be, by the time the next is answered.
- A new section's random name is a section nobody has or has staged (openwrt.go:339-369).
  Section names do not change; uci's anonymous names do when another section goes.
- `GET /records` that fails changes nothing and is left out of the loop modules; `Webhook` has it.
- The labels of a metric are the ones its updates tell apart; the text a scrape prints is left out.
- An object stands for one record: `objectName` is taken to tell them apart.
- ExternalDNS hands out one endpoint per name and no target twice.
- The clock of `Syncer` ticks at any time or not at all.

## The runs

Twelve runs, nine that pass and three that end in a counterexample to something a
comment or the README says.

| Run | Specification | Shows |
| --- | --- | --- |
| `apply` | `OpenWrt!Spec`, with an ownership ID | one change set after another on three initial routers, with failures anywhere: `Promise`, `StagedIsIssued`, `DnsmasqStarts`, `NoneHidden`, `AppliesOnlyIfNeeded`, `SkippedIsMissing` |
| `apply_unmarked` | `OpenWrt!FairSpec`, without one | `Promise` for a provider that marks nothing and owns every record it finds, and that every change set returns |
| `adoption_race` | `OpenWrt!SharedSpec` | *violation*: another instance's section is marked over |
| `alias_race` | `OpenWrt!SharedSpec` | *violation*: a second CNAME for an alias |
| `cname_loop` | `CnameLoop!Spec` | the search answers right and ends, from every index of three sections |
| `ubus_client` | `UbusClient!FairSpec` | two goroutines in one client, or one that stages: one login per expiry, an apply commits what was staged, `staged` is set whenever the session holds something, every call returns |
| `reconcile` | `Reconcile!FairLoopSpec` | the loop around the router converges, no plan jams it, and no section it adds takes the place of another's |
| `webhook` | `Webhook!FairSpec` | two requests of any route side by side: change sets take turns and are carried out, readings wait for none, and the metrics agree |
| `status` | `Tracker!FairSpec` | what the mirror is told is true again after every disturbance |
| `status_stale` | `Tracker!Spec` | *violation*: a deleted record is shown as Ready |
| `mirror` | `Syncer!FairSpec` | no snapshot is lost, the objects catch up, transition times and others' objects are kept |
| `lifecycle` | `Lifecycle!FairSpec` | nothing is cut off unsaid, the process ends, and what publishes to a syncer that is gone says so by its exit |

### Bounds

- `apply`: three names, one of them in two spellings, which is what a loop through the
  router, a chain and a conflict between an A record and a CNAME need; four sections (three
  to start with and room for those that are created); two session ids, so a session left
  behind with staged changes exists beside the current one; two owners and none. Eleven
  change sets cover each decision of `addRecord` and `removeRecord` and the pairs
  within one change set that interact: one alias twice, a loop closed at once or
  through the router, an A record and a CNAME of one name in either order, an update
  by delete and add, a record that is refused after one that is staged. Sections and sessions are
  symmetric. `apply_unmarked` checks liveness and so uses no symmetry; it starts from one router and
  leaves out change sets that differ only in what they remove.
- `cname_loop`: all graphs with up to three CNAMEs on three names, loops and forks included, and all
  pairs of an alias and a target, one in another spelling.
- `ubus_client`: two callers are enough for one to throw away or wait for the other's
  login; three ids let a session that is refused, one that is lost and the current one
  exist together. Ids are used again once nobody remembers them.
- `reconcile`: two things go wrong (`MaxTrouble`), which is what a lost answer followed by a
  stale plan, or an abandoned change set behind a restart, takes. Six sections: two to start
  with, two that may be added by hand, two that a change set creates. The cluster asks for
  several targets beside records that cannot be written, for an alias in another spelling with a TTL
  and a set identifier, or for aliases in a loop.
- `webhook`: two requests are enough for one to be waited for, overtaken or counted beside another,
  and eleven that may be asked cover every route with every way to be rejected. The clock has two
  values, one for each of two successes; the gauge of records has two.
- `status`, `mirror`: two records or objects, three disturbances, three wishes or snapshots. The
  clock of `Syncer` has two values: the time an object has and a later one. A list holds one
  object of this instance or both (`Limit`), so one snapshot overfills it and another does not.
- `lifecycle`: two requests; everything else is finite in the program.

`CHECK_DEADLOCK FALSE` stands only in `MCCnameLoop.cfg`: a search that has ended does
nothing more. `Lifecycle` has an explicit step for the process that has exited.

### Fairness

- `OpenWrt`, `WF(Step)`: each step is local or waits for an HTTP request, and the client has a
  timeout (ubus.go:123-129) that must be positive (openwrt.go:48-51; Go takes 0 for none), so a request is
  answered or fails.
- `UbusClient`, `WF(Answering)` for that reason, and `SF(Locking)` because a Go mutex hands
  itself to a waiter that has starved, however often others take it.
- `Reconcile`: weak fairness for ExternalDNS (a timer), `Lock` (the mutex), `Apply` (as
  above) and `AbandonedEnds` (rpcd ends sessions that are not used). Nothing is assumed about
  what goes wrong, except that it does so `MaxTrouble` times at most: liveness is what
  follows once it has stopped.
- `Webhook`: weak fairness for each request's handler (`Handle`): it is local, waits for the mutex, which comes to
  everybody who waits, or reads the router, with a timeout. A body that stalls is outside of
  it, and so is `ApplyChanges`: `ReadingIsAnswered` holds while a change set hangs for ever, and
  `ChangeSetIsApplied` has the return of change sets, which `ChangeSetReturns` shows, as its premise.
- `Tracker`: handlers go on, ExternalDNS runs on a timer.
- `Syncer`: the tracker publishes on every run of ExternalDNS (`Replace`, `Kick`), and each call
  of the status client has a timeout (client.go), so `Run` goes on.
- `Lifecycle`: main, the listeners' goroutines and the syncer go on if they can, and time passes
  (`Expire`). Handlers are not fair: one may hang for ever, and `EndsOnSignal` must hold
  all the same.

## The proofs

TLAPS checks thirty-nine theorems in eight modules, for every value of the constants. They assume only the
named assumptions of the modules (`NameAssumption` and the like, all of which
TLC evaluates in some run) and, where the table says so, one of two more:

- `SafeAtStart`: dnsmasq starts on every initial router and no record of it is hidden.
- `Handmade = {}`: nobody else writes to the router. This is what `Spec` says of `OpenWrt`, where `SharedSpec`
  has other writers; `Reconcile` has one specification for both, and other writers are a constant.

| Theorem | Says | By |
| --- | --- | --- |
| `OpenWrtProofs!TypeCorrect` | `SharedSpec => []TypeOK` | `TypeInv == TypeOK /\ Waiting`: a call that names a section is made with one, and one that adds a record has one to add |
| `OpenWrtProofs!StagedIsIssuedAlways` | `SharedSpec => []StagedIsIssued` | `StagingInv` |
| `OpenWrtProofs!NothingIsReplaced` | `SharedSpec => AddsReplaceNothing` | `AddInv` |
| `OpenWrtProofs!DnsmasqAlwaysStarts` | `SafeAtStart` implies `Spec => []DnsmasqStarts` | `IndexInv`, `SoundInv` |
| `OpenWrtProofs!NothingIsEverHidden` | `SafeAtStart` implies `Spec => []NoneHidden` | `IndexInv`, `SoundInv` |
| `OpenWrtProofs!KeepsPromise` | `Spec => Promise`: `OpenWrt` implements `ChangeSets` | `ChangeSetInv` |
| `OpenWrtProofs!SkippedIsMissingAlways` | `Spec => SkippedIsMissing` | `ChangeSetInv` |
| `OpenWrtProofs!AppliesOnlyIfNeededAlways` | `Spec => []AppliesOnlyIfNeeded` | `ChangeSetInv`, `NeedInv` in it |
| `OpenWrtProofs!ForeignSectionsAreKept` | `Spec => ForeignSectionsKept` | `ChangeSetInv` |
| `OpenWrtProofs!AliasesStaySingle` | `Spec => NoSecondCNAME` | `ChangeSetInv`, `AliasInv` |
| `ReconcileProofs!LoopTypeCorrect` | `LoopSpec => []LoopTypeOK` | `PlannedInv` |
| `ReconcileProofs!NothingJams` | `LoopSpec => []NeverJams` | `PlannedInv` |
| `ReconcileProofs!LoopStagesItsOwn` | `LoopSpec => []StagedIsIssued` | `PlannedInv`, `StagingInv` |
| `ReconcileProofs!LoopReplacesNothing` | `LoopSpec => AddsReplaceNothing` | `PlannedInv`, `AddInv` |
| `ReconcileProofs!OnePlanSuffices` | what a plan leads to makes any router hold what it was made for | `PlanOfKey`, `KeyAfterPlan` |
| `ReconcileProofs!NothingPostedIsNothingMissing` | a plan leads to no change if and only if each record is there as often as it is asked for | `PostedKeys` |
| `ReconcileProofs!LoopStarts` | `Handmade = {}` and `SafeAtStart` imply `LoopSpec => [](DnsmasqStarts /\ NoneHidden)` | `PlannedInv`, `ChangeSetInv`, `SoundInv` |
| `ReconcileProofs!LoopChangeSets` | `Handmade = {}` implies `LoopSpec => []AppliesOnlyIfNeeded /\ SkippedIsMissing /\ ForeignSectionsKept` | `PlannedInv`, `ChangeSetInv` |
| `ReconcileProofs!OneChangeSetConverges` | `Handmade = {}` implies: a change set that succeeds, with a plan not out of date, leaves the router `Reconciled` | those, `OnePlanSuffices` |
| `CnameLoopProofs!SearchIsRight` | `Spec => []AnswersRight` | `SearchInv` |
| `UbusClientProofs!ClientTypes` | `Spec => []TypeOK` | `ClientInv` |
| `UbusClientProofs!LoginsAreShared` | `Spec => []NoLoginWasted` | `ClientInv` |
| `UbusClientProofs!ApplyIsWhole` | `Spec => []AppliesWhatWasStaged` | `ClientInv` |
| `UbusClientProofs!StagedIsKnown` | `Spec => []StagedNeverMissed` | `ClientInv` |
| `WebhookProofs!ChangeSetsTakeTurns` | `Spec => []OneAtATime` | `LockInv` |
| `WebhookProofs!WebhookTypes` | `Spec => []TypeOK` | `TypeInv` |
| `WebhookProofs!LastSuccessIsKept` | `Spec => []LastSuccessIsLast` | `StampInv` |
| `WebhookProofs!ResultsAlwaysAgree` | `Spec => []ResultsAgree`, half of `MetricsAgree` | `RouteInv`, `CountInv` |
| `WebhookProofs!MetricsAlwaysAgree` | `Spec => []MetricsAgree` | `RouteInv`, `CountInv`, `PlanInv` |
| `TrackerProofs!TrackerTypes` | `Spec => []TypeOK` | `TrackerInv` |
| `TrackerProofs!ReasonIsAlwaysLast` | `Spec => []ReasonIsLast` | `TrackerInv` |
| `TrackerProofs!ReadyIsTrueAgainAlways` | `Spec => []ReadyIsTrueAgain` | `SoleInv`, `ReadyInv` |
| `SyncerProofs!SnapshotNeverForgotten` | `Spec => []NoSnapshotForgotten` | the invariant is inductive |
| `SyncerProofs!SyncerTypes` | `Spec => []TypeOK` | `SyncerInv` |
| `SyncerProofs!TimesAreKept` | `Spec => SinceKept` | `SyncerInv` |
| `SyncerProofs!OthersAreKept` | `Spec => OthersKept` | `SyncerInv` |
| `LifecycleProofs!TypeCorrect` | `Spec => []TypeOK` with the wait for the syncer | `LifeInv` |
| `LifecycleProofs!NothingIsCutOff` | `Spec => []NothingCutOff` | `LifeInv` |
| `LifecycleProofs!NonePublishesUnsaid` | `Spec => PublishesBeforeGone` | `LifeInv` |

**Atomicity** (`StagingInv`). `StagedIsIssued` alone is not inductive: a session that
expires and is replaced would have nothing staged while the change set has issued something. The
strengthening says that whoever has issued something has `staged` set, a session, and
`changed` above zero. `Denied` then fails instead of replacing the session, and every failure
resets. This holds with other writers too, hence for `SharedSpec`: the proof does not
look at what is committed.

**Names of new sections** (`AddInv`). Who has staged a new section under a name has it to itself: the
name is free in the file and no other session has staged anything under it. An apply therefore
replays an addition on nothing, and whatever else it replays changes the marker or deletes. It holds
with other writers, and rests on what `Rpcd` takes a random name for: one that nobody has.

**The index** (`IndexInv`). With nobody else writing, the index at hand is the router's sections as
this change set would leave them (`index = newSectionIndex(View(dhcp, issued))`), and all that is
issued is this provider's own kind of change. So what `addRecord` and `removeRecord` decide on the
index is decided on what the apply will commit. The first conjunct is false as soon as
somebody else commits between `Read` and `Applied`; the theorems that rest on it are therefore about `Spec`.
`ForeignSectionsKept` and `NoSecondCNAME` are the two sides of that: proved for a sole writer,
and refuted by `adoption_race` and `alias_race` for `SharedSpec`.

**Safety of dnsmasq** (`SoundInv`). Both the index and what is committed are sound.
The heart is in the lemmas about the index: adding a CNAME which `closesCNAMELoop`
does not find to close a loop closes none (`NoCNAMELoop` is preserved), deleting or marking a
section never harms. A loop is the set of its aliases there, so no induction
on paths is needed.
`SafeAtStart` is needed because the provider repairs nothing: a router that starts with a loop keeps it.
Only the theorems about `DnsmasqStarts` and `NoneHidden` need it. `AliasInv` is the part that goes without: if no alias has two CNAMEs
on the router, none has in the index.

**The refinement** (`ChangeSetInv == TypeInv /\ StagingInv /\ IndexInv /\ WorkInv`). `KeepsPromise`
maps each step to a step of `ChangeSets` or a stutter; the step that matters is the apply, where
`TakesEffect` has to be shown of all that the loops have done. `WorkInv` says, at every place
of `ApplyDNSRecords`, how much of that is done:

- `LoopInv`: what is still to be removed and added, and for each call what was decided before it is made;
- `RemovalInv`: each removal is either still to come or nothing of its key is owned any more, and once the
  additions have begun, only one section of that key may be owned, and only if it was asked for;
- `AdditionInv`: each addition is still to come, owned, or skipped, and what is skipped is neither owned
  nor can be adopted, and a section is in its way (`InTheWay`);
- `Due`: each change issued is one the contract allows for the section as it is committed: what is
  deleted has the key of a removal and is owned, what is marked was unmarked and is asked for,
  what is created is asked for, and is the one owned section of its key;
- `NeedInv`: what is created was not in anybody's way on the router, unless the change set deletes.

Two lemmas carry the hard case, a record refused for a section that goes on changing afterwards:
adding or marking a section only ever puts more in the way (`ExtensionStaysInTheWay`), and what
`addRecord` refuses has something in the way (`RefusedIsInTheWay`). When the last loop ends, `WorkInv` is
`TakesEffect` (`WholeChangeSet`); a change set that changed nothing takes effect
without an apply (`NothingTakesEffect`). `SkippedIsMissing` is `AdditionInv` read at the end, and
`AppliesOnlyIfNeeded` is `NeedInv` with `Due`: a change set that the router already holds has nothing to issue.

**The loop's change sets** (`PlannedInv`). The lemmas about `OpenWrt` are about its steps, of which
`SoleNext` is those of the provider and the router, `AnyNext` adds another writer's `Edit`, and both start on any
change set (`AnyReceive`), where `Spec` takes one of `ChangeSet`. Every step of the loop is one of
`AnyNext` or leaves the router alone (`LoopIsAny`), and one of `SoleNext` if nobody else writes
(`LoopIsSole`). So what is an invariant of one change set after another is one of the loop, whoever posted a
change set and however old the answer is it was planned on, as soon as its lists hold records: that is what
`LoopTypeOK` gives. `NeverJams` says nothing of the change sets that wait; `PlannedInv` adds that they, too,
hold only records `Validate` accepts, and that an answer of `Records` is a finite set.

**One plan is enough.** Fix a key. `AdjustEndpoints` leaves at most one endpoint whose records may have it, since
the cluster asks for one per name (`WantedOnce`), and `Records` groups the sections of one name and type
(`RecordsRows`), so at most one row of the plan is about it. Either the row stays, and the router has the key in as
many sections as it is asked for, or all of those are removed and all that is asked for is added (`PlanOfKey`).
`cancelOut` drops a key exactly if the two counts are the same, so the change set has a key exactly if the
router has it too often or not often enough (`PostedKeys`). A change set that takes effect as `ChangeSets`
promises then leaves one section of every key that is asked for, or something in its way, and none of any
other (`KeyAfterPlan`, `KeysHold`). Nothing is assumed of the router: it may have a record twice, in two spellings,
unmarked or another instance's. `OneChangeSetConverges` puts this together with the proof of
`ChangeSets`; its premise `UpToDate` is that the change set is the one which would be planned now.
What is left to `Converges` is that such a change set comes about and succeeds.

**Lists.** These lemmas are about sequences of sequences, which `FlattenSeq` defines by recursion. `FlattenPlaces`
says what the proofs need: the places of `FlattenSeq(lists)` and the places in the members of `lists` correspond
one to one, so elements and how often each is there are kept. It is shown without induction over an operator:
the number of lists up to which it holds is a set of numbers (`Numbers`), and a set of
numbers has a smallest (`Smallest`, from the well-foundedness of the subsets of a finite set).

**The search** (`SearchInv`). What has been seen leads only to what has been seen or is
still to be looked at, everything there is reached from the target, and the alias has not been seen. When nothing
is left to look at, what has been seen is a closed set without the alias.

**The client** (`ClientInv`). A caller that is logging in holds `mu`, and the client has no
session meanwhile (`LoginInv`); what a session has staged ends with it (`SessionInv`). A client that is
read through stages nothing, so that a caller about to forget a session was refused with it: `forget`
throws away the session it was refused with and no other (`ReaderInv`). A client that is
written through has one user, and until a call of it fails its session holds what was
issued since the last apply, with `staged` set as soon as a call that stages has been
tracked (`WriterInv`). The case that needs it is a call that is refused: `staged` false then means that nothing
was issued, and a fresh session loses nothing.

**Turns** (`LockInv`). A handler is between `applyMu.Lock` and the deferred unlock exactly while
`applyMu` is its own; each step of a handler stays on its side of that line, takes the
mutex or gives it back.

**The last success** (`StampInv`). Unless a change set has succeeded and not yet said so, the gauge is at
least the time of the last success. A success is stamped before the mutex is given back, so
no other can get in between, and the clock does not go back.

**The results** (`CountInv`). Each counter is the number of the requests it counts: those
answered with 204 or 500 on this route, and those whose change set is known to have succeeded or failed. A step
moves one request, and with it adds one to a counter and one element to the set (`OnlyOneSteps`).
`RouteInv` keeps what is counted on the route of change sets. `PlanInv` is the same for what was planned: the counter
of an action is the number of pairs of a request whose body was read and a change it asked for. So the sum
over requests that `MetricsAgree` speaks of is the size of a set, and one request's change set adds its own
pairs to it.

**Reasons** (`TrackerInv`). What the tracker holds of failures and conflicts is what became of the last change
set, except for the records the change set under way carries (`ReasonInv`): it has been noted what became of
those, and the tracker hears of it only later. A process that has published has seen both the
router and what is asked for, so that everything it hears of after that is published at once (`ShownInv`).

**True again** (`SoleInv`, `ReadyInv`). `ReadyIsTrueAgain` is about a run of ExternalDNS that shares the
webhook with no abandoned request. `SoleInv` says what is so during such a run: there is one
request at most, the one the run waits for; what the tracker took for actual is what the router
holds, unless it has just restarted; and the change set is the plan between that and what is
desired. A change set of that kind ends with the tracker told of its whole effect
(`EffectIsTold`), so that what is then shown as Ready is so (`ReadyInv`). Neither is inductive without
`TrackerInv`, nor `ReadyInv` without `SoleInv`: a plan made on an older reading changes what is not shown.

**A pass** (`PassInv`, with types `SyncerInv`). What was listed is of this instance, what is applied is wanted,
what is removed was listed. An object that is still to be applied has the time it was listed with or
had it taken away by hand, since nobody else writes this instance's objects: so the apply, which
goes by the list, puts back what there was. Between list and write another instance may have
taken the name; that is the case `OthersKept` leaves open.

**The exit** (`LifeInv`). `exit = "none"` until main leaves its select or a shutdown, and
is `"ok"` afterwards only if no handler was busy when the first shutdown returned; from then on
the API listener accepts nothing. `StoppedByFailure` adds that a message from a
listener, while main has not begun to shut down, is an error. A handler that is busy once the syncer is
gone therefore belongs to an exit that is not `"ok"`.

Left to TLC:

- Liveness (`ChangeSetReturns`, `Ends`, `CallReturns`, `Converges`, `ReadingIsAnswered`,
  `ChangeSetIsApplied`, `MirrorSettles`, `MirrorCatchesUp`, `EndsOnSignal`, `EndsWithListener`), which the prover
  does not reach.

Every invariant and every action property of a passing run is a theorem.
The large strengthenings (`WorkInv`, `SoleInv`, `ReadyInv`, `PlannedInv`) and what `OneChangeSetConverges` says
were checked by TLC on the instances of the runs before they were proved; those runs are not kept, since the
proofs say more. The theorems about plans rest on `ExternalDns`, which is external: they are as good as what
`provider.go` and `types.go` say of the plan.

## What the code does and its documents do not say

1. **`adoption_race`**, `ForeignSectionsKept`. A change set decides to adopt an unmarked section on
   the reading it began with. If another instance marks the section before the apply, the staged `set`
   replaces its mark. README.md:292 says a section owned by another ID is never adopted.
2. **`alias_race`**, `NoSecondCNAME`. In the same window another instance may commit a CNAME for the
   alias; the apply adds a second one. README.md:299-300 says it is skipped. dnsmasq does not start on the result.
3. **`status_stale`**, `ReadyIsTrue`. After ExternalDNS has given up on a change set, the reading of its
   next run can be older than the change set and reach the tracker after it. A record that was
   deleted is shown as Ready until the next run (README.md:463). `ReadyIsTrueAgain`
   shows that one undisturbed run repairs it.

Others, which are no violations of a run's property but which the models made plain:

- The deferred cancel of the syncer also runs when the shutdown timed out or a listener failed, with handlers
  still running: one may publish to a syncer that has returned. main.go:53-54 says none does.
  `PublishesBeforeGone` says how far that goes: only in a process that exits with a failure or reports an
  abandoned change set. A snapshot is lost and nothing blocks.
- Two instances with distinct IDs "never delete each other's" objects (client.go:35-36), because a list asks for one ID's. Between
  the list and the write another instance can take a name over, and an apply is forced: `OthersKept` is what
  remains, that this happens only under a name that is wanted or was this instance's when listed.
- An empty ownership ID is labelled `none`, so it is one instance with an ID that is spelled `none`.
- An object whose label was taken away by hand and whose record is no longer wanted stays: no list finds it.
- With more objects than fit into the 4 MiB the client reads of an answer, every list fails to decode,
  and the passes that would remove some as well: `MirrorCatchesUp` excepts it (`Overfull`).
- The time of the last success is set for a change set that had nothing to write, and not for one whose
  answer from the router was lost. Two readings that overlap may leave the gauge of records at the older one.
- An apply that answers with no data is a success (openwrt.go:220-224), but `Call`
  returns that before `track` (ubus.go:182), so `staged` stays set on a session that
  holds nothing. When that session expires the next change set fails once more than it has to;
  ExternalDNS sends it again. `Applied` has this, `Converges` holds all the same, and
  `StagedNeverMissed` shows that the client errs on this side only.

## What is not modelled

- **logger, config, chart, scripts, CI**: no state the program reads back; `config` is read once.
- **Wire formats**: JSON-RPC and REST encoding, TLS, tokens, the exposition format. That an answer
  or a body may be too long or not decode is modelled by its outcome.
- **Anonymous sections** that uci renames when another goes. `Rpcd` gives every
  section a name that stays: how uci makes up names is not in the repository, and a call for a name that
  is gone is an error, which `CallFails` has.
- **Two records with one object name** (`objectName`): it keeps records apart that differ in more than case.
- **Other provider operations in the same process**: `Negotiate` and the probes keep no state.
- **An edit of an object's state by hand** between a pass's list and its write: `SinceKept`
  excepts it, because the pass then writes the time that goes with what it listed.
- **Writes to the API server that arrive after a restart**: a call is done when it returns, or never.

## Plan

Done, in this order: `DnsRecords`, `SectionIndex`, `Rpcd`, `OpenWrt` with its first theorems; `ChangeSets` and the
refinement; `CnameLoop`; `UbusClient`; `Provider`, `ExternalDns`, `Reconcile`; `Tracker`;
`Syncer`; `Lifecycle`; `Metrics` and `Webhook`; two instances in one namespace and the limit of a list in
`Syncer`; the proofs of `UbusClient`, `Webhook`, `Tracker` and `Syncer`; that `OpenWrt` implements `ChangeSets`, and what follows
for a sole writer; `ReadyIsTrueAgain`, `LastSuccessIsLast`, `MetricsAgree`, `AddsReplaceNothing`; the types of the
loop, that no plan jams it, that one plan is enough, and that what is proved of `OpenWrt` holds within it.

Next:

1. Proofs: what a second writer cannot break, that is the part of `ChangeSetInv` which holds for `SharedSpec`.
2. `Tracker` with `Syncer`: the snapshots `Tracker` publishes written by `Syncer`, so that the
   objects come to say what is so of the router, through restarts of both.
