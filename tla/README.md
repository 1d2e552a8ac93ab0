# Rutilus: a verification project

Rutilus manages servers through the Redfish interface of their BMCs. An operator
submits a write (power, BIOS, accounts, firmware...). A *site* process sends it to
the BMC, follows the BMC's Task if there is one, and records what became of it. A
*center* process dispatches writes to sites over a connection that may break at any
time. The program promises that a write is never sent twice, that its recorded
outcome is honest ("succeeded", "failed" or "unknown"), and that the center's
record agrees with the site's. Around that core a site is bound to its center with a
one-time code, uploads firmware artifacts and distributes them to the center, and both
have a console with sessions. This directory models these subsystems, model-checks them
with TLC and proves their safety properties with TLAPS for every value of the constants.

## 1. Inventory

| Part | State | Operations | What is hard | Correct when |
|---|---|---|---|---|
| Operation lifecycle (`domain/src/operation.rs`, `operation-engine`) | a row's state | create, apply (read, then write), compare-and-set apply | the read and the write are two store calls | only legal transitions are ever stored |
| Executor (`application/src/operation_executor.rs`) | none in memory that matters; the store's rows and audit facts | execute, recover | a crash or failed call between any two writes; a write whose response is lost | at most one send; no false verdict |
| Task monitor (`task_monitor.rs`) | Task rows | poll, verify, decide | deferred polls, Tasks the BMC drops, a crash after the stored observation | no waiting operation is stranded |
| Scheduler (`app/src/scheduler.rs`) | the tick's listing, endpoint permits | tick, drive | stale listing, bounded concurrency, the permit | writes of one endpoint are serial; nothing starves |
| Site sync (`application/src/center_sync.rs`) | inbox, outbox, progress map | handle offer, report, flush, acknowledge | crash between two of a handler's writes, redelivery, restarts that lose the map | every finished operation is reported; an offer is decided once |
| Center dispatch (`application/src/center/dispatch.rs`) | tracking records, offers | dispatch, retry, repair, score a reply | scan concurrent with replies, expiry, stranded records | one undecided operation per request key |
| Center session (`center/session.rs`, `app/src/center_runtime.rs`) | registration, sent offers | flush, score, acknowledge | order of score and acknowledgement, pruned rows | no offer and no reply is lost |
| Site binding (`center/binding.rs`, `center_binding_repository.rs`) | instance and binding rows, per-site gates | register, bind, revoke | check and bind in two calls; gates whose keys are dropped | one binding in force per site identity; no offer to a revoked site |
| Session registry (`center/session.rs`, `center_runtime.rs`, `center_acceptor.rs`) | online entries with generations, disconnect signals | admit, register, re-check, end | revocation racing registration; late and repeated clean-ups; panics | no session outlives its binding; no site is locked out |
| Artifact store (`artifact_store.rs`) | rows and files | create, append, finalize | read, file write and row update are separate; file work outlives its request | Ready means the declared bytes; an upload can be resumed |
| Artifact stream (`center_sync.rs`, `center/projection.rs`) | cursors on both sides, outbox rows, the center's file | report, distribute, flush; consume manifest and chunks | chunks queued before the digest is known; crashes on both sides; creation order is not readiness order | every ready artifact reaches the center intact |
| Event and endpoint streams | cursors | report once per connection | limits | nothing is skipped |
| Center projection of endpoints | projected inventory | apply snapshots | | |
| Refresh, telemetry, events | snapshots, samples | refresh, sample, ingest | mostly I/O | |
| Console authentication (`web/src/auth.rs`) | sessions, credential, one-time code, last TOTP step, failure budgets | login, claim, middleware, logout, change of password, role, state | every check and the write that relies on it are two store calls; budgets under two locks | a code and a step are used once; a revoked session stays revoked |
| Web, API, UI, platform, migrations, framing, backup | | | I/O, rendering, codecs, cryptography | |

Interaction: the web layer and the site sync engine create operation rows; the
scheduler finds them by listing. Executor and monitor share the operation rows, the
Task rows and the audit log and never talk to each other. The site sync engine
reads the rows the scheduler moves on. Site and center share nothing but frames on
one connection; each keeps a durable outbox whose rows stay pending until the peer
acknowledges them. Every store call is one transaction behind one write permit
(`persistence/src/lib.rs`), so a store call is one atomic step of the models.

`PROJECT.json` lists the parts, the hazards with their lines, for each module
which lines every definition translates, and the theorems.

The proofs of a component are in a module of their own (`SchedulerProofs`, `LinkProofs`,
`SessionProofs`, `ArtifactProofs`, `StreamProofs`, `ConsoleProofs`); `NumberLemmas` has the facts about
least and greatest numbers that several of them use, `LinkLemmas` those about the link's
operators. Each section says what is proved and along which argument. Liveness needs
fairness and `ENABLED`, which the prover does not have: every liveness property
(`EventuallyDecided`, `CompletionReachesCenter`, `RevokedSiteConverges`, `UploadEnds` and
`ReadyReachesCenter`) is model-checked only. Reports to the center are made once per
connection, so `CompletionReachesCenter` and `ReadyReachesCenter` are conditional: they say
what happens if the site is without a connection again and again (`[]<>(spc = "down") => ...`).

## 2. The scheduler

### Modules

* `Operation`: states, events and `transition` of `domain/src/operation.rs`.
* `OperationStore`: the rows (`state`, `task`, `failureKind`, `audit`) and the
  writes on them.
* `Bmc` (external): what a BMC may do with a request: lose it, refuse it, carry it
  out, start a Task, finish or drop the Task. `sent` counts the requests that left
  the process, `effect` says whether the desired value is on the BMC ("absent",
  "written" by this operation, or there before).
* `OperationExecutor`: `execute_operation` and `recover_operation`. A drive has a
  program counter `pc[o]`; every store call, gateway call and audit append is a
  step of its own. A transition is a read step (`StepRead`, the row into `seen`)
  and a write step (`StepWrite`).
* `TaskMonitor`: one sweep over the waiting operations (`mpc`).
* `Scheduler`: ticks, listing, permits, crash and restart; composes all of the
  above and states the properties.
* `OperationContract`: the abstract specification: accept, advance along a legal
  transition, issue the write once and only in Running.
* `SchedulerInvariant`, `SchedulerProofs`: the inductive invariant and the proofs.
* `MCScheduler`: the instance for TLC.

Any store or gateway call may fail (`DriveError`, `MonitorError`) and the process may
die at any step (`Crash`); both count against `MaxFaults`.

### Runs

| Run | Instance | Shows |
|---|---|---|
| `scheduler_pair` | 2 operations on 1 endpoint (one provable), 2 drives, 1 fault | all safety invariants and `IInv` |
| `scheduler_single` | 1 operation, 3 faults | refinement of `OperationContract`, `EventuallyDecided` |
| `scheduler_contended` | 2 operations, 1 permit, 1 drive slot, no fault | `TypeOK`, whose last part bounds the drives in progress, and `EventuallyDecided` under contention |

Two operations of one endpoint are enough for the permit and for every
interference of drives and monitor, which share nothing else. One fault anywhere
already separates every two neighbouring writes; the proofs cover any number of
operations, endpoints, drives and faults.

A drive holds its slot of `buffer_unordered(MAX_CONCURRENT_DRIVES)` from its start to its
return, also while it waits for the endpoint's permit (`Driving`). The bound has a run with
one slot, because with as many slots as operations nothing could exceed it; counting only
the drives that hold the permit is the mutant that breaks it.

`Provable` is the set of operations whose command asserts a durable result
(`recovery_judgement_proves_effect`); the pair has one of each kind.

### Fairness

`Fairness` says that ticks keep starting (the timer loop of `scheduler.rs`), that
drives and the monitor's sweep make progress (tokio tasks, each call ends in an
answer or an error because requests have timeouts), that a BMC polled again and
again eventually answers (strong fairness of `PollAnswered`: polls may be deferred
for ever otherwise, and then the code rightly waits for ever), and that a BMC
finishes the Tasks it has started. Faults are finite by `MaxFaults`. Nothing is
assumed about submissions, crashes, or a BMC that drops Tasks or requests.

### What is proved

`SchedulerProofs` proves, for every value of the constants that satisfies
`ProvableAssumption`, `MaxFaultsAssumption`, `NoOpAssumption`, `EndpointAssumption`
and `DrivesAssumption`: `TypeCorrect`, `SentAtMostOnce`, `WaitingIsTracked`,
`SerialWrites`, `AuditIsTrue`, `SuccessIsReal`, `TrackedFailure`, all from
`Inductive` (`Spec => []IInv`), and `ContractIsKept` (the refinement).

None of these invariants is inductive alone. `IInv` adds what a drive knows at each
program counter: the state its row is in, that it holds its endpoint's permit, how
often the write was sent (zero before the dispatch step, at most once after it),
which facts were audited, and for the monitor which observation it has in hand. The
key part relates the two-step transition to the permit: the row read in `StepRead`
is still in that state in `StepWrite`, because only the drive that holds the permit,
or the monitor while the row is WaitingRemote, writes it. Without it a second drive
could resurrect an older state and the write could be sent again. `SlotInv` is the bound on
the drives, as a statement about finite sets that every step but `StartDrive` keeps because
it adds no drive (`SlotCount`, `SlotStep`). The refinement
then needs only `IInv` and the definition of each step.

The liveness properties are out of the prover's reach and stay with TLC.

## 3. The site-to-center link

### Modules

* `CenterOutbox`: the outbox as operators on sets of rows: sequence numbers,
  enqueue, acknowledge, prune.
* `SiteSync`: the site's engine. One thread; a handler decides on what it reads and
  then performs its store writes one by one from `todo`. `replies` are the pending
  outbox rows, `ssent` how many were sent on this connection, `tracked` the progress
  map, `discovered` whether the process has scanned once. `SiteExecute` is the
  scheduler of section 2, reduced to its contract: rows move on legally.
* `CenterDispatch`: the dispatch under its per-site gate (`dpc`), the tracking
  records with the scoring of replies, and the session's loop.
* `CenterLink`: both over a connection, with crashes of either process, lost
  connections, failed store calls, expiring offers and repeated requests; the
  properties.
* `LinkContract`: what both promise together, without connections, queues and frames. Its
  state is the center's verdict (`none`, `open`, final), the target an operation was offered
  for (`aim`) and the site's row; its actions are record, offer, begin, advance and decide.
  `Verdict` and `Aim` of `CenterLink` are the refinement mapping. An operation may be offered
  only for a target no other open operation has, begun only when offered, and decided once,
  as the row is unless as Failed. Failed is free because a rejection binds the site to
  nothing: one that was queued before a crash may be followed by an acceptance.
* `MCCenter`: the instance for TLC.

A frame on the wire is lost only with its connection, as on the TLS stream the code
uses. An end that has lost its peer goes on with what it has received until its next
receive or send notices (`Close`). A handler is cut short only by a crash or a
failed call. `RowStates` is the set of operation states an instance tells apart;
the others are passed through unobserved. Requests share endpoint and command and
differ in their target, because the target is the part of the idempotency key that
only the offer rows hold.

### Runs

| Run | Instance | Shows |
|---|---|---|
| `center_replies` | 1 operation, 2 targets, 2 requests, 1 fault, 5 row states | `CenterVerdictIsTrue`, `ReplyNeverLost`, `OnePendingOffer`, `ImplementsContract` (the link implements `LinkContract`) |
| `center_retries` | 2 operations, 2 targets (symmetric), 3 requests, 1 fault | `OfferNeverLost`, `OneLiveIdPerTarget` |
| `center_live` | 1 operation, 1 request, 2 faults | `CompletionReachesCenter` |

Two operations and three requests are the least with which a stranded record, a live
operation of another target and a repeated request meet; two requests are enough for
one expiry and one retry. One fault cuts every handler at every point; the liveness
run has two, so that a recovery is interrupted as well. Expiry is free: an offer may
expire at any time, the oldest first, since all have the same time to live.

### Fairness

`Progress`: the site's engine and the center's session go on, and a lost connection
is noticed and dialled again (`connect_loop` retries for ever). Nothing is assumed about
requests, dispatches, the operations themselves, or the end of a connection that works.

The code makes its report when a connection is established and nothing ends a quiet one:
the comment at `center_sync.rs:892` says that the heartbeat outlives every idle timeout. On
a network that never fails, an operation that finishes after the report is not reported.
`CompletionReachesCenter` therefore has the premise that connections do end, which a
behaviour may or may not satisfy; in one that does not, it claims nothing.

### What is proved

`LinkProofs` proves every safety property of `CenterLink` for any number of operations,
targets, requests and faults: `TypesHold`, `VerdictsHold`, `RepliesHold`, `OnePendingHolds`,
`OfferHolds`, `OneLiveHolds`, the action property `TargetsHold` (an operation keeps its offer
row and its target) and the refinement `ContractIsKept`, all from `Inductive`
(`Spec => []IInv`). The assumptions are `OpsAssumption` (operations are numbered and
finitely many), `RowStatesAssumption` (a new row is Queued; the rest are states of
`domain/src/operation.rs`) and `BoundsAssumption` (the bounds are numbers). The parts of
`IInv`, each resting on the ones before it:

* `Control`: types; the center has a record of every operation that anything names
  (`Named`); and the reading of the wire (`Exchange`): the site's outbox begins with the
  replies whose acknowledgement is on its way, then the reply in the center's hands, then
  those on the wire, in order. An acknowledgement carries no number in the model, as the
  code acknowledges in order, so this is what makes dropping the oldest reply sound.
* `Answers`: `ReplyNeverLost`, and that of the writes a handler still has to do, the one
  that closes the entry comes after the one that queues the final reply. Together with
  `Exchange` (a reply whose acknowledgement is under way was scored) a crash between any
  two writes loses no reply.
* `Verdicts`: a completion tells the truth wherever it is: decided, queued, on the wire.
  A row in a final state does not move, so the truth lasts.
* `Offers`: numbers are unique, the rows of one operation have one target, and what the
  dispatch knows between its steps: the rows it retires have expired, and when it queues a
  retry no row of the operation is pending.
* `Delivery`: numbers on the wire ascend; what the site says it has received
  (`acked`, a high-water mark) covers only offers that are in its inbox or were never sent
  on this connection, and what is still to be sent is newer than any number it has told.
  `OfferNeverLost` alone is far from inductive: the center settles by a number the site
  sent long before.
* `Scan`: `find_undecided` reads one state after another while replies move the records.
  An undecided operation it has not found is in a state it has still to read, because
  records only move forward and the scan goes in that direction (`ScanStates`; scanning
  backwards is the mutant that breaks it). So when a new operation is created the target
  is free.

`ContractIsKept` (`Spec => ImplementsContract`) maps every step to one of `LinkContract` or to
none. `CreateTracking` is Record; the first `EnqueueOffer` of an operation is Offer, and the
target is free by `Scan`; a further one repeats the target the rows agree on (`Offers`);
acknowledging and pruning change no target (`Settles`); `SiteWrite` is Begin; `ScoreReply` is
Decide when the record was open, and true by `Verdicts`. It needs one more invariant, `Heard`
(`HeardHolds`): what is in the inbox, in a handler, in the site's outbox, on the wire or
decided is an operation with an offer row, although the center may have recorded an operation
it never offered (a stranded dispatch).

The site's rows move by `SiteExecute`, which is the contract of section 2 with steps
skipped. `LaterIsReached` shows that this is the same matrix: the states it moves a row to are
those one legal transition leads to, or one and then later ones.

The lemmas of `LinkLemmas` say what `Acknowledge` and `prune_acked_operation_history`
leave (`Settles`: what is pending stays, and every operation keeps a row as new as any it
had), that `next_sequence` is new, and that scoring moves a record forward only.

## 4. Bindings and sessions

### Modules

* `SiteBinding`: registration (`CreateInstance`, `CreateBinding`), the one-time code
  (`BindLookup`, `FindPrevious`, `RetireOffers`, `BindWithCode`), revocation and
  dispatch under the per-site gate. Console requests are handlers with a program
  counter; every store call is a step. `gateKey` is the map `dispatch_gates`, `holder`
  the mutex each `Arc` names: dropping a key does not free the lock others wait for.
  A registration mints a fresh instance id, so a row is named by its site, and sites
  are numbered by `created_at`, which is what the fingerprint lookup sorts by.
* `CenterSessions`: a dial becomes a connection task that is admitted, registers,
  takes its disconnect signal, re-checks the binding and runs (`run_center_connection`);
  the registry with its generations; the site that counts refusals and converges its own
  row (`connect_loop`, `run_center_sync_task`). `Converge` runs after the engine has
  stopped: if the lookup or the revocation fails, the task returns (`stopped`) with the row
  still bound, and only a restart of the site dials again (`SiteRestarts`). Composes `SiteBinding` and states the
  properties.
* `MCSessions`: the symmetry for TLC.

A failed store call of either side, a cancelled request (`HandlerStops`), a failed admission
lookup, a panicking engine, a connection lost on the site's side and a restart of the center each
count against `MaxFaults`. Certificates are abstracted to the site and the fingerprint
they name. `MaxGen` bounds the registrations of a behaviour. The engine panics only while it
runs: between `mark_connected` and the guard (`center_runtime.rs:1188-1249`) the task has no
clean-up of its own yet, and the model has no panic there, since what it calls returns errors.

### Runs

| Run | Instance | Shows |
|---|---|---|
| `center_sessions` | 1 site, 1 console request at a time, 2 connections, 4 registrations, limit 2, 2 faults | `RevokedIsOffline`, `EntryHasTask`, `RunningIsRegistered`, `RevokedSiteConverges` |
| `site_bindings` | 2 registrations of 1 physical site, 2 concurrent requests, no connection, no fault | `FingerprintBoundOnce`, `DispatchesAreSerial`, `NoOfferAfterRevoke` |
| `refused_in_force` | 2 registrations of 1 physical site, 1 connection | section 9 |

Two connections are the most that meet in one site's registry entry (the one that ends
and the one that replaces it); two faults let a recovery be interrupted. The console
properties concern requests only, and need two sites and two requests rather than
connections, which is why they have a run of their own. Both instances may stop (every
site revoked, every bound reached), so deadlock is not checked.

`NoOfferAfterRevoke` and `DispatchesAreSerial` except the sites in `stray`: a revocation
of a site that has an instance row but no binding row yet drops the gate's key while a
second revocation may wait on the old lock; dispatches after the registration then use a
new lock. `RevokedIsOffline` is about revocations that returned: one that is cancelled
after the row is committed and before `registry.disconnect` leaves the session up until
it ends by itself or the revocation is repeated. `RevokedSiteConverges` excepts a site whose
engine has stopped with its row bound (`stopped`): nothing tries again before the restart,
which is not assumed to come.

### Fairness

Handlers and connection tasks go on (tokio tasks whose store calls answer or fail), a
dead connection is ended by the idle timeout, and a bound site dials for ever. Nothing is
assumed about operators, faults or the hand-off of the certificate.

### What is proved

`SessionProofs` proves every safety property of `CenterSessions` for any number of sites,
fingerprints, requests, connections, registrations and faults: `TypesHold`,
`DispatchesStaySerial`, `NoLateOffer`, `FingerprintsStayApart`, `EntriesHaveTasks`,
`RunningStaysRegistered`, `RevokedGoesOffline`. The assumptions: sites are numbered and
finite (`SitesAssumption`), requests are finite (`HandlersAssumption`: a fresh lock has to
exist whenever a key is made), `NoOne` and `NoConn` name nothing (`NoOneAssumption`,
`NoConnAssumption`), the bounds are numbers (`SessionBoundsAssumption`).

`Control` has the types and what each program counter knows. `Gate` says that while a site
can take a dispatch, every request that holds or waits for its lock has the lock the key
names (`OneGate`), and that one that has checked the binding still finds it so
(`SendIsBound`); the sites in `stray` are exactly where `OneGate` fails. `Registry` ties a
connection's generation to the registry: generations differ, a connection in use lost its
entry only with its disconnect signal and never while its site is bound (`LiveIsKnown`),
and the signal a session runs with is that of its own generation although it fetched it
after it registered (`WatchIsOwn`). The binding's forward movement (never bound again after
a revocation) closes the race of revocation and registration.

## 5. Artifact uploads

`ArtifactContract` is the abstract specification: an upload is declared, becomes complete,
and gets one verdict; Ready only when the declared bytes are there, and never Failed when
they are. `ArtifactStore` is the code: `append_chunk` reads the row, writes the file unit
by unit in a blocking task that outlives its request (`"orphan"`), and updates the row
in a transaction that refuses to go back (`update_artifact`); `finalize` reads the row,
hashes the file and updates. `ImplementsContract` is the refinement, with `complete`
mapped to the artifacts whose received count is the declared size.

`artifact_store`: 1 artifact of 3 units, 3 overlapping requests, 2 faults. Three units
give pieces of different lengths that overlap; three requests are two writers and one
finalizer, or one writer and two finalizers. Artifacts share nothing, so one is enough. A
client sends the same bytes for an offset every time: `append_chunk` answers a repeated
offset as progress, so the code relies on it as well. Fairness: requests go on, and the
client resumes and finalizes (an abandoned upload stays Uploading, as documented).

`ArtifactProofs` proves `ProgressHolds`, `ReadyHolds` and the refinement `ContractIsKept`
for any number of artifacts and requests, any size and any number of faults
(`SizeAssumption`, `FaultsAssumption`, `NoArtifactAssumption`). The inductive invariant
says that a file is a gapless prefix of what its client sent even past the received count
(`FileIsPrefix`), that whatever offset a request has read is behind the row and the place
it writes is inside the file (`RequestIsBehind`: a row never goes back, and an orphaned
write fills only what it was given), and that a verdict under way is decided by the declared
bytes alone (`VerdictIsFounded`). `UploadEnds` stays with TLC.

## 6. The artifact stream

`ArtifactStream` extends `ArtifactContract`: ready artifacts, numbered by `created_at`,
are distributed by `report_artifacts`, once per connection and past the cursor. An
artifact becomes a manifest row and chunk rows in the outbox; the reader compares the
digest at the end, and a refused file has its rows retired one by one. The center writes
each chunk, counts it, gives the verdict with the last one, advances its stream cursor and
acknowledges; each of these is a step it may die after. `disk` is the site's file, which
may go missing or bad after it was ready and is restored by the operator.

The outbox is shared with the other reports of a connection, which queue their rows first
(`Report`, rows of `Other`). The clean-up before an artifact (`retire_pending_artifact_entries`)
reads the oldest `Window` pending rows whatever they carry (`Scanned`), retires those of the
artifact, and reads again until it finds none. `Window` is `artifact_set_size_bound`: 2049
rows at 1 MiB chunks, one more than the chunks of the largest artifact, so `Window > Chunks`
is all that is assumed of it. A refused file is retired by the entry ids of its own round
instead (`distribution_entries`; `Ledger`, the rows from `began` on).

`artifact_stream`: 2 artifacts of 2 chunks, a window of 3 rows, either no rows of other
reports or 3 in the first report (`Batches`, `LastBatch`), each file damaged at most once
(`MaxDamaged`), 1 fault on either side. Two artifacts are needed for the order of the cursor
and for a stall at the first; two chunks for a half-delivered file; three rows are the fewest
that fill the window. A stalled round ends before the file is restored only while few rows
were queued (`LastStall`), since each such round queues more. In this instance the center does
refuse an artifact in each of the two excepted cases.

Three histories name the cases the code does not cover, and the properties except them:

* `late`: an artifact finalized after the cursor has passed its creation time is never
  distributed;
* `left`: rows of a bad file that a dead round left are retired only when the next round
  reaches that artifact; if an earlier file is bad by then, the round stalls before it and
  flushes them. The center's row ends Failed, which is final;
* `hidden`: rows of a bad file that a dead round left are not found by the clean-up when
  `Window` other rows are pending before them. The restored file's rows are queued behind
  them, the flush sends both, and the center assembles the bad ones. Good rows that the scan
  does not reach do no harm: the center absorbs the duplicates, which the run and the proof
  of `CursorCoversDelivered` include.

Fairness: both engines go on and the site dials for ever. That damaged files are restored is
an assumption; a stalled stream waits for the operator, and the stall timer ends its
connection. Nothing is assumed about the end of a quiet connection (`EndQuiet` is not fair):
the report runs once per connection, so an artifact that becomes ready after it waits for the
next one, and `ReadyReachesCenter` has the premise of section 3. A stall does not save the
cursor, so artifacts that were distributed before it are queued again in every round; the
center absorbs them.

Outbox rows, frames on the wire and the artifacts of a round are sets in the model: rows and
frames are ordered by their number, artifacts by theirs, which is the order the code reads
them in (`list_pending_outbox`, `report_artifacts`).

`StreamProofs` proves `RefusalsHold` (`CenterRefusesOnlyLeftovers`) and `CursorHolds`
(`CursorCoversDelivered`) for any number of artifacts, chunks and faults, any window and any
rows of other reports, from `Inductive` (`StreamSpec => []IInv`). The assumptions are
`ArtifactsAssumption` and `StreamAssumption` (artifacts are numbered, an artifact has chunks,
the window is larger, the bounds are numbers). The parts of `IInv`:

* `Control`: types; the outbox numbers its rows as they are queued (`Numbered`); where the
  round stands and which rows of the artifact in hand it has queued, in the order of the file
  (`Round`); the center works only on rows of a flushed connection, and has processed the rows
  before the one it holds (`Exchange`).
* `Files`: a row with wrong bytes that is not of a `hidden` artifact is of one past the cursor,
  so the next round comes to it; none is left when the clean-up is done, and those queued
  since are in the round's ledger (`WrongIsAhead`). What goes out nevertheless is in `left` or
  `hidden` (`WrongIsLeft`); a counted chunk is in the center's file, wrong only if the artifact
  is in one of the two (`FileIsCounted`); and what the center counts is the next chunk
  (`CountIsNext`).
* `Supply`: of an artifact that the cursor or the round has passed, the manifest and every
  chunk the center still needs are in pending rows it has not processed. They are rows of one
  round, in the order of the file, from some sequence `m` on (`SuppliedFrom`); rows the scan
  did not reach come before `m`, in any order, and can only bring the center further. A row
  from `m` on that the center is about to pass with its stream cursor was counted. A crash of
  either side at any step leaves this true, because the site drops a row only when the
  center's cursor has passed it.

`CursorCoversDelivered` alone is not inductive: a pending row may be one the center's cursor
has passed already, and then it is acknowledged unread. `ReadyReachesCenter` is model-checked
only.

## 7. Console sessions

`LoginLimiter` has the sliding-window budgets as operators: a slot of the name (counted
per address) and a slot of the address, each under its own lock, given back by token.
`ConsoleAuth` runs the handlers of `web/src/auth.rs` as requests that each perform one
handler, store call by store call: sign-in, bootstrap claim, the session middleware, logout
and revocation of a session, changes of password, role and state. A request's name is also
that of the session it opens and of its budget slots. `MCConsole` adds the symmetry.

Any handler may stop at any step (`Fails`: a refusal, a failed call, a client that goes
away), except inside the synchronous limiter calls. Session lifetimes end by an action of
their own (`Expire`), and one step of the clock is one TOTP period, so the three-step
verification window is real.

`console_auth`: 3 requests (one has to be the claim, the other two race each other, or all
three race), 1 known and 1 unknown name, 1 address, budgets of 2, a window of 1 step, 2 clock
steps. Three requests are one more than a budget holds, and the second clock step empties the
window, so the limit is reached and left again.

`OldPasswordNeedsARace` says exactly what the code guarantees: a sign-in whose password was
verified before the sessions were revoked may still open one (`raced`), and nothing else
survives a password change. A change of role or state ignores a failed revocation; the
model has that as `Fails`, so `RevocationIsFinal` is about requests whose revocation
succeeded. An attempt takes its time before the limiter's lock, so entries can be slightly
out of order in a bucket; pruning from the front then keeps an entry longer, never shorter.

`ConsoleProofs` proves all six invariants for any number of requests, names and addresses,
any limits and any window: `TypesHold`, `ClaimHolds`, `StepsHold`, `BudgetHolds`,
`RevocationHolds`, `OldPasswordHolds`. The assumptions: requests are finite
(`RequestsAssumption`), there is an address (`AddressesAssumption`), the administrator has a
name (`AdminAssumption`), limits and window are positive (`LimitsAssumption`), the clock's
bound is a number (`MaxNowAssumption`). `Control` says which handler can be at which point
and what it has learnt there; `Accounts` that recorded steps that have no session yet are
apart from each other and from all that have one (`StepsApart`), and that whatever password
the sessions are about to be revoked for, what is verified with an older one is in `raced`
(`PasswordsCovered`); `Budget` that a queue holds only charged slots and those of the
requests between their two locks (`UserSlots`, `IpSlots`) and still holds every charge the
window covers (`ChargesCount`).

## 8. Not modelled

Of the modelled parts: paging limits of the flush and of the center's scan (the instances
stay below them; the site's clean-up window is modelled); heartbeats (folded into the flush that
follows each frame); the failure kind and the reply log at the center; re-homed endpoints and
more than one site on the link (the dispatch gate, the outbox and the registration are per
site); authorization and projection checks before a dispatch; payload encryption; the
maintenance passes of a tick; the refusal for a mismatched identity (it does not converge the
site); user creation, request forgery tokens, role checks, further principals, the session
probe's limiter, and a restart that empties the limiters. The center runs no scheduler of its
own.

The largest files of the repository are out of reach of a model for what they are: the
Redfish gateway (34k lines of HTTP exchanges and JSON shapes), the user interface, the web
and API layers (routing and data transfer objects), entities and migrations. They hold
little control that outlives a request, and what the modelled parts need of them is in `Bmc`
and in the handlers of section 7. The other parts without a module are listed in
`PROJECT.json` with the reason.

## 9. Where the code and its comments disagree

`refused_in_force` is checked by a run: the admission looks up the *newest* row with the
certificate's fingerprint in any state (`find_binding_by_site_fingerprint`). Register twice,
bind the second registration, revoke it, and bind the first with the same site: the site's
binding is in force, but the newer revoked row answers, the site is refused as not bound, and
after `not_bound_abort_after` refusals it revokes its own row. The comment in
`center_acceptor.rs` says such a refusal means the binding is not in force.

Seen while modelling the scheduler and the link; each is a behaviour of the modules:

1. A failure kind orphaned by a crash during a capability refusal survives on the row
   (`operation_executor.rs:283`); if the resumed pre-flight passes and the operation fails
   later, its batch counts a *sent* write as unsupported. The comment calls the window
   harmless.
2. A Confirmed re-read is documented as proof that the write happened
   (`operation_executor.rs:408`); it also confirms a value that was there before.
3. A drive that ends in an error is documented as terminal (`scheduler.rs:519`); a failed
   store call leaves the row as it was and the next tick drives it again, which is what
   `EventuallyDecided` relies on.
4. The rejection of an offer is queued before the inbox entry is closed
   (`center_sync.rs:1214`). A crash between them lets the redelivered offer be accepted: the
   site runs an operation the center records as failed. For this reason
   `CenterVerdictIsTrue` does not speak of Failed.
5. The repair of a stranded dispatch comes before the check for an unknown outcome and
   bypasses it (`dispatch.rs:599`).
6. Progress is documented as streamed (`center.proto:348`); it is sent only when a
   connection is established.
7. A residue behind the window of the clean-up is documented as harmless
   (`center_sync.rs:2376-2381`: "the flush delivers at most an idempotently-absorbed
   duplicate, never a half-set on its own"). With `Window` unrelated rows pending, a file that
   was damaged when its round died and is restored afterwards is refused by the center for
   good (`hidden`, section 6). The comment is right when the residue has the declared bytes.
   Likewise `left` contradicts the comment of `distribute_artifact` that the half-set is never
   sent (`center_sync.rs:2169`).

The exceptions of sections 4, 6 and 7 (`stray`, `stopped`, `late`, `left`, `hidden`, `raced`) are the other cases
a maintainer may want to look at. One more is outside the model's inputs: a client that sends
different bytes for one offset can have an overtaken write land after the verdict, and the
executor sends the file of a Ready row without another check.

## 10. Plan

Done: the scheduler, the operation protocol of the link, bindings and sessions, uploads and
their distribution, console sessions; all their safety properties are proved, and the three
refinements (`OperationContract`, `LinkContract`, `ArtifactContract`).

Next:

1. The event and endpoint streams over the same outbox, and what a limited batch per
   connection can skip.
2. Batch submission and summaries on top of `OperationContract`; generation-counted
   snapshots of the refresh; the swap of the database file on restore.
