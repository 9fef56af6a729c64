# Verification of personal-mcp-gateway

TLA+ models of the parts of this repository whose correctness depends on the
order in which several actors act: the local release lifecycle and its durable
store, the provider requests that several gateway processes make under one
allowance, the mutation of the vault through a helper process, the tools that
read a vault while it changes, batches of provider requests, and the gateway
process with its documents and its log. TLC checks small instances; the TLA+
proof system proves the central safety properties of the same modules for every
value of their constants.

## 1. Inventory

The repository is one Go executable, `cmd/gateway`, that serves either the
`obsidian` or the `ynab` MCP server over stdio or loopback HTTP, and a second
one, `cmd/release-activation`, that installs new builds of the first under
launchd.

| Component | State it keeps | Operations | Interacts with | What is hard | What makes it correct |
|---|---|---|---|---|---|
| Release lifecycle (`internal/releaseactivation/model.go`, `manager.go`, `cmd/release-activation`, `scripts/release-activation.sh`) | one transaction slot (`active/`), lock file | prepare, resume, accept, rollback, status, restart, install/uninstall agent, update | store, launchd, the installed executable | two controllers of two versions, crash at every step, services restarted behind its back, operator edits | write-ahead direction, nothing accepted or cleared unproven, irreversible choices completed |
| Release store (`store.go`) | directories `active`, `active.next.<id>`, `cleanup.<id>`, manifest temporaries | Acquire, Load, CleanupOrphans, Prepare, Rewrite, Clear, Inspect | manager, lock-free dispatcher | process death inside a multi-file operation, readers without the lock | whatever is visible is complete, operations take effect atomically, residue is bounded |
| Host runtime (`runtime.go`, `scripts/internal`) | launchd jobs, `GATEWAY_BIN`, health URL file | Observe, InstallCandidate, RestorePrevious, RemoveTarget, Restart, WaitReady, Bootout | launchd | effects that fail after they took effect, asynchronous respawn | readiness belongs to the process started last |
| YNAB dispatch (`internal/tools/ynab/reliability.go`, `quota.go`) | SQLite: reservations, cooldowns, circuits; per process: two request slots | dispatch, reserve, record | other gateway processes of the user, the provider | stale clocks and completions, cancellation, crash with a reservation or a probe, one retry | quota per rolling window, cooldown never shortened, no stale healing, honest write verdicts |
| YNAB batches and exports (`tools.go`, `exports.go`) | none; private export files | execute, nativeTransactions, export | dispatch, filesystem | partial failure inside a batch, export published or not | later items stop after a failed write, exported file complete or absent |
| Staged vault mutation (`internal/fsx/mutation_*`) | staging file, helper process, pipe protocol | prepare, commit, abort, cleanup | a helper process per commit, the vault, other writers | death of either side, cancel racing commit, uncertain outcomes | at most one commit, stage removed, outcome reported truthfully |
| Vault reading (`internal/fsx` walk, list, file, path) | open descriptors | resolve, open, walk, list, read | vault, other applications | the tree changes between any two system calls | confinement, one version of a file, an answer that was true at one moment |
| Obsidian grep (`internal/tools/obsidian/grep*.go`) | window of jobs, worker pool, ordered reducer | walk, schedule, scan, reduce, continue, drain, join | fsx, cursor | workers finish out of order, cancellation, limits inside a file | a page is that of a sequential scan, nothing is left running, a chain of pages adds up |
| Obsidian read, read_many, ls, cursors, documents | none (cursors are sealed and self-contained) | resolve, ls, read, read_many, read_document | fsx, native bridge | pages that continue over a changed vault, the room of a response, bytes shared by many items | no unit lost, repeated or told in two versions; a client that follows cursors gets on |
| Native document bridge (`internal/mcp/native_*.go`) | one-shot payload table, byte gate | offer, claim, emit, release | SDK transport, tool handler | claim racing cancel and close, byte budget | each payload emitted at most once, bytes returned to the gate |
| MCP server and telemetry (`internal/mcp/server.go`, `telemetry.go`, `descriptor.go`, `safe_summary.go`) | registry | register, dispatch, summarise | tools, audit | - | only registered tools, bounded summaries |
| Gateway process: audit (`internal/audit`), application (`internal/app`), config, limits, `cmd/gateway` | sink, degradation flag, HTTP server, readiness | parse, open, start, Event, ready, stop, Close, exit code | SQLite, SDK, bridge | events race Close and a failing sink; documents, requests and signals race the shutdown | nothing lost in silence, readiness and exit code tell the truth, everything released |
| Resource probe (`internal/resourceprobe`) | none | gc, snapshot, end of its pipe | test harness pipes | its end stops the server beside a signal | the server stops once |
| Smoke harness (`cmd/gateway-smoke`), schema generator (`cmd/ynab-schema-gen`), release scripts, agent skills | none at run time | - | - | - | out of scope |

`PROJECT.json` lists every component with its status, and every place in the
code that is hard to test under `hazards`, with the properties that would notice
it going wrong.

## 2. Modules

```
ReleaseModel        data of a release and the pure decision model (model.go)
  |- ReleaseSlot        abstract: what the lifecycle promises
  |- ReleaseActivation  controllers, dispatcher, lock, host, launchd  ==implements==> ReleaseSlot
  |- SlotRegister       abstract: the slot as an atomic register
  |- ReleaseStore       the files behind the slot                     ==implements==> SlotRegister
YnabCircuit         the pure recovery circuit (quota.go)
  |- YnabDispatch       calls, slots, shared store, provider, clock
VaultCalls          abstract: what a caller of a vault mutation may rely on
StagedMutation      calls, helper processes, their protocol, the directory ==implements==> VaultCalls
DocumentLedger      abstract: every byte reserved is released once
DocumentBridge      a PDF from capture to the writer                  ==implements==> DocumentLedger
AuditLog            logger, sink, degradation
GatewayConfig       command line and environment
  |- GatewayProcess     composes the three: start, requests, documents, events, shutdown, exit
VaultTree           the vault, other applications, path resolution and file opening
  |- GrepScan           pure: the scan of a file, the reduction of a page, the sequential reference
     |- VaultGrep       walker, window, workers, reducer, cursors of grep
        |- VaultList    ls and its pages
           |- VaultRead read and read_many and their pages
PagedAnswer         abstract: what a client that follows cursors may rely on
YnabBatch           one call of a YNAB tool: items, native groups, exports
  |- ToolCalls          composes VaultRead and YnabBatch with a client ==implements==> PagedAnswer
```

Each of ReleaseActivation, ReleaseStore, YnabDispatch, StagedMutation,
GatewayProcess and ToolCalls has an `MC` module with its instance, and
`ReleaseActivationProofs`, `ReleaseStoreProofs`, `YnabDispatchProofs`,
`StagedMutationProofs`, `GatewayProofs`, `GrepJoinProofs`, `BatchProofs` and
`PagesProofs` hold the proofs.
`ReleaseActivation` treats each Prepare, Rewrite and Clear of the store as one
step; `ReleaseStore` models the file operations behind them and its refinement
of `SlotRegister` is what justifies that. In the same way `YnabBatch` takes the
outcomes of a request to be those that `VerdictSound` of `YnabDispatch` allows.
Operators whose comment begins "Faulty variant" are no part of the models: each
is a plausible mistake, kept to show that a property notices it.

### 2.1 Release lifecycle

| TLA+ | code |
|---|---|
| `slot` | the manifest in `active/`, or none; artifacts are immutable and re-hashed by every load, so they need no variable here |
| `lock` | the `flock` that every `Acquire` takes |
| `target`, `config`, `jobs` | `GATEWAY_BIN`, the fingerprinted files, the launchd jobs with the executable each process was started from |
| `ctl[c]` | one controller process: command, requested release id, version of the binary the dispatcher chose, its copy of the manifest, its position in the command, the services left to handle |
| `issued`, `live` | release ids as a counter; history: what the last finished release settled on |
| `Decide` (ReleaseModel) | `model.go` Decide with its helpers |
| `Dispatch`, `Status` | `scripts/release-activation.sh` choosing a binary from an unlocked read; `releaseOrGuide` |
| `BeginPrepare` ... `PublishPrepared` | `Manager.Prepare` |
| `Acquire`, `FirstObservation`, `Persist` | `Manager.run` |
| `InstallCandidate` ... `ConfirmDeployment` | `resumeDeployment` |
| `ConfirmAccept` | `finishAccept` |
| `RestorePrevious` ... `ConfirmRollback`, `Clear` | `finishRollback` |
| `AdminRestart/Install/Uninstall` | `WithClear` and the agent scripts |
| `Respawn`, `Serve`, `Die` | launchd (external) |

Decisions worth knowing. A crash releases the lock, as the kernel does; the
dispatcher's watchdog kill is such a crash. A host effect may fail before or
after it took effect (`MaxFaults` bounds how often). A readiness timeout is a
fault unless the service can never serve. `Tamper`, the operator editing the
executable or a fingerprinted file, happens between commands (`MaxTampers`),
not between a command's observation and its end: the code does not claim to
survive that. The kill of `kickstart -k` is synchronous and the respawn is not.
The verification command (`Probe`) only reads and is left out. The
dispatcher's `authority_mismatch` retry is another `Dispatch`. Prepare and
resume called on their own are the release command interrupted between them.

### 2.2 Release store

`active`, `nexts`, `cleans` are the directories `active`, `active.next.<id>`
and `cleanup.<id>`; a directory holds three artifacts, a manifest and manifest
temporaries. `Prepare` is `BeginPrepare, Copy*, CreateTemp, WriteTemp,
RenameTemp, CheckHashes, PublishActive`; `Rewrite` is `BeginRewrite` and the
temporary again; `Clear` is the rename and `Discard` unlink by unlink.
`SweepTemps` and `SweepDirs` are the orphan collection. It runs before anything
is changed, but not in every session that takes the lock: `run`, `Prepare` and
`WithClear` load the slot and check it first (`manager.go:80-197`, `250-268`,
`294-314`), and a command that fails these checks ends without collecting
(`Refuse`), as status reports and `Probe` always do; `Admit` is a command that
passes them. So a remnant may stay for as long as every command is refused: after
a death in `Clear`, a repeated accept or rollback ends with no pending release,
and `cleanup.<id>` stays until a prepare or an administrative command is
admitted. `Crash` kills the process between any two file operations and `Fail`
makes one of them return an error. Loss of power is outside the documented
guarantee (`docs/runbooks/local-release.md`) and is not modelled. `Clear`'s
branch for a `cleanup.<id>` that already exists is never taken, because the
sweep ran before it in the same session; it appears as a guard.

### 2.3 YNAB dispatch

| TLA+ | code |
|---|---|
| `rows`, `cooldown`, `circuits` | the three SQLite tables, for one token |
| `slots[p]` | `providerSlots` of a process |
| `ctl[c]` | the locals of one `dispatch` call: `pc`, `try` (attempt), the permit, the outcome and hints to record, the verdict returned; `at` is the clock reading the pending transaction carries |
| `sent`, `applied`, `log`, `ctl[c].news` | history: requests sent, changes made by the provider, admissions with their commit times, and what happened to the family since the attempt was admitted |
| `TakeSlot, GiveUp` | the `select` |
| `Deny, Reserve, ReserveUnreported` | `quotaStore.reserve`; the last is a commit that took effect but returned an error |
| `AbandonPermit, Yield` | the context test after the reservation, and its neutral recording |
| `Send, Reply` | `client.Do` and the judgement of the answer |
| `Record, RecordFails` | `finishAttempt`, `quotaStore.record` and what `dispatch` does with the result |
| `Wake` | the jittered wait before a read's second attempt |
| `Cancel` | the caller cancels or the 60 s deadline passes, at any moment |
| `Crash` | a gateway process dies |

The clock `now` is an integer. The code reads it before each transaction; the
transaction commits at most `Skew` later, and a request takes at most
`HttpTimeout`. The code bounds the first by the SQLite busy timeout, the call's
deadline and `finishAttempt`'s two seconds, the second by the client's 30 s. That
`Skew + HttpTimeout < Lease` is an assumption of the runs: with 30 s and
45 s it holds as long as a reservation does not wait 15 s for the store. The
branch of `dispatch` for a delay above `retryCap` needs no action: a transient
failure that named such a delay has opened the circuit and has already returned
with `retry_at`; where it could be reached, it returns as the first disjunct of
`Record` does, and so does a wait that would pass the deadline. Reading the
result body is part of `Reply`. Opening and checking the database file is not
modelled. The monotonicity of the wall clock across processes is assumed.

### 2.4 Vault mutations

| TLA+ | code |
|---|---|
| `vault`, `ids` | the file each name of one vault directory holds (its identity, whether its bytes are whole), and the identities given out so far |
| `request`, `pc`, `outcome`, `verdict`, `canceled` | the goroutine of a tool call in `runStagedMutation`, and what it is asked, about to return and has told |
| `child`, `stage`, `terminal` | the helper process of a call, its private stage file and the outcome it is about to report |
| `down`, `up` | the frame on its way to the helper, the frame on its way back |
| `applied`, `raced` | history: whether the call has changed the vault, and whether the name changed after its last look |
| `Prepare`, `Revalidate` | `prepareMutationTargetFromRoot`, `revalidatePreparedMutationTarget` |
| `MoveEffect`, `DeleteEffect`, `ReportEffect` | `Mutator.Move`, `Mutator.Delete`, which need no helper |
| `TakeSlot`, `Launch`, `Exchange`, `Acknowledge`, `SendPayload`, `Completed`, `Decide`, `SendCommit`, `ReceiveTerminal`, `WaitHelper`, `KillHelper`, `CleanupStage`, `Settle` | `runStagedMutation` from the slot to the answer |
| `HelperStage` ... `HelperExit`, `HelperEof`, `HelperClean` | `runMutationHelperFiles` and `RunMutationHelper` |
| `Cancel`, `Crash`, `KillByOther`, `OtherWriter` | the caller or the deadline, the death of either process, another application |

A stage that cannot be unlinked is told as uncertain. Between the last look at
the target and the rename another application may write: the code documents
this window and `OverwritesExpected` excludes it. A stage may stay when the
gateway is dead and its helper is killed; `StagesVanish` demands nothing then.
Directories are treated as files, and the path above the last name is left to
`VaultTree`. A receive is not assumed to be interrupted by the launcher's
deadline: `CallsReturn` rests on the helper going on or dying.

### 2.5 The gateway process

| TLA+ | code |
|---|---|
| `DocumentBridge` | `read_document.go` and `pdf_validator.go` up to registration, `native_document.go` from there: the byte gate, the validator slot, the snapshot, the five-second timer, `take`, `Stream` and `Close` |
| `AuditLog` | `Logger.Event`, `Logger.Close`, `markDegradedLocked`, and the warning told after the mutex is released |
| `GatewayConfig` | `Parse` and `Validate` over classes of strings |
| `Parse` ... `Exit` (GatewayProcess) | `main` and `runWithContext` with its deferred calls in their order, `runStdio`, `runHTTP`, `App.Close` |
| `Arrive` ... `LogRequest` | the request filters, the tool handler, the telemetry middleware, the writer that takes a document, the HTTP audit |
| `Signal`, `ProbeStops` | a signal, the end of the resource probe |

The SDK serialises writes and ends a stdio session on a writer's error; both
are external. A document over stdio that waits longer than its timer ends the
session, over HTTP it is a 500 (`MissDocument`). Streaming is one step, since
nobody else can touch a taken snapshot (`TakenStaysLive`); a call that is no
document is a `read_document` whose path is no PDF. After the server has ended,
calls may go on until the process exits, which is why `ExitTells` demands quiet
only where `Shutdown` waits for it.

### 2.6 Reading the vault

`VaultTree` holds an entry (kind, inode, version) for each path and lets other
applications save, replace, remove and link between any two system calls. An
operator of it is what lies between two of them: `ResolveLook` and
`ResolveEnter`, `OpenLook` and `OpenEnter` are the `openat`/`fstat` pairs of
`path_unix.go` and `file_unix.go`. Names are short sequences whose order, case
and normal form are those that the comparison functions distinguish.

| TLA+ | code |
|---|---|
| `ScanWhole`, `emit`, `accept`, `checkpointAdvances`, `partialCheckpoint` (GrepScan) | what a worker finds in a file and how `reduceOldest` turns it into a page |
| `SequentialPage` | reference: the same page by one file after the other |
| `ScanDirectory` ... `VerifyDirectory`, `Visit`, `OpenPath` (VaultGrep) | the walk and its second looks |
| `VisitResume`, `MakeRoom`, `ScheduleJob` | scheduling under the window and the byte budget |
| `TakeJob`, `ReadFile`, `SendEvent`, `LeaveWorker` | a worker |
| `ReduceEvent`, `ReduceClosed`, `Drained`, `Answer` | the ordered reducer, drain, cancel and join |
| `CallLS` ... `AnswerLS` (VaultList) | `Tools.LS`, `Directory.ListPage`, `FitLSOutput` |
| `BeginRead`, `OpenNext`, `OpenedRead`, `Load` (VaultRead) | `readPageCore`, the engine of read and read_many |
| `fitContentRead`, `largestFittingContentPrefix`, `fitOutlineRead` | cutting a unit to the bytes and to the response |
| `CheckMany`, `CheckedMany` | `revalidateReadManyObservations` |
| `TurnMany`, `RebaseMany`, `EndMany`, `ShrinkMany`, `AcceptMany` | the loop of `readManyPage` |
| `chain` (ToolCalls) | the client: the cursor it holds and what it has received; an answer may be lost and asked again, and a cursor may be used for another query |

What is abstracted. A line is its size and whether it is hit, so excerpts of
oversized lines and UTF-8 (a rune is one byte) are left out; the same hit makes
a line a heading for `read`, all of one level, and the grammar of selectors is
left out. A digest stands for what it digests and a cursor is sealed, so the
client can hold no other than those it was given, and the validity tests on its
decoded state cannot fail. A removed directory goes with what is in it; every
change alters a stamp; the limit on raw entries, special files and work
counters are left out. A bounded `File.Read` looks at the stamp before and
after, hence is one step. The two-second context is a cancellation, which may
be noticed at any later test. `resolve` returns what path resolution found and
has no action of its own.

### 2.7 YNAB batches

`execute` validates every item before anything is sent, `Group` forms the
native groups, `Answered`, `Lost`, `Refused` and `Unsent` are what may come of a
request, `correlateNativeResults` and `confirmTransactionFields` judge an
answer, and `Onward` stops after a failure. `Admit` ... `PublishExport` are one
export beside other programs (`OtherExports`). The shape rules of a payload are
one condition.

A request is one step; what happens inside `dispatch` is the business of
YnabDispatch. What it may come to is what `dispatch` returns: denied or
cancelled before the first attempt it was not attempted (`Denied`: `stateFailure`,
`waitResult`, `canceledResult`), a write without a usable answer is uncertain, a
read without one failed (`ReadLosses`, a second attempt that was denied among
them). A write that got no allowance is therefore told as `not_attempted`, like
the items after it, and ends the batch.

What YNAB does with a request is external (`Deeds`): it does all of a single
request, may leave out any item of a list (`CarriesList`), ignore fields, know
an import ID already, or refuse; it shows any part of what it did. Taken from
its published schema (`testdata/openapi-v1.86.0.json`, `SaveTransactionsResponse`)
is that the answer to a native PATCH has a list `transaction_ids`, which may be
empty. `acknowledge` asks for that list and not for a name in it
(`ListSuffices`), see section 6. An answer without the list that names nothing
is told as uncertain, as `Lost` is.

## 3. What the runs check

| Run | Instance | States | Shows |
|---|---|---|---|
| `race` | 2 controllers, 2 versions, 2 services, 3 builds (one never ready), 2 releases, 1 fault, 1 edit | about 4.5 million | lock discipline, session soundness, write-ahead, proven clear, authority, administration, refinement of `ReleaseSlot` |
| `live` | 2 controllers, fair | 89,708 | an interrupted command is carried to its end by repeating it |
| `install_keeps` | 2 controllers, 1 fault | counterexample | a finding, section 6 |
| `disk` | 2 sessions, 2 releases, 3 faults, fair | 24,828 | whole slot, atomic register, bounded residue that disappears if commands pass their checks time and again |
| `mixed` | a write and a read of two attempts, 1 process, 1 slot, named delays, fair | 498,400 | honest verdicts, balanced slots, bounded outages, cooldowns kept, every call ends |
| `quota` | 3 reads of two attempts, 2 processes, allowance 2, no named delays | 3,187,424 | the rolling allowance, one probe at a time, stale completions ignored |
| `sole_probe` | 4 calls, named delays | counterexample | a finding, section 6 |
| `mutation` | 2 calls on 2 names, 1 helper slot, 1 fault, 1 edit, fair | about 706,000 | no torn file, only what was expected is overwritten, refinement of `VaultCalls`, calls return, stages vanish |
| `gateway` | 2 documents, 1 check, capacity 2, 1 sink fault, HTTP and stdio and refused command lines, fair | about 1.03 million | a taken document stays live, no event is lost in silence, the exit code is true, refinement of `DocumentLedger`, payloads are released, the process stops |
| `tools` | chains of five greps, three listings, six reads, and eleven batches, with a change or a cancellation (two changes for ls and one read_many), fair | 171,360 | pages are sequential, nothing is left behind, chains add up to the whole answer, refinement of `PagedAnswer`, batches are told as they went, calls return |
| `grep_empty` | a vault with an empty note | counterexample | a finding, section 6 |
| `grep_cancel` | one grep, one cancellation | counterexample | a finding, section 6 |

`PageIsSequential` compares each page of the concurrent grep with
`SequentialPage`. `WholeAnswer` is about the client: the pages of a chain that
completed, however they were cut, lost and asked again, are the answer for the
vault at one moment since the chain began; for read and read_many request by
request and since the last call began, because read_many looks again at what
earlier pages told. It is checked for grep with one change only: grep reads
files one after the other, and two saves of files already read leave no single
moment; the code promises none. `ImplementsPages` says that cursors advance, so
a client that follows them gets to the end. `BatchTold` compares what the
client is told of each item with what YNAB and the file system were made to do.
One case it leaves out by name: an update sent alone by its import ID, without a
field that is compared, is told as a success although the answer names nothing
(`Unnamed`, section 6); the run has such a batch, and would fail without the
exception. The same update with a compared field, or in a group, is not excepted.

Bounds. Two controllers are enough for every race on a slot with one lock: a
third adds no new pair, and the proofs cover any number. Two releases make an
identity stale; in `live` two faults allow a crash and a failure of the
recovery from it. In the store three faults interrupt a call, its collection
and the next call. A circuit threshold of one and of two is covered. The
allowance of two with up to six attempts in five instants crosses a window. Two
mutations and one helper slot contend for the slot and for a name; one fault is
the death of a side, a failed operation or a stage that will not go. Two
documents contend for the validator slot, and their sizes fill the capacity. In
the vault, three notes with up to five lines, one of them too large to return,
make pages end between files, inside a file, inside a context and in a line; a
file whose name sorts between a directory and its contents makes the two orders
differ; a window of two lets a worker overtake another; three calls of a chain
allow a page, a lost answer and its repetition. Calls of one process and family
and the controllers are interchangeable, so runs without a liveness property
use symmetry there; runs with one do not. Deadlock is not checked where a
system may stop: all calls answered, all releases done, the process exited.

Fairness. A started release command goes on (the operating system schedules the
process, HTTP and SQLite calls time out); launchd restarts and serves
(`KeepAlive`); the operator, told by the status report, eventually gives the
named command again (strong, because another command may hold the lock in
between). In the store a session that runs goes on, and nothing is assumed of
the operator: `ResidueCollected` is a promise under the condition that commands
pass their checks again and again, written into the property; one such session
that nothing interrupts is enough (`SessionInv`, past the sweep). Faults are bounded, so that from some moment on nothing fails. A
gateway goroutine and a helper process go on (`StagedMutation`: each call's
gateway side and helper side); in `GatewayProcess` a single weak fairness says
that some goroutine or timer goes on while one can, which is less than one
fairness for each and enough, since no step there can be repeated for ever; in `ToolCalls` the calling goroutine and the workers go on, where the
60-second timeout of a provider request is an action of its own. Nothing is
assumed of cancellations, deadlines, crashes, edits, signals or the start of
calls.

## 4. What is proved

For all values of the constants, under the named assumptions of the modules
(`ModelAssumption`, `SlotAssumption`, and the ones of each component):

* **ReleaseActivationProofs.** The inductive invariant is `IInv == TypeOK /\
  HolderOwnsSlot /\ SessionInv`. `TypeOK` and the lock discipline are inductive
  together (`LockedStep`); `SessionInv` says, for each position in a command,
  what the command relies on there: the manifest it holds is the durable one,
  its authority matched, the target and fingerprints are the observed ones, the
  services already handled were restarted from the candidate. It is needed
  because every deeper property speaks of the step that persists or clears,
  and those steps are safe only because of observations made earlier. On it
  rest `TargetAccounted`, `PendingProven` and the action properties
  `WriteAhead`, `ClearProven`, `Authorized`, `AdminWaits`, and the refinement
  of `ReleaseSlot`.
* **ReleaseStoreProofs.** `Core == TypeOK /\ VisibleComplete /\ HolderView /\
  SessionInv` is inductive, action by action; `BoundedResidue` is inductive
  given `Core`; `Refinement` maps every step of the files to a step of
  `SlotRegister` or to a stutter, which is what lets the lifecycle treat a
  rewrite as atomic. `SessionInv` speaks of a session from its sweep on; a
  session that was refused (`Refuse`) has changed nothing.
* **YnabDispatchProofs.** `Base` says of each call, for each of its positions,
  how old the clock reading it carries may be, how many requests it can have
  sent, and that what it will tell is true so far; verdicts and types follow
  (`VerdictsSound`, `TypeCorrect`). `SlotsInv` counts the calls between taking
  and returning a slot (`SlotsNeverLeak`). `EpochInv` is the heart of the
  circuit: an attempt in flight has at most the current epoch, an older one if
  the circuit is open or a failure was counted since, one below the floor if a
  probe recovered the family since, and a probe with the current epoch is alone
  with it. `CircuitEffect` reduces every step to one that admits, one that
  completes and the rest; `CooldownsKept`, `StaleCompletionsIgnored` and
  `OutagesBounded` follow. `OneProbe` needs `LeaseInv` and is proved under
  `Prompt`: the provider names no delay and `Skew + HttpTimeout < Lease`;
  without the first it is false (section 6). `AllowanceKept` rests on
  `QuotaInv`: attempts are logged once, and each that counts at the moment of a
  commit has a row that counts at the earlier clock reading, so that the
  attempts of a window inject into the rows that `reserve` counted.
* **StagedMutationProofs.** `IInv` is `TypeOK`, `NeverTorn`, and for every
  call `CallInv`: `ProtocolInv` (what is on the wire fits the phase of both
  sides), `TruthInv` (a verdict under way or returned is true of the vault),
  `StageInv` (who has to remove the stage at each position) and `WindowInv`
  (what the last look at the target entitles the commit to). None of them is
  inductive alone: what the gateway answers rests on what the helper did before
  a frame that may still be under way. From it: `Untorn`,
  `ExpectedOverwritten`, `StagesSwept` (a call that has returned leaves no
  stage unless it said that it is uncertain) and the refinement of
  `VaultCalls`, step by step.
* **GatewayProofs.** `IInv` is `Shape`, `DocumentInv` (one owner for each
  captured document, and its slot, bytes and mapping agree with that owner),
  `ConfigInv`, `LogInv` (a lost event and degradation, and who still has to
  tell it) and `EndInv` (what has been closed at each position of the unwinding).
  From it: `TakenAlwaysLive`, `LossAlwaysTold`, `ExitCodeTrue`,
  `OneOwnerAlways`, `ReadyWhileSound`. `LedgerKept` is the refinement of
  `DocumentLedger`: there the bytes that documents hold are a set of pairs of a
  document and a number, whose cardinality is what the counter of the gate must
  be. `LedgerInv` says that it is; every step keeps that set, adds the bytes of
  one document to it or takes them away (`BytesSteps`), and those who reserve
  or release are told apart by `DocumentInv`.
* **GrepJoinProofs.** `IInv` relates the jobs of the window to those who will
  give their file back, and the workers to the jobs they scan; `OthersKeep`
  disposes of ls, read, batches and the editors. From it `NothingLeftBehind`: a
  grep that has answered, whatever ended it, has joined its workers, closed its
  files and given back its window.
* **BatchProofs.** `BInv` says that what is behind the current item of a batch
  is settled and told as it went (but for `Unnamed`), that nothing from the current item on was
  sent (but for the export under way), and that a batch of writes has only
  successes behind it. The last part is what makes `BatchTold` inductive: when
  an item goes wrong the batch ends with it, so nothing that is told later can
  have been sent. Within a native group nobody is taken for another because the
  identities of a group are distinct (`nativeBatchIdentifiable`); that the
  group exists, is finite and has a last item follows from the assumption on
  `Batches` that a batch is a sequence. The provider is not arbitrary: the proof
  takes from `Deeds` that only fields that are compared can be ignored and that a
  request for a single object is done or refused, and shows (`ConfirmedIsTrue`)
  that of the requests that carry a list only the lone update by import ID can be
  told as done when it was not.

* **PagesProofs.** `PagesGoOn` is the refinement of `PagedAnswer` for ls, read and
  read_many: whatever changes in the vault, whatever is cancelled or lost, a page
  goes on from the one before, no cursor leads back, and what is complete or
  refused stays so. The inductive invariant is `PInv`: `VaultType`, `ChainInv`
  (the cursor of the client has the form that its tool gives it), `ListInv` and
  `ReadInv`, which say for each position of a call what it has in hand. A page of
  ls shows names that lie behind the position of its cursor (`After`), and the
  next cursor is the last of them, so what is needed is that the order of the
  walk is strict on the paths of a vault. A page of read holds at least one unit
  that the one before did not, because what fits no unit is refused
  (`ContentFits`, `OutlineFits`). A page of read_many ends at a checkpoint, which
  lies behind at least one request that is settled, or inside the request in
  hand, where read has got on; the shrinking of an answer goes back to a
  checkpoint and gives the request a smaller limit, and `ReadInv` says that
  both still lie ahead of the cursor the call was given. It assumes of the
  constants that the paths of the vault are finitely many and contain their
  parents (`VaultAssumption`), that a note is a sequence of lines
  (`BodyAssumption`), and of the calls what the validation of their inputs
  requires: a positive limit (`ListAssumption`), a positive room and at least
  one request, one alone in a read (`ReadAssumption`).

  `ListingsAreWhole` is `WholeAnswer` for ls: whatever is edited, cancelled or
  lost between the pages, a chain that completes has told the directory as it
  stood at one moment since the chain began. The inductive invariant adds three
  parts to `PInv`. `TreeInv`: the vault is a tree, and no number in it is from the
  future. `ListChain`: the cursor of the client *vouches* for what it was told
  (`Vouches`): as long as the directory that its source names still shows the
  identity and the version it names, the names in that source are the names of the
  directory, and what was told is exactly its entries up to the position, in
  order. `ListRun` says the same of a call in hand: as long as the directory is as
  it was at the first look (`Unmoved`), the names read from it are its names, and
  the identities of the baseline are those of its entries. What makes this
  inductive is that a version only grows and that a directory that is gone does
  not come back (`StampGrows`), so a source that is found as it was has been so
  all along, and the moment of the last look is one of the chain. Two further
  facts carry it: the order of the walk is strict and transitive
  (`LessTransitive`), so the entries behind a position are those the next page
  selects, and the directory that was opened has the spelling that was asked for
  but for case and normal form (`ListWalk`). It also assumes that the planted
  tree is one: whatever is planted lies in a planted directory
  (`VaultAssumption`).

  `ReadsAreWhole` is `WholeAnswer` for read: a chain that completes has told the
  whole unit that was asked for, every byte or heading once and in order, as one
  version of the note had it at a moment since the last call began. The inductive
  invariant adds `ReadChain` and `ReadRun` to `PInv`. The cursor of the client
  *warrants* what it was told (`Warrants`): its query is the one asked, and what was
  told is the piece (`Piece`) of that unit from its start to where the cursor stands,
  of the version that the fingerprint in the cursor names (`ToldUpTo`). A call in
  hand asks for the same thing, walks to a note of the spelling that was asked for
  (`NoteWalk`), and its answer warrants what the client will have been told. A page
  of content or of an outline shows the next piece and leaves its cursor at the end
  of it (`ContentFits`, `OutlineFits`), pieces that follow one another are one piece
  (`PieceJoins`), the last one ends where the unit ends (`UnitIsWhole`), and the look
  after the read (`Revalidated`) makes the vault of that step the moment.

Some proved theorems state properties that no run lists, because they are parts
of an inductive invariant or follow from it: the type invariants, the store's
`HolderView` and `SessionInv`, `StageSwept`, `OneOwner`, `ReadyIsSound`.

Only model-checked. Liveness (`PreparedSettles`, `ChoiceCompletes`,
`ResidueCollected`, `CallsSettle`, `StagesVanish`, `PayloadsReleased`,
`StopsWhenAsked`, `CallsReturn`) is out of the prover's reach.
Parts of three safety properties are model-checked only.
`PageIsSequential` compares a page with what `SequentialPage` folds over the
lines of all files, and `WholeAnswer` adds up the pages of a chain of grep in the
order of the walk: both are inductions over data, for which the library's theorems
take an operator as a parameter, and both rest on sorting and filtering of
sequences, which the provers cannot look into. `WholeAnswer` is proved for ls and
read and model-checked for read_many. `PagesGoOn` leaves out grep. For
grep the refinement is false in general: a byte budget that ends at an empty
note gives a page whose cursor does not advance (`grep_empty`, section 6); in
the notes of the `tools` instance it holds.

## 5. What is not modelled, and why

`PROJECT.json` gives a reason for each component. In short: path and topology
validation of a release request, parsing and formatting hold no state; launchd,
SQLite, the operating system, the MCP SDK and the provider are taken as the
code uses them; the smoke harness, the generators and the update script are no
part of the running program. Within modelled components: UTF-8, selectors and
excerpts of text; the JSON of a frame; the content of summaries; the resource
probe's measurements; opening of the database file; the CSV of an export; the
export stage that a dying gateway leaves behind (nothing in the code collects it).

## 6. Disagreements between code and documents

* `install_keeps`: `docs/runbooks/openai-tunnel.md:92` says an agent
  installation never unloads a running job, even on failure; the script boots
  the job out before it bootstraps it again.
* `sole_probe`: `docs/ynab.md:145` says that only one request may probe
  recovery. `record` clears the lease whoever holds it when a transient failure
  names a delay: an older request that fails late frees the lease of the
  running probe, and after the delay a second one is sent beside it. Without
  named delays the statement holds (`quota`, `OneProbe`).
* `grep_empty`: `docs/requirements/obsidian-filesystem-tools.md:178` keeps
  `limit_exceeded` for a byte budget that cannot take one complete line at the
  boundary. `schedule` (`grep_concurrent.go:285`) takes the allowance 0 of an
  empty note for an exhausted budget: if no file has been reduced yet the grep
  fails, and later the page ends at a boundary that the next page cannot pass.
* `grep_cancel`: lines 194 and 198 of the same document say that every worker
  is joined before the handler returns and that a scan is bounded by the shared
  timeout. After a cancellation a worker whose `select` has both choices may
  leave while a job is queued (`grep_concurrent.go:172`); the job's events are
  never closed, and `drain` waits for them before the deferred cancel and join.
  `CallsReturn` therefore excuses a cancelled grep.

Also noticed, without a run: `docs/runbooks/local-release.md:195` says a failed
installation unloads the newly added job; after a successful bootstrap nothing in
`install-launchagent.sh` does.

Also noticed, as a hazard: an update release captures its first service even
when that job is not loaded. Its rollback cannot restart the job, and the agent
cannot be installed while the slot is active; `ChoiceCompletes` therefore
assumes the captured jobs of an update to be loaded.

Noticed in the tools, without a run of their own:

* A reduction that fails while the window is full leaves through the walk's
  error, and `drain` still reduces later jobs; a limit they reach may turn the
  failure into a page that omits the file. It takes a change or a cancellation,
  which is why `PageIsSequential` speaks of calls without one.
* A grep of a single file opens it by path without binding it to the entry that
  was resolved; a file that grew in between is scanned to its old size and told
  as complete.
* `docs/requirements/ynab-tools.md:66` says: "If a native batch response cannot
  establish individual outcomes, report that uncertainty for the affected items
  rather than inferring success or failure." A transaction update by import ID
  that is alone in its request is a native PATCH too. Answered with empty lists
  (YNAB found no such transaction), it is told as a success without an id, because
  `acknowledge` (`projection.go:265`) asks whether `IDs` is nil and
  `projectProviderResult` has made it an empty list; only a field that
  `confirmTransactionFields` compares prevents this. In a group of two the same
  item is told as uncertain. The model does what the code does, and `BatchTold`
  excepts exactly this success (`Unnamed`); without the exception TLC finds it in
  the batch of `tools` that begins with such an update.
* A transaction created alone with an import ID is sent as a list, but its answer
  is expected to hold a single `transaction`; one that follows the schema for
  lists is told as uncertain. That is safe, and modelled (`Confirmed`).

## 7. Plan

Done: everything above. What is left, in the order of importance:

1. The proof of `ImplementsPages` for grep, from `checkpointAdvances`, under an
   assumption that excludes empty notes.
2. Two vault changes for read_many and ls together with cancellations, and a
   second directory level, in a larger instance.
3. The update script around a release, as a client of `ReleaseActivation`.
