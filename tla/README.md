# Verification of serpe

serpe is an agent harness written in Go: a run loop that alternates model turns
and tool batches, an executor that schedules tool calls, a session layer that
persists transcripts, provider adapters, and an HTTP API on top. This directory
holds TLA+ models of these parts, the TLC runs that check them, and TLAPS proofs
about the scheduler, the batches, the session layer, the file store and its
migration, the run loop, the HTTP API, the model stream and the bounded output of
tools.

Run a check with `tlc -workers 2 -config MCBatch.cfg MCBatch`, the proofs of a
component with `tlapm BatchProofs.tla` (`BatchProofs` and `ModelStreamProofs` take
some minutes from nothing, `ReadToolProofs` over ten).

## Inventory

| Component | State it keeps | Operations | Hard part |
|---|---|---|---|
| coordinator (`core/tools/coordinator.go`, `resource.go`) | tickets, discovery frontier, pending activators, final and held claims, permits, waiter queue | registerBatch, acquire, acquirePermit, releasePermit, discover, extend, release | shared by all batches of an executor; callers wait holding permits and claims |
| batch (`core/tools/batch.go`) | prepared calls, slots, fatals, error, buffered event channel, started/closed flags | Start, Next, dispatch, runCall, Close | one goroutine per call, cancellation from the parent, a sibling or Close |
| tool output (`collector.go`, `output.go`, `runtime/loops/tool.go`) | retained head and tail, partial runes and records, receipts | WriteRaw, PreparePrefix, Output, group writes, finalize, adaptToolOutput | limits on text and on frames at once; several writers of one group |
| read tool (`core/tools/builtin/read.go`, `cursor.go`) | cursors sealed by a key of the process | read by line, read by cursor | the file changes between two pages |
| other built-in tools, registry, schema, pattern | files, processes; configuration | write, edit, bash; register, validate | I/O; pure validation |
| run loop (`runtime/loops/stream.go`) | phase, err, closed, finished, stop reason, model stream handle, batch handle | Next (step by phase), Close, Event, Err, Result | one reader and a concurrent Close; blocking calls between critical sections |
| policy and budgets (`policy.go`, `run_state.go`) | turns, calls, tokens, tool bytes, identical steps, call IDs | decideAfterModel, stopBeforeTools, recordStep, accept | order of the limits, saturation |
| conversation and projection (`conversation.go`, `context_tools.go`, `message_budget.go`, `config.go`) | transcript, tool bytes spent | prepareModelRequest, admitTools, commitExchange, newConversation | eight limits at once; refusals after side effects |
| session manager (`manager.go`, `manager_ops.go`, `lifecycle.go`) | lock table, drain gate | Create, Get, List, Append, AppendAt, Patch, Fork, Delete, Close | read-modify-write under cancellable leases; drain before close |
| stores (`memory.go`, `file.go`, `storefs.go`, `layout.go`) | records; directory, lock file | Create, Load, Save, Delete, List, ListIDsPage, Close | publication by link and rename, uncertain commits, crashes, two processes |
| maintenance (`maintenance.go`, `migrate*.go`) | backup directory, manifest, format marker | apply, restore, cleanup | crash between steps |
| turn composition (`compose/turn.go`) | one commit per turn | Stream, Next, Close, Err, Session | commit before run_end is shown; length CAS |
| model stream, reducer, limits (`core/models`) | partial response, closed/finished/err | Next, Close, apply | Close during Next; protocol order of events |
| provider protocols (`core/providers/internal/protocol`, `transport/sse`) | decoder state per stream | four stream decoders, SSE reader | cut connections, parts out of order, state to send back |
| HTTP API (`internal/httpapi`) | permits, pump channel, cursors | runs, sessions, middleware | client disconnect while the pump runs; paging while sessions change |
| helpers, commands, web UI | none shared | | |

How they interact: the HTTP API (or a command) starts a Turn; the Turn reads the
session, drives a run and commits its suffix with AppendAt; the run projects its
transcript into a request, calls the model through a model stream over a
provider's decoder, and the tools through one Batch per exchange, whose outputs
are finalized within a quota; all batches of an executor share one coordinator.
Everything that two goroutines touch is behind a mutex of its own component, with
two exceptions the models keep: channels (batch events, lock tokens, the pump's
items) and the run loop's unlocked reads of its batch handle.

`PROJECT.json` lists every component with its status, the hazards found while
reading, each at its line, and the properties that cover them.

## Modules

    Coordinator            permits, claims, tickets                  proofs: BatchProofs
      Batch                batches over the coordinator             proofs: BatchProofs
    Sessions               abstract: atomic session writes
      SessionManager       leases, drain gate, load/save; refines it proofs: SessionManagerProofs
      Turn                 a run committed through AppendAt          (EXTENDS Sessions)
        HttpApi            admission, handler and pump, paging       proofs: HttpApiProofs
    FileStore              the store on its file system: crashes,    proofs: FileStoreProofs
                           kills, lock file
    Migration              offline apply, restore, cleanup; crashes  proofs: MigrationProofs
    RunLoop                one run: reader, Close, model, batch      proofs: RunLoopProofs
    ToolContext            requests, admission of tools, byte budgets
    StreamContract         abstract: what models.Stream promises
    Reducer                events, limiter, reducer as operators
      Decoders             four provider protocols as operators
        ModelStream        Next, Close, SSE body; refines        proofs: ModelStreamProofs
                           StreamContract
    Collector              the bounded text collectors
      ToolOutput           one output from tool to model
        ReadTool           paging through a file that changes    proofs: ReadToolProofs
    MC*                    instances for TLC

**Coordinator.** One action per operation under `coordinator.mu`. A goroutine
that waits in `acquireWaiter` is in `waiters`; each later evaluation of its
predicate is the action `Wake`, which is what the broadcast of `signalLocked`
allows: any waiter may be the next to look. A claim set is a function from
resources to access (0 none, 1 read, 2 write), which is what `normalizeClaims`
produces. `stage` records where a caller stands and corresponds to the program
counter of `runCall` or `callPlan`. The code's map `final` has no entry where
the model has `NoClaims`; both reserve nothing.

**Batch.** Every goroutine step of `Start`, `Next`, `dispatch`, `runCall` and
`Close`; a step that calls the coordinator contains the coordinator's action, so
what holds of the coordinator's state holds under batches too. A call is abstracted to its classification by
`Start`: rejected, activator, or plain, with its static claims. A callback may
return an output, fail, or return a context error, its own or its context's.
The events channel is the sequence of everything sent, with the number received.
`extend` looks at the context before it takes the mutex; `checked` remembers that
it did, so a call may still get its claims after a cancellation, as in the code.

**Sessions, SessionManager.** Sessions says what callers are promised: each
write is one step on the stored record. SessionManager has the lease table
(lock objects are named so that an entry removed from the map and a new one for
the same ID are different), the token channel, the drain gate, and one store
call per step. A store call may fail without effect or, as FileStore's can, take
effect and report an uncertain commit. A message is the client that appended
it, metadata the last client to patch it, time a small set of clock readings
that may go backwards.

**Turn, HttpApi.** A turn reads the session, runs on what it read, and appends one
message (its name stands for the suffix) if the length is still the one it read;
the append may be refused, fail, or be uncertain. The run is what RunLoop shows
its reader: events, an end, a cancellation. HttpApi adds the two goroutines of
a streamed run, the handler that writes frames and the pump that reads the Turn, the
channel of one item between them, the request and run permits, a client that may
go away at any time, and other clients that create, delete and list sessions and
page through messages. A listing skips records it cannot read (`Unreadable`: corrupt or
too large). An event too large for its frame makes the handler cancel the run and say
so. A cursor is what it decodes to; the attempts with which
`selectPageID` is repeated are bounded as in the code.

**FileStore.** One action per file-system call of `publishNamed`,
`replaceExclusive`, `Delete`, `initializeLayout`, `cleanupOwnedTemps`, and of
opening and giving up the lock file. `dir` is the directory as processes see it;
`durable` has, for each name, the contents it may have after a machine crash: a
change adds one, a directory sync leaves only the current one, and names are
independent of each other (the weakest reading of POSIX). A file whose data were
not flushed may come back torn. `promised` is a history variable: what the
results of Create, Save and Delete entitle callers to expect, an uncertain
commit leaving both values open. This is what SessionManager assumes of its
store calls: `failed` has no effect, `uncertain` may have one. A process is one
thread, since `writeMu` serializes writes. Lock files are named objects, so that
a removed one and a new one of the same name differ.

**Migration.** The same directory, one level up: a name appears whole and is on
disk after the next directory sync. Apply makes a backup with a manifest, writes
each record under its new name, removes the old one and publishes the marker;
restore goes the other way; cleanup removes the backup. Each may fail, be killed
or be followed by a machine crash between any two calls, and any operation may be
tried next.

**RunLoop.** `pc` is where the reader stands inside `Next`; each critical
section of `runStateMachine.mu` is one action, each blocking call between two of
them is another, and so is each of the unlocked reads of `s.batch.batch`. `mu`
is a variable because Close and fail keep it while `Batch.Close` waits. The
model stream and the batch are reduced to what the loop sees of them: events,
an end, an error, a number of finished calls. Validation, projection and byte
budgets are refusals that may happen at their place in the code. A second call of
Close returns at once and is left out.

**ToolContext.** What those refusals compute. A message is its calls (argument
sizes), its results (bodies of texts and images) or a summary; a text is a number
of plain and of heavy bytes, which JSON escapes sixfold. `ProjectToolContext`
follows `projectToolContextPlanned` stage by stage: which exchanges stay, the
summary of the others, images against policy, bytes and slots, the fair split of the
text budget among the newest results, compaction of each. `PrepareModelRequest`
is the contraction sequence. The actions are a model turn, an answer with tool
calls (admission, skeleton, quota), the end of the batch with any results within
the quota, and the next run over the committed transcript. Digests are the set of
calls they cover; UTF-8 boundaries are left to ToolOutput.

**StreamContract, Reducer, Decoders, ModelStream.** StreamContract states on the
whole sequence of delivered events what `core/models/doc.go` promises: grammar,
limits, one outcome, and a response that is what the events add up to. Reducer has
the limiter and the reducer as operators on their state, Decoders what one wire
event does to each of the four protocol decoders. ModelStream is the concurrent part:
`Next` holds no lock inside the source, which may block on the body until Close
closes it. The protocol `any` is an arbitrary `models.EventSource`. A text
that is not valid UTF-8 is the token `Garbled`, refused as the limiter refuses it. A map
whose order the code does not fix (the calls that get `{}` when a choice closes) is
emptied in the order of the parts, which stands for any: the events are of different
parts. The provider state of a candidate has a size limit, as in three of the decoders.

**Collector, ToolOutput, ReadTool.** A logical text is the sequence of the widths
of its runes and a retained window the sequence of the positions kept, so that a
hole, a repetition or a reordering shows. ToolOutput follows one output: written
through a collector, a group with two concurrent sources, or as blocks; then
finalized, sealed, possibly adapted and finalized again. ReadTool pages through a
file of one- and two-byte runes and newlines with `PreparePrefix`'s boundary,
while the file is edited or replaced and the process restarted. `targetChanged` compares
size, time and identity of the file before and after a call: a change it sees is
`ReadChanged`; one it does not see is two edits, before the call to the text that was read
and after it to the present one.

## Runs

| Run | Question | Instance |
|---|---|---|
| batch | exclusion, order, permits; channel, events, slots, error | four workloads: every kind of call in one batch; two activators; two contending batches; two batches of which one finds the ticket space exhausted |
| batch_live | does Close return, does the reader reach the end? | one permit; calls that wait for each other, the built-in tools, an exhausted ticket space |
| sessions | do lock objects exclude, and do load and save implement Sessions? | 2 clients, 2 IDs, every operation, transcripts of at most one message, a clock that may step back |
| sessions_live | do methods and Close return, is the store closed once and last? | 2 clients forking both ways, 2 concurrent Closes |
| store | are acknowledged writes kept, does the store open again? | a live store and a dry-run, one record of two values, two temporary files, kills and crashes anywhere |
| migration | does every record survive, can a backup be restored, is an opened store complete? | 2 records, 2 backups, any sequence of operations with failures and crashes |
| run | outcome, transcript, budgets, streams; cancelled runs end, Close returns | up to 3 turns, 2 calls, Close and cancellation at every step |
| run_nil (violation) | may the reader find its batch gone? | up to 2 turns |
| context | is every request faithful, bounded and fair; are results of admitted tools committed? | 10 configurations, up to 3 exchanges and 5 calls over 2 runs, 3 kinds of results |
| http | do commits extend what was read, do frames tell the truth, do permits, pages and disconnects come out right? | 2 turns, 2 other clients, 4 session IDs of which one is unreadable, pages of 2, one run and two request permits |
| stream | is the contract kept by four protocols and an arbitrary source? | short wire histories per protocol, two closers, limits that a few events reach |
| read | limits, head and tail, statistics of an output; do pages make up the file? | outputs of up to 7 bytes in writes of 1 or 2, two sources, files of a few runes, two edits |

Properties that belong together are one definition with named conjuncts
(`EventStreamSound`, `LeasesSound`, `OutcomeSound`, `TranscriptSound`, ...);
each conjunct carries its own comment.

The bounds are the smallest in which the interesting cases meet. An activator
between two conflicting calls needs three tickets. A race for a removed lock entry
needs a client that looked the entry up and one that releases it and comes back. A
run needs two exchanges to stall and a third turn to hit the turn limit. A turn that
commits to another transcript of the same length needs a deletion, a creation and
a second turn. A summary, an older and a newest exchange need three exchanges; a
summary that pushes out one more needs five calls. A head, a tail and something
dropped between them need seven bytes where each window has two. `MaxTicket`,
`MaxLen`, `MaxEvents`, `MaxInt`, `Locks`, `Temps`, `Inodes`, `MaxRequests`,
`MaxWires`, `MaxRaw`, `MaxEpochs`, `MaxExchanges`, `MaxCalls`, `MaxRuns` and the
constraint `Small` are the named bounds. Sizes in `context` and `read` keep the order of the
real ones and are scaled down. Symmetry (clients; values, files, records) is used
for safety only.

CHECK_DEADLOCK is off where the modelled goroutines really end (all batches
closed, a run exhausted, the store closed, a bounded history used up).

Fairness. A goroutine that can run does (weak fairness per goroutine); callbacks,
planners and store calls return; the reader of a batch or run keeps pulling,
which is what the run loop and the HTTP pump do. In RunLoop the model and
the tools need not return by themselves: they return once the context is done,
which is what `RFairSpec` says and what Close relies on. In HttpApi the handler
and the pump run and an inner run whose context is done ends; clients need do
nothing. In ModelStream a read returns only from a closed or cancelled body. Nobody
has to call Close or to cancel. For leases, taking the token from its channel is
strongly fair: Go channels serve blocked receivers in order.

### What the violation shows

`run_nil`: `drainToolBatch` checks `s.batch.batch` and then calls methods on it
without `mu`; Close in between leaves nil there.

### Further configurations

These show where the code and its comments part, one property each. They are
kept to be run by hand (`tlc -config MCRunLoop_leak.cfg MCRunLoop`); TLC finds
each violated. `MCCoordinator.cfg` explores the coordinator alone, with
four tickets and more kinds of claims than the batches need, and holds.

* `MCCoordinator_starve.cfg`, `PermitRequestsServed`: an activator in `extend`
  keeps its permit while it waits for an earlier call's claims; if that call is
  still queued and every permit is held that way, all of them wait until a
  context ends (`coordinator.go:168` speaks of FIFO fairness).
  `BatchTerminates` shows that this is the only way a reader can be kept.
* `MCFileStore_lock.cfg`, `OneOwner`: a dry-run removes the lock file it made. A
  process that opened that file before locks it afterwards, when no directory entry
  leads to it any more; the next opener makes and locks a new file
  (`storefs.go:132`; `file.go:15` promises an exclusive lock).
* `MCRunLoop_leak.cfg`, `BatchesClosed`: a batch that `Start` returns after Close is
  attached and never closed (`stream.go:444`; `core/tools/doc.go:17`).
* `MCRunLoop_runend.cfg`, `FailureHasNoRunEnd`: Close between the context check
  and `applyAfterModel` gives the caller both an error and run_end
  (`stream.go:365` against `stream.go:16-17`). `OutcomeSound` lists this end of a run
  as the third and last one possible.
* `MCHttpApi_uncertain.cfg`, `ErrMeansNotCommitted`: an uncertain commit makes Err
  non-nil although the suffix is stored (`compose/turn.go:188-194` and
  `sessions/storefs.go:334-338` against `compose/turn.go:213-214`). `FramesTruthful`
  exempts the uncertain commit from what an error frame says.
* `MCModelStream_empty.cfg`, `NeverEmptyOnEOF`: a Gemini body whose chunks name no
  candidate and report no block, ended cleanly, becomes a completed response without
  candidates (`google/stream.go:263-268` against `core/models/doc.go:18-19`: "never as
  a successful empty response"). `NoSilentTruncation` exempts that body and no other.
* `MCMigration_resume.cfg`, `RestoreResumes`: a restore that stopped half-way is
  refused when it is tried again (`migrate_restore.go:39`).
* `MCModelStream_state.cfg`, `StateAccepted`: a response streamed by the
  Anthropic or Google decoder may carry a provider state that the next request's
  encoder refuses (`anthropic/stream.go:145-170`, `google/stream.go:160-192`;
  `core/models/doc.go:21-22`).
* `MCReadTool_cursor.cfg`, `PagesReassemble`: the prefix collector remembers its
  boundary before the rune that did not fit but goes on accepting shorter ones that
  still fit, so a page may contain text from behind its own cursor, and the next
  page repeats it (`collector.go:206-219`, `read.go:239-283`). With
  one-byte runes it cannot happen: `AsciiPagesReassemble`.

## Proofs

Each proofs module states the inductive invariant of its component, shows that the
initial states satisfy it and that every action keeps it, and derives the
properties. The invariants were first checked with TLC on the runs' instances. The
theorems hold for every value of the constants that satisfies the named assumption of
the module, which TLC evaluates on every run; the bounds of the runs (`MaxTicket`,
`MaxLen`, `Locks`, `Temps`, ...) are constants too, so nothing depends on their size.

**Coordinator** (in `BatchProofs`; `ConstantsAssumption`: at least one permit, finitely many planners
distinct from tickets, batches non-empty). `MutualExclusion`,
`ConflictsRunInTicketOrder`, `FrontierGuards`, `PermitsExact`. Exclusion alone is
not inductive: `extend` compares against final claims of earlier calls only, so one
needs `NoOvertaking` (what a call holds never conflicts with what an earlier live
call reserved), which in turn needs that no holder lies beyond the frontier
(`FrontierGuards`): an undiscovered activator is never earlier than a holder, so a
late discovery cannot conflict retroactively with a later call that already runs.
`StageInv` ties the goroutines' stages to the coordinator's sets, and `QueueInv` says
the queue has each waiter once. `PermitsExact` is proved on top with the
cardinality facts of FiniteSetTheorems.

**Batch** (`RequestedAssumption`: a request lists prepared calls, and the shapes a
batch may get once planners answered are among those the coordinator registers).
Every step of a batch is one the coordinator allows or leaves it alone (a lemma, which
follows from how the actions are composed), so its theorems carry over
(`BatchesKeepOrder`); and `EventStreamSound`, `ErrAccountsForFailures`,
`CloseLeavesNothing`. `ErrAccountsForFailures` says what Err is, not what happened first:
the failure that leads is the own failure of the lowest call, which may be one that a
cancelled sibling had of its own while it was ending. `BInv` adds, per batch, where
dispatcher, reader and Close stand (`ControlInv`), what a planner may hold (`PlanInv`),
which slots go with which stage of a call (`CallsInv`), what the event log
contains (`LogInv`: at most one start and one end per call, which bounds the log by
an injection into twice the calls), and which fatals may exist (`CauseInv`: a context
error is recorded only after the cancellation it reports). A step of one batch touches
only its own variables and tickets, so each action is examined for one batch only.

**SessionManager** (`ManagerAssumption`, `SessionsAssumption`, `AbsentAssumption`:
finitely many IDs, as many lock objects, only Fork names two sessions).
`LeasesSound`, `CloseSound`, the refinement `AtomicSessions` of Sessions and, through
it, `SessionsOnlyGrow`. The invariant says that a reference on a lock object belongs to a
client with a lease on an ID (`TableInv`: so no entry is removed under a waiter), that the
token is in the channel or with one holder (`TokenInv`), that the gate counts the
clients inside (`GateInv`), and that a loaded record is still the stored one
(`WorkInv`), which makes load and save one atomic step.

**FileStore** (`FileStoreAssumption`: names and contents are distinct).
`PromisesKept` and `AcknowledgedStoreReopens` under `WritersExclude`: no process is a
dry-run, or only one process writes. That hypothesis is where the lock file's weakness
(`MCFileStore_lock.cfg`) shows: with a dry-run that removes the lock file, two
writers may own the store and nothing can be promised. Without dry-runs `LockExcludes`
proves that two processes never own it. `JobInv` ties the stage of a publication to
what its temporary file and its name may hold after a crash; `RecordInv` says that a
name holds what was promised or the value of a write that has changed it and not yet
returned.

**Migration** (no assumption). `RecordSurvives`, `OpensComplete`, `RestoreAccepted`. A
record is `Settled` when its old name is on disk or its new one certainly is. Apply
keeps it settled because it syncs between its two changes. A second restore may not: it
leaves a source as it is that the first linked and did not sync, and removes the
target. Then the record is `Covered` by a complete backup that is on disk, and
`RecordInv` says which of the two holds when. Cleanup is safe because a name that shows a
target implies a settled record, although cleanup looks only at the directory as it is.

**RunLoop** (`RunLoopAssumption`: positive limits, token counts within `MaxInt`).
`OutcomeSound`, `TranscriptSound` and `StreamsReleased`. `OutcomeSound` says that a
finished run has exactly one of three ends; the third, run_end with an error, only if
Close recorded its cancellation after the context check of the deciding step. The invariant relates the reader's place inside `Next` to the phase
(`ControlInv`), closer and mutex (`CloseInv`), stop reason, error and phase
(`StopInv`), the owner of the open model stream (`StreamInv`), and the size of an
admitted batch to what is left of the call budget (`BudgetInv`).

**Turn and HttpApi** (`TurnsAssumption`, `HttpAssumption`: runs are turns, limits are
positive; `StoredAssumption`: a server finds finitely many sessions).
`CommitExtendsWhatWasRead`, `FramesTruthful`, `RunsBounded`, `PagesComplete`.
`AppendAt` compares lengths only; `ReadsPrefix` is why that is enough as long as the
session was not deleted and created again, a case the theorem excludes and the code does
not detect: until then its transcript begins with what the turn
read. `DecidesOnce` and `CommitOK` fix the order of run_end and commit, `ChannelOK` and
`SeenOK` carry it through the pump's channel to the client, and `PermitsInv` counts
the handlers that hold permits.

`PagesComplete` has an invariant of its own, `PageInv`, and two halves. The first is the
algorithm: `ListIDsPage` folds `SelectPageID` over the stored IDs in no particular order.
`SelectKeepsSmallest` shows that one step keeps the `limit + 1` smallest IDs behind the
cursor; `SubsetInduction`, induction over the subsets of a finite set for a property given
as a set, carries that over the fold (`SelectionIsSmallest`) and also shows that the sort
exists (`SortingExists`); `PagesAreSound` is the result, no ID left out between a cursor
and the next. The second half is the client: between two pages, what it has seen goes up
to its cursor and misses nothing that was there all the time (`ListOK`); inside a page,
what is loaded and what is still to be loaded are those of the page (`LoadingOK`), also when
a session disappears before it is loaded or a response is cut short; a transcript still
begins with the snapshot of the first page (`DetailOK`), because `WriteFrame` says that
every step leaves the store alone, lengthens a transcript, or deletes a session that then
is no longer one the client must see.

**ModelStream** (`StreamAssumption`: the reader may close, the protocols are the known
ones, every protocol reads a bounded number of wire events, limits are integers per
field, Google's candidates and part counts are numbers). `StreamImplemented`, the
refinement of StreamContract, and `NoSilentTruncation` (with its exception, the Gemini body
that names no candidate). The contract speaks of the whole
sequence delivered, the code keeps accumulators; `StreamInv` says that the second are
functions of the first (`Mirrors`: response, parts and texts; `Counts`: the limiter's
counters), that the sequence is grammatical, and that the flags of `eventStream` agree.
Every step then is one the contract allows, or a stutter. `SourceInv` does the same on the
other side of `source.Next`: a decoder that has not finished has a response end neither
queued, nor in the reader's hands, nor delivered (`Underway`); one that finished has read
what ends a response in its protocol (`Evidenced`), with the finish reason it reports
among those the wire events gave (`ReasonsRead`); one that failed is not read again
(`Broken`). The proof takes one lemma per wire event of each decoder. It also found a
`CASE` of the model, the end of a Responses part, whose guards overlapped; which one
applies is now explicit.

**Collector, ToolOutput and ReadTool** (`CollectorConstants`: a frame chunk and the
marker have a size; `OutputConstants`: limits are numbers, a block is an image or the
runes its size adds up; `LimitFloors`: the floors of `normalizeOutput`). `DeliveredWithinLimits`,
`CollectorNeverDiscards`, `HeadAndTailKept`, `StatsTruthful`, `AsciiPagesReassemble`, for any
widths, writes, sources, files, lists of blocks and limits. `OutputInv` says three
things. A plain collector's window is all of its stream as long as nothing was omitted, and afterwards a head within `HeadBudget` and a tail
within `TailBudget` that ends the stream (`PlainWindow`); that both shares are kept, rather than
their sum, is what makes the next trim possible without touching the head. A group's tail may
have lost records in its middle, so there it is positions behind the head in increasing
order (`RecordWindow`). An output that was handed over carries a true receipt
(`IsReceipt`), which is what `verifyReceipt` can rely on. The trailer that `Output` appends
and the marker of a truncation fit because `MaxCollectorBody` reserved their frame chunks
(`RenderedFits`, with `FrameMonotone` for the rounding of frames up to chunks). For blocks,
`BestKeep` is the binary search of `truncateBlocks`: it returns -1 or a keep whose shape was
measured as fitting, whether or not fitting is monotone in the keep, which the proof
does not need.

`DeliveredWithinLimits` also says when a call may fail: a tool returned nothing, another
call's output or an edited collector output, or it returned an image (`MayFail`). An
image may fail the call because `adaptToolOutput` turns a limit into an error when neither
replacement fits. `OriginInv` carries this, with where a result was made from: the tool's
blocks, the budget error, or blocks in which an image of the tool's was replaced
(`Adapted`). After such a replacement the mark speaks of the replacement alone: an output
truncated before it and small enough afterwards is sealed unmarked (`tool.go:71-87`,
`output.go:116-121`), so `StatsTruthful` promises nothing about the tool's own content
there, and for blocks it says what a marked output is, not that something was lost.

`StatsTruthful` needs a third invariant, `StatsInv`: the flag of a rendered output is that of
the collector, a sealed output of a collector was not edited, and one of blocks tells the
truth about itself (`TrueStats`). For a collector, truncated must mean that something is
missing (`Lost`). A Prefix window that omitted a unit is shorter than its stream; a HeadTail
window is shorter because it is within the budget and the stream is not (`Overflowed`; a group,
whose frames count too, has increasing positions, and as many of them as the stream has
units would be all of it, `IncreasingWhole`). For blocks, the concatenation of what
`applyKeep` leaves of each is a head of the concatenated text, the marker and a tail of it.
The head's cut never lies behind the tail's (`CutsOrdered`, from the keep being at most the
text's size). The marker goes into the block where the head ends: blocks before it are kept
whole, those behind it keep no head, and once a block's tail begins inside it no earlier one
keeps a tail (`Cuts`, `KeptPieces`). The number of runes of a block that start before a cut is
none for a cut before the block, all for one behind it, and grows with the cut (`RunesNone`,
`RunesAll`, `RunesMore`), which is what `Cuts` asks of `applyKeep`.

`AsciiPagesReassemble` (with `FileConstants`: a file is a sequence of runes) rests on
`ChainInv`: a chain has returned the runes of the text it began with, from its start up to
some place (`Taken`), and its cursor holds that text and that place. A page of `n` ASCII runes
is known exactly, by an induction over the writes of a call (`PageOf`, `WriteAscii`,
`WriteRunesAscii`): the first `n` of them, or as many as the body budget has bytes. A rune
takes one byte, so a page that was cut has no room left and nothing behind the cut can enter
it, and the kept bytes that `NextOffset` adds are the number of runes returned (`PageAscii`);
that is what fails with wider runes. Edits, replacements and restarts between two calls make
the cursor stale or leave its text as it is.

The three modules compute with recursive functions and library folds. `RecursionExists`
shows once that a definition by recursion on a rank denotes a function (the fixed point of a
functional, built by `SetInduction`); sums, the left fold over the units of a write
(`LeftFoldExists`) and the search (`SearchExists`) are instances of it, and
`RankInduction` and `FoldInduction` carry a property, given as a set, through them.

What texts add up to (`FlattenSeq`) and what a decoder makes of a list of parts are
recursive functions. The library's induction theorems take an operator and cannot be
used; `SetInduction` is the same for a set (a set of naturals with 0 and closed under
successor is Nat), proved from the least-element theorem of WellFoundedInduction, which takes
a set. With it the recursive functions a theorem needs are handled one by one.

Only model-checked:

* liveness (`BatchTerminates`, `ManagerReturns`, `RunReturns`, `DisconnectedRunEnds`,
  `CloseReleasesReader`), which like ENABLED is out of the prover's reach;
* `ContentKept` and `StateReplays`: they compare what a decoder accumulated over a
  whole wire history with a second recursive function of that history, protocol by
  protocol. What is proved is the half that does not depend on content: when a response
  exists at all, and that it is what was delivered;
* `RequestSound` and `AdmittedExchangeCommits` of ToolContext: sums, fair splits, folds and
  sorted selections of recursive functions, where each lemma is an induction over data
  of its own.

## Not modelled

See the components with status `not_modelled` in `PROJECT.json`: configuration
and construction, encoding and validation of values (JSON schema, patterns,
images), request encoders and HTTP transports, the file and process I/O of the write,
edit and bash tools, user interfaces. They keep no shared state, or it is the
operating system's; where their verdict matters it is a nondeterministic refusal
or an attribute of a value in the module that uses it.

## Plan

1. Proofs: the budgets of ToolContext that are plain arithmetic (what an admitted
   batch may spend), with the lemmas on sums and folds of ReadToolProofs.
2. The edit and write tools over FileStore's directory, with a crash between
   their write and their rename.
3. Bash: process groups, deadlines and the group collector in one module.
