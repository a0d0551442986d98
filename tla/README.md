# TLA+ models of the Sovereign AI Workbench

Specifications, model-checking instances and machine-checked proofs for the API
of this repository and the chat pages of its web client. Paths below are
relative to `src/apps/api/src/workbench/` unless they begin with `src/`.
`PROJECT.json` names, for every definition that models code, the lines it stands
for.

- Model-check: `tlc -workers 2 -config Stream.cfg MCChat.tla`
  (the table of runs gives the module of every `.cfg`).
- Check proofs: `tlapm ApprovalGateProofs.tla` (and `AuditChainProofs`,
  `DocumentProofs`, `AgentLoopProofs`, `ChatProofs`, `ResidencyProofs`,
  `ServicesProofs`, `ListTheorems`); each takes a few minutes at most.

## 1. Inventory

The workbench is one asyncio process (FastAPI) over Postgres, a vector store,
local model backends and a file store. Everything that happens concurrently
happens at an `await`: two coroutines never run at once, but anything may run
between two awaits of one of them, and a coroutine whose client leaves is
cancelled at its await. Cancellation is a `BaseException`, so `except Exception`
does not see it. Threads (the sandbox's) are not cancelled at all. Most of the
hard behaviour of this code follows from these facts and from one more: a
decision is often read in one database transaction and acted on in another. The
algorithms that turn documents into passages, and passages into an answer with
references, have no concurrency; what is hard about them is that a wrong result
looks like a right one.

| component | state | operations | meets | hard part | correct when |
|---|---|---|---|---|---|
| Approval gate and deferred action (`agent/approval.py`, `agent/deferred.py`, `api/v1/approvals.py`) | a row of `approvals` | request, decide, expire_stale, execute_approved | agent loop, artifacts, audit log | endpoint, run and sweep act on one row; a process dies between claim and result | no document without a second person's sign-off, at most one per claim, everybody who waits returns |
| Audit log (`security/audit.py`) | `audit_events`, `_chain_lock` | log, log_durable, verify_chain | every endpoint's transaction | lock shorter than the transaction; rollback leaves gaps | links resolve; verification finds exactly what is wrong |
| Run stream (`api/v1/chat.py`, `api/sse.py`, `api/v1/runs.py`) | `agent_runs` row, bounded queue, generator, pump, finaliser | open, pump, deliver, finalise, refuse, reap | agent loop, client | cancellation at different awaits, backpressure, process death | frames arrive in order and complete; every run is closed once, with the outcome it had |
| Model residency (`providers/residency.py`) | the ledger, `_activation_lock`, what backends hold | acquire, release, forget, warm_pinned, sync_from_providers | agent loop, backends | stale victims, aliases of one model, backends unloading by themselves | budget kept for large models, one activation at a time, nobody waits for ever |
| Agent loop (`agent/runner.py`, `agent/state.py`, `agent/artifact_intent.py`) | `AgentState`, `Budget` | plan, repair the plan, execute steps, retry, synthesise | all of the above | re-planning on the state the first plan left; cutting a plan after repairing it; a budget looked at between steps | what was asked for is in the plan or declined; budgets end every run; nothing done is hidden |
| Answer checking (`rag/citations.py`, `agent/numerics.py`, `agent/refusal.py`, `_validate`) | evidence, citations, verdict | merge, resolve, verify figures, judge | agent loop, retrieval | numbers given in one list and read in another | every reference leads to the passage that was shown |
| Document ingestion (`api/v1/documents.py`, `ingest/`) | `documents` and `chunks` rows, vectors, blobs | upload, read pages, index, delete | retrieval, audit log | two stores without a common transaction; duplicate check minutes before the insert; a page nobody could read | the stores agree after every failure; the report says what was not read |
| Retrieval (`rag/`) | none of its own | chunk, embed, search, fuse | vector store, backends | splitting, batching and numbering at their boundaries | the contents of a document can be found, under their headings |
| Router and breaker (`router/`, `providers/registry.py`) | what is believed installed, open breakers | route, probe, trip, stand in | agent loop | a whole backend down; a probe that overlaps another run; cooldown | an outage is remembered by every run, and not for ever |
| Providers (`providers/openai_compat.py`, `providers/ollama.py`) | a stream being read | stream, generate, embed | agent loop, retrieval | fragments of several tool calls mixed; a stream that ends early | what was sent is what is handed on |
| Tools and sandbox (`tools/`, `sandbox/`) | two semaphores, threads, containers | dispatch, run code, calculate, reap | agent loop | a cancelled call whose thread and container go on | calls end and are shown; containers go |
| Documents a run produces (`tools/artifacts.py`, `artifacts/`) | none of its own | make a report, a deck, a workbook | approvals, agent loop | what is cut, salvaged or renumbered on the way | nothing is left out unsaid; references lead somewhere |
| Event bus (`core/events.py`) | replay buffer and subscriber queues | publish, subscribe, close, discard | nothing yet: no publisher in the application | overflow, close with a full queue, reconnection | a subscriber misses nothing and sees the end |
| Web client's chat (`src/apps/web/src/stores/run.ts`, `hooks/useAgentStream.ts`, `lib/replay.ts`, `app/chat/`) | the messages on screen, the request, the query cache | send, reduce events, stop, navigate, reopen, archive | run stream, conversations | callbacks of a run the page has left; live and rebuilt views | one view per run, whichever way it was reached |
| Conversations (`api/v1/conversations.py`) | messages | add turn, read, list, rename, archive | run stream, web client | a turn saved by the finaliser | see run stream and web client |
| Process start and settings | - | reap, warm, attach | run stream, residency, documents | crash between two writes | see the components they start |
| Sessions, roles, request policy | accounts, sessions | log in, authorise | every endpoint | - | outside the scope of this project |
| Evaluation and scripts | - | measure, seed | - | - | not modelled |

How they interact: a chat request opens a *run* and streams what the *agent
loop* yields. The loop *routes* to a model, *acquires* it and asks its *provider*
before each generation; a step that wants a controlled tool *requests approval*
and polls the row; another person's `decide` call and the loop both call
`execute_approved`, whose claim is one conditional `UPDATE`. Any other tool goes
through the *dispatcher*. Every endpoint writes *audit rows* in its own
transaction. When the stream ends, however it ends, a detached finaliser closes
the run row; the *page* shows what was streamed, and what was saved when it is
opened again.

## 2. Modules

| module | models | extends / instantiates |
|---|---|---|
| `ApprovalGate` | one approval row with its run, its decide calls, the sweep; `execute_approved` | instantiates `SignOff` |
| `SignOff` | what the gate promises of the deferred action (abstract) | - |
| `AuditChain` | the hash chain: transactions, lock, sequence, `verify_chain` | - |
| `Lists` | the filter that queues, ledgers and logs are put through, an order given to a set, a sum | - |
| `RunStream` | one chat request: row, generator, pump, queue, client, finaliser, reaper | extends `Lists` |
| `RunView` | the chat pages: store, reducer, hook, navigation, what is saved and rebuilt | extends `Lists` |
| `Residency` | the ledger, the lock, eviction, reconciliation | extends `Lists` |
| `DocumentStore` | uploads and deletions over a database and a vector store | - |
| `Planning` | from the planner's reply to a plan: parsing, repairs, the cut | extends `Lists` |
| `AgentLoop` | one run: planning twice at most, steps, retries, budget, answer | extends `Planning` |
| `Answers` | fusion, evidence, references, figures, refusal, verdict | extends `Lists` |
| `Routing` | lanes, availability, breaker, stand-ins, several runs at once | - |
| `ToolCalls` | dispatch, semaphores, threads, containers, reaping | - |
| `Calculation` | the calculator and its check against the documents | - |
| `EventBus` | the bus of one run and the streams read from it | extends `Lists` |
| `Chunking` | sections, splitting, packing, what is embedded | - |
| `ProviderStream` | what the adapters make of streams, replies and batches | - |
| `PageReading` | sniffing, extracting, recognising and escalating the pages of a file | extends `Lists` |
| `Artifacts` | what of a call reaches a report, a deck or a workbook | extends `Lists` |
| `ApprovalGateProofs`, `AuditChainProofs`, `AgentLoopProofs`, `ResidencyProofs` | inductive invariants and what follows from them | the module named, `ListTheorems` or `TLAPS` |
| `DocumentProofs` | the same for documents: how they are stored, read, answered from and made | `DocumentStore`, `Answers`, `PageReading`, `Artifacts`, `ListTheorems` |
| `ChatProofs` | the same for both ends of the connection, the page and the run's stream | `RunStream`, `RunView`, `ListTheorems` |
| `ServicesProofs` | the same for the event bus, the router, the calculator and the adapters | `EventBus`, `Routing`, `Calculation`, `ProviderStream`, `ListTheorems` |
| `ListTheorems` | lemmas about sequences: induction, filtering, numbering a finite set, folds, flattening, order, sums | `Lists`, `TLAPS` |
| `MCApprovalGate`, `MCAuditChain`, `MCRunStream`, `MCRunView`, `MCResidency`, `MCDocumentStore`, `MCAgentLoop`, `MCPageReading` | bounds of one component | the module named |
| `MCChat` | both ends of the connection: a run on the server, or two on the page | `RunStream`, `MCRunView` |
| `MCServices` | ten components that share no state | the ten modules |

In every component module there are *faults*: variants of a definition (a dropped
guard, a missing lock, a wrong order), marked as such. No specification uses them.
They exist so that each checked property can be shown to tell the variant from the
code: with the variant in place of the definition TLC finds the property violated.

`MCServices` checks components that share no state in one run. Its variable
`part` says which one acts in a behaviour; the others stay in their initial
states. The states are therefore the sum of those of the components and not
their product, and nothing is claimed about their interplay. `MCChat` does the
same with `side`: the two sides of the connection share the protocol, not state;
what the page is sent is bounded by `MCRunView`'s scripts.

### ApprovalGate

Rows never touch each other, so one row stands for the table. `status`,
`decidedBy`, `executedAt`, `result` and `overdue` are the columns the code
branches on (`executedAt` is whether the column is set; `overdue` is
`expires_at < now`). `files` are documents written to the store, with how they
were made and whom they name as approver; `rows` those with an `artifacts` row.
Processes are the decide calls (`Calls`), the run (`Run`) and the sweep
(`Sweeper`); `pc` says at which await each is. Actions are cut at database
commits: `DecideRead` / `DecideWrite` because `decide` selects the row without a
lock and commits later; `ExecRead`, `Claim`, `LoadRequester`, `Dispatch`,
`ExecPersist`, `Record` are the transactions of `execute_approved`; `Claim` is
one step because it is one `UPDATE ... WHERE executed_at IS NULL AND status =
'approved'`. `AwaitWinner` / `AwaitTimeout` are the loser's wait. `RunSees`,
`RunStopsWaiting`, `DirectDispatch`, `StreamPersists` are the waiting run.
`Disconnect` cancels the run at its await; `Crash` ends everything in flight.
`signedOff` and `overwritten` are history: no action reads them.

`expire_stale` is modelled under the switch `SweepScheduled`, because nothing in
the program calls it. It is on in the run `approval`, where nothing obliges it to
happen, so that its interleavings and its absence are both covered, and off in
the violation. That a request nobody decides stays pending for ever is behaviour
of this model and of the code; `ApprovedIsCarriedOut` speaks of approved requests
and does not call it wrong.

`SignOff` is the abstract promise: people other than the requester sign, after
that the action is taken up once, yields at most one document that names a
signer, and is closed for good. The refinement maps `executed_at` to "taken" and
a recorded `execution_result` to "closed", and keeps the deferred documents.

### AuditChain

`log` is the set of committed rows; `pending[w]` the rows a transaction has
flushed. A transaction sees `Visible(w)`: READ COMMITTED. `Reserve` takes the
lock and a number, `AppendRow` links and flushes the row and releases the lock,
`Commit` and `Rollback` come later: that is what the code does (`log` holds the
lock for the `flush`, the caller's session commits). SHA-256 is a free
constructor. `Window`, `ExpectedBefore`, `Broken` and `FirstInvalid` translate
`verify_chain(start_seq, limit)`; its `ORDER BY` is `InOrder`, which puts a row at
its rank.

### RunStream

Frames are numbered in the order they are made. `pc` is where the generator and
its pump are: `working` inside the agent, `put` suspended in `queue.put`, `end`
about to put the end marker, `cut` abandoned at its yield after the pump was
cancelled, and three stages of a refusal. `final` is the detached finaliser:
closing the row, saving the turn, auditing. `Write(ok, failed)` is a best-effort
write, which may be lost. `Disconnect` distinguishes where the cancellation
lands: inside the agent it reaches the generator (`CancelledError`: cancelled,
with a failure noted); inside `put` it reaches only the pump, and the generator
is closed later by `Collect`, with `GeneratorExit` and whatever status it has.
`Restart` and `OtherBoots` run `reap_orphans`, whose select and write are two
steps. `MaxFrames` bounds the frames before an answer, `MaxCrashes` the crashes,
`MaxBoots` the boots of other processes.

### Residency

`entries` is the ledger in order of last use, by logical name; `loaded` is what
the backends hold, by weights: the code unloads and loads physical models and
keeps books on logical ones. `victims[t]` is the eviction order a task computed
before its first await. `Acquire` is the part of `acquire` before any await;
`TakeLock` looks at the ledger again; `MakeRoom` runs from one unload to the
next; `Load` records the model whether or not the load worked. `Use` and
`UnloadedUnderneath` are the two things a backend does with a model it no longer
holds: load it by itself, or say so, upon which the runner forgets and
reacquires it once. `TimedOut` is a caller whose own limit is over (the generation
of arguments, `agent/runner.py:784`) and which is cancelled at the await it is at:
the lock is freed by its `async with`, a victim that was being unloaded is still in
the ledger and a model that was being loaded is not, whatever the backend did of it.
`SyncBegin`, `SyncPoll`, `SyncApply` are reconciliation, one
poll per backend.

### DocumentStore

A document is named by the upload that makes its id. `docs` is the committed row
(`deleted` is a row with `deleted_at`), `chunks` the documents with committed
chunk rows, `vectors` those with points in the vector store. Pages and blocks
are inserted with the chunks; a deletion deletes the chunk rows alone and leaves
pages and blocks, which no search reads, so they are not in the model.
`attached` is whether the process found the vector store when it started, which
decides whether `app.state.indexer` exists at all. An upload reads whether there
is a row with its hash (`UploadRead`), is processed for as long as that takes
(`Ingest`), inserts its row and flushes (`Insert`, where the unique hash makes
it wait for another transaction or lose to a committed row), embeds, upserts,
and commits: from `Insert` to `Commit` is one transaction (`InTransaction`),
whose effects show at `Commit`. A deletion loads the row, purges, and marks the
row in its request's transaction. Each call to the vector store may fail with or
without its effect; `Disconnect` cancels an upload (a deletion is not streamed,
and is not cancelled), `Restart` all requests. `pc = "torn"` is a request that
failed after it had called the vector store, `"gone"` one that was cut short,
`"unpurged"` a deletion without a vector store. A document is taken to have at
least one searchable chunk.

### RunView

A message is an assistant's turn and its `view` what `applyEvent` makes of the
events so far. `turns` are the messages on screen, `conv` the conversation they
are of, `running` the store's flag; `page` is the address and `ctl` the run whose
request the mounted workspace can abort; `stream[r]`, `seen[r]` and `buffer[r]`
are the request of a run, how much of it was read, and the fragments waiting for
the animation frame.
`saved[r]` is what the server has of the run, from which `Hydrated` rebuilds it;
`cache` is the query cache, which nothing invalidates. `Send`, `ReceiveStarted`,
`ReceiveToken`, `Receive`, `Flush`, `StreamFinishes`, `ConnectionLost` and `Stop`
are the callbacks of the hook; `Visit`, `Load`, `Forget`, `NewChat` and `Archive`
the pages. The hook's `AbortController` belongs to a workspace, and the first
event of a new chat replaces the page: from then on `Stop` reaches the store only.
`ConnectionLost` may come after the last frame too, and a failure then replaces the
outcome the run had sent (`WentWrong`). Of a citation the server stores everything
but the type of its document and its section (`AsStored`).

### Planning and AgentLoop

`Planning` is the pure part: a step is its intent and its tool, a reply is JSON
with its raw steps, text that does not parse, or JSON of another shape. The
operators follow the order of `_parse_plan`: read, drop what cannot run, add the
document that was asked for, one step per document tool, the answer last, cut.

`AgentLoop` is a run. `pc` names what it waits for, `steps` and `done` are the
plan and how much of it was taken, `toolCalls`, `tokensOut` and `late` the three
limits of the budget (the last two as "reached"), `loops` the rewriting rounds
of the whole run. `Plan` includes the second planning, on the state the first
left; `NextStep` looks at the budget and chooses; `Search`, `Judge`, `Rewrite`
are `_retrieve`; `Bind`, `Gate`, `Dispatch`, `Rebind`, `Redispatch` are `_act`,
where the events of a refused call are held back until its correction is
settled; `Answer` is `_synthesise` and `_validate`; `Fail` is what nothing
catches before `run`, and `Compacted` that a result longer than 2000 characters
is cut there, read as JSON and so fails the run after the tool has worked.
`elsewhere` are the documents another process makes: `later` for an approval the
run stopped waiting for, `lost` for one carried out without a result the run
could take. Each outcome of a model call, a search, a tool or a person that the
code tells apart is a choice.

### Answers

One question from retrieval to verdict. A passage is its set of numbers. `Search`
runs both halves, either of which may fail and neither of which returns more than
`Depth` (`dense_k`, `sparse_k`), fuses them (`Fused`, scores as
integers over a common denominator) and merges the evidence of several searches;
`Synthesise` resolves the marks of a draft, by id or by ordinal in the list the
model was shown, to numbered references; `Judge` looks the figures up and judges
refusal and coverage.

### Routing

`available` is what the last probe found, `opened` the breaker's time per model,
`up` the truth. A call of a run is `Route` (which may start a probe),
`Poll` and `EndProbe` (the backends one after the other, and then the answer
replaces what was believed, whatever happened meanwhile), `Select`, and `Answered`,
`Unreachable` or `StreamBreaks`. The score of a candidate depends on what is
resident and how long it took, so any eligible one may win. `AskAgain` is the second
call of `_plan` after a reply that is no JSON: it uses the `RouteDecision` it has
(`routed`), without routing or looking at the breaker. The shipped nodes all have an
intent with a lane, so the words of a request, and the small model for ambiguous
ones, decide only for a caller that gives none.

### ToolCalls

`pc[c]` is a call in the dispatcher, `thread` and `container` what runs under it,
`alive` the process. A call holds the tool's semaphore from `TakeSlot` on and the
sandbox's from `TakeBox` on; `TimesOut` and `Leave` free both and leave the
thread to its container. `Die` ends calls and threads; `Reap` is the next start, at
which Docker may not list its containers, or refuse to remove some (`stuck`).

### Calculation

The input names, the check of a corrosion rate against the recorded readings,
and the arithmetic, as fractions of integers; a line of a source is the place it
is about, the names that occur in it, its years and its numbers. The size of a
logarithm or a root is left out, their domain is not. An input has a form: it
fits, has a unit of another dimension, or cannot be read. A wrong dimension is
refused except where only the magnitude is taken (`Dimensionless`: years, joint
efficiency, beta, discharge coefficient). Readings agree when they are within
`Tolerance`, 0.005 mm.

### EventBus

An event is its number. `subscribed[r]` is the queue the bus fills,
`streamed[r]` the one the reader's pump fills from it. `Publish`, `CloseRun` and
`DiscardRun` belong to the publisher; `Connect` is `subscribe` with what the
buffer still holds, `ConnectLate` one after `discard`.

### Chunking, ProviderStream

`Chunking` builds a document block by block and chunks it at every length:
sections under headings (one without a heading when nothing stands under any),
oversized blocks split by sentences or rows, groups packed with overlap, parents
split into children. A word is one token.

`ProviderStream` reads one reply line by line in either dialect, with noise,
without an end mark, broken off, or silent; assembles the tool calls; reads a
whole reply; and embeds texts in batches whose rows may come in any order.

### PageReading

A file is what it is, what its name suggests, and its pages: the blocks of the
text layer, whether a picture covers the page, whether that has anything to
read. `Identify`, `Extract`, `Recognise` and `PassOver` page by page, `Reread`,
`RereadFails` and `PictureFails` for the pages the quality gate rejects, `Finish`.
What recognition and the vision model return is chosen from small sets. Both the
engine and the vision model are taken to be there: without an engine or a reader the
stage is left out, and its pages stay as they are without a warning.

### Artifacts

`MakeReport`, `MakeDeck` and `MakeBook` are pure functions of a call and the
retrieved passages, checked over sets of calls: which texts, tables, marks,
captions, formulas and source entries end up in the file, directly or after an
approval stored the provenance and restored it. A text is what it says and the
numbers marked in it. A section's own sources (`Trail`) go to the last thing of
it that a reader sees, unless anything the section holds is marked; `Salvaged`
takes a table out of a body that swallowed JSON. A mark that is checked has two
digits (`Matched`); `Staying` is what `_validate_markers` leaves, marks that
lead to a source and longer numbers. What it removed is counted only where there
are sources. A workbook marks the sources that were read badly and has no
warning besides.

## 3. Runs

| run | `.cfg` / module | expects | states, time | shows |
|---|---|---|---|---|
| `approval` | Approval / MCApprovalGate | pass | 261k, 110 s | two decide calls, run, sweep, disconnects, crashes: sign-off, one claim, one document unless a decision is overwritten, final refusals, truthful and stable results (`GateInv` and the invariants beside it); `ImplementsSignOff`; every caller returns, and an approval is carried out unless overwritten or the process at work on it dies |
| `approval_second_copy` | ApprovalSecondCopy / MCApprovalGate | violation of `OneDocument` | 42k, 3 s | a rejection over an approval already claimed makes the run produce a second copy |
| `audit_overlap` | AuditOverlap / MCAuditChain | violation of `ChainIntact` | 54 | two overlapping transactions break an untouched chain |
| `stream` | Stream / MCChat | pass | 323k, 70 s | order and completeness of frames and one finaliser (`StreamInv`), the recorded outcome, that runs, streams and orphans come to their end; on the page, that it shows each run as its own and the same again when reopened, but for what is not stored and a connection lost after the end (`ViewInv`) |
| `stream_cut` | StreamCut / MCRunStream | violation of `CutIsNotSuccess` | about 360 | a client that leaves while the pump waits for room leaves a success that never finished |
| `residency` | Residency / MCResidency | pass | 222k, 100 s | budget for large models, no second load, no pinned victim (`ResidencyInv`), one activation at a time under reconciliation, whoever asks gets the model or gives up without stranding others, drift corrected both ways |
| `residency_pinned` | ResidencyPinned / MCResidency | violation of `PinnedStaysLoaded` | about 180 | evicting an unpinned name unloads pinned weights |
| `documents` | Documents / MCDocumentStore | pass | 365k, 70 s | rows and vectors disagree only about requests cut short, one copy of a file is found, nothing deleted is, every upload ends |
| `agent` | Agent / MCAgentLoop | pass | 1.6M, 115 s | budgets bound a run, the answer comes last, a document asked for is planned or declined and made once, unless a copy is made elsewhere without a result, calls made in time are shown, every run finishes |
| `services` | Services / MCServices | pass | 213k, 125 s | ten components, each by itself: see below |
| `view_stop` | ViewStop / MCRunView | violation of `StopEndsTheRun` | 21 | the stop button of a new chat's first run has no hold of the request |
| `unread_page` | UnreadPage / MCPageReading | violation of `UnreadIsReported` | about 320 | a page nobody could read is taken for blank and the document for read |

The properties of `services`, by component:

| component | property | what it says |
|---|---|---|
| routing | `RoutingInv` | pictures go to models that see, stand-ins and the model asked again included; without a picture the vision lane is chosen by a hint, an intent, or the small model, not by the words counted |
| | `OutageIsAvoidedThenForgotten` | no run that is routed or looks for a stand-in turns to a backend that a call of any run found missing until the cooldown is over; no run fails for want of a model long after the last outage |
| tools | `CallsAndContainersEnd` | every call shown as started ends; no container outlives its job for ever unless Docker refused to list or remove it |
| bus | `ResumedWithoutLoss` | over any reconnections, events arrive in order and once, and none is missing that buffer and queue had room for |
| | `ReadersAreReleased` | who reads a closed run comes to the end of its stream |
| audit | `ChainInv`, `IntactUnlessOverlapped` | links resolve; only overlap of uncommitted rows breaks an untouched chain |
| | `VerifyIsSound` | `verify_chain` reports the first break there is and nothing else, whole or in pieces, and finds a row that was changed or removed |
| answers | `AnswerLeadsBack` | references lead to the passages their marks meant; figures said to be accounted for are |
| calculator | `CalculationsHold` | a rate agrees with the readings recorded for its place and years, unless a year has a unit; minimum thickness and pressure are inverse to each other |
| chunker | `EverythingIsFindable` | each word of the contents is embedded somewhere, under its headings, rows whole and with their header; a heading with something under it can be found; children lead to their parents |
| adapters | `BackendIsQuoted` | text, reasoning, tool calls and vectors are handed on whole and in place |
| reading | `PagesSayHowTheyWereRead` | text layers are kept, recognised lines survive a second reading, no guess passes for exact, recognised pages the gate suspects on any of its grounds are read again or reported, and no others |
| documents | `DocumentsCanBeChecked` | reports, decks and workbooks leave nothing out unsaid, with the exceptions it names; marks in a text lead to sources that are there |

Bounds, and why they are enough:

- *Approvals.* Two decide calls is the smallest number that can overwrite; three
  accounts let both approvers be other people than the requester, and different
  ones. The two calls are alike, and so are the two other accounts: the action
  constraint `InOrder` lets the first call be made first, and by one of them,
  which loses no behaviour up to renaming and, unlike symmetry, is sound for
  liveness. The proofs hold for any number of either.
- *Audit.* Three transactions let one overlap two that do not overlap each
  other; two rows each let a transaction link to its own row, and a gap lie
  before, between and after rows. `MaxRows` bounds what has no bound in the code.
- *Stream.* The code's queue of 256 is two frames here, with four frames and up
  to three more at the end of the run: enough for the queue to fill, a `put` to
  wait, and the end marker to find no room. One crash, one other boot.
- *Page.* Two runs, one that shows everything a run may show and one that breaks;
  two moves between pages (`MaxMoves`), so that a run can be left and reopened,
  and the server at most one event ahead of the page (`MaxAhead`): a longer gap
  is a sequence of these, as each event is taken by itself.
- *Residency.* Sizes, names, pins and limits are those of
  `src/config/models.yaml` in tenths of a GB, restricted to one name for each of
  the weights that exceed the budget together. Two requests are enough for one
  to wait for another; one reconciliation overlaps both.
- *Documents.* Three uploads let two of one file race while a third of the same
  or another file comes before, between or after; two deletions can be of one
  document or of two. Restarts are not bounded, requests are. The proofs hold
  for any number of each.
- *Agent.* Replies of up to three raw steps out of seven kinds, and two replies
  that are none; the code's six steps are four here (`PlanLength`), so that what
  the repairs add is cut when the reply is full. Two tool calls: one and its
  retry, or two steps. Three retrieval rounds are the code's number.
- *Routing.* Five models on two backends, two runs of one or two calls, a clock of
  two ticks with a cooldown of two and a probe that stays fresh for one
  (`MaxTime`, `Cooldown`, `Ttl`), one outage: it begins, is met, outlasts a
  probe or not, and ends.
- *Tools.* Two calls and one permit, one death: one call waits for the other, or
  inherits what it left behind.
- *Bus.* One reader, as readers share nothing but the buffer; a memory of three,
  queues of two and one, four events: everything can overflow. Two connections.
- *Answers.* Three passages, one not allowed to this person, two searches of at
  most two results each (`Depth`), drafts of two paragraphs with marks by id, by
  ordinal, twice, and of nothing.
- *Calculator.* Every subset of the inputs of a corrosion rate, under two names,
  over documents that agree, disagree or are silent about it.
- *Chunker.* Documents of four blocks, parents of six tokens, children of three,
  an overlap of one, a window of six: a block can fit, be split, and be too long
  for the window.
- *Adapters.* Four lines, which mix two tool calls with text and noise; three
  texts in batches of two.
- *Reading.* Sixteen files of at most four pages, one past the limit of three,
  one at least of each kind the sniffer tells apart.
- *Generated documents.* Reports of one section in every combination of its
  parts, marked rows under no header included, or two plain ones; decks around
  the limit of bullets and rows; workbooks with full, short and long rows.

Deadlock is not checked: a finished request, an answered question, or an approval
that came to its end, is a proper end of every one of these systems.

Fairness, where liveness is checked. The event loop is fair and every wait in
the modelled code has a deadline, so each coroutine that can go on does: weak
fairness of its actions. Nobody is obliged to decide, to request a model, to
disconnect or to crash. `Deliver` and `Collect` are fair for a client that
reads and a garbage collector that runs; `Restart`, and `Reap` of the sandbox,
for a supervisor that starts a dead process again (`docker-compose.yml`).
`TakeLock` is strongly fair because `asyncio.Lock` serves its waiters in order;
`TakeSlot` because `asyncio.Semaphore` does. Time passes. Calls to the
database, the embedding model and the vector store return, with an answer or an
error: the clients of the vector store and of the models have timeouts, and the
database is assumed to answer. A run of the agent takes its next step: its
searches and tools return, its binder and approver are waited for with a limit.
Threads run, since a job in a container has its own timeout. A pump and a client
of the event bus that still reads go on. Routing, the page, and the pure
algorithms have no liveness property and no fairness.

## 4. Proofs

`ApprovalGateProofs`, for any set of accounts and any set of decide calls, from
`ActorsAssumption` (the requester is an account, the processes are different)
and `SwitchesAssumption`:

- `GateInvariant`: `Spec => []GateInv`. `AtMostOnce`, for instance, is not
  inductive: nothing in it says that a claimed row has no second document *yet*.
  `GateInv` adds what each stage of a claim's owner has produced (`OneOwner`),
  that a name in hand is the name of a signer (`SecondPerson`), that nobody is
  half way through deciding a row that does not exist (`RowExists`), and what
  holds as long as no decision was overwritten (`NotOverwritten`).
- From it `TypeCorrect`, `SignedOffTheorem`, `AtMostOnceTheorem`,
  `OneDocumentTheorem`, `RefusalTheorem`, `TruthTheorem`, and `StableTheorem`,
  an action property.
- `RefinementTheorem`: `Spec => Promise!Spec`. Each step of the gate is a step of
  `SignOff` or a stutter; `GateInv` supplies that a claim comes after a signature
  and a document after a claim.

`AuditChainProofs`, for any set of transactions and any `MaxRows`:

- `ChainInvariant`: `Spec => []ChainInv`: who holds the lock has the highest
  number there is, every set a transaction can see has a last row, links resolve
  in what a transaction sees, and without overlap one transaction extends the log.
- `RowsTyped`, `LinksResolve`, and `OverlapIsTheOnlyBreak`: overlap of
  uncommitted rows is the only thing that can break an untouched chain. Together
  with the violation `audit_overlap` this says exactly when the chain breaks.

`DocumentProofs`, for any sets of uploads, deletions and files, from
`ProcessesAssumption` (the processes are different, and `Nothing` is neither a
file nor a document):

- `DocumentInvariant`: `Spec => []DocumentInv`. `OneCopyFound` is not inductive:
  it needs that the unique hash has one holder, and none beside a committed row
  (`OneHolder`, `OneRow`), and that an upload has vectors only once it holds the
  hash (`Progress`). `Deletion` supplies that what is purged has a row, so that
  no purge takes vectors from an upload in flight.
- From it `DocumentTypes`, `TwoStoresAgree`, `OneCopyIsFound`,
  `DeletedStaysUnfound`.

`AgentLoopProofs`, for any tools, replies and limits, from `AgentAssumption` (the
gated tools are tools, the two limits are positive) and `PlanningAssumption`:

- `BoundsInvariant`: `Spec => []BoundsInv`. That searches are bounded by the
  retrieve steps that are done is not inductive: between a search and the end of
  its step it has to be paid for in advance, by that step or by a round of the
  run's counter (`SearchesPaidFor`, `Retrieving`); and that the calls stay in the
  budget needs that a call is only prepared while one is left (`CallLeft`).
- `RunIsBounded`: `BudgetKept` and `SearchesBounded`.
- `PlanInvariant`: `Spec => []PlanInv`. What a plan looks like is said of the
  planner's result for any reply by the lemma `PlanIs`, repair by repair:
  `StepsOfAre`, `EnsuredIs`, `OneOfEachIs`, `SynthesisIsLast`, `CutIs`. `PlanInv`
  carries it through the run: the plan keeps its `Shape` (one step per document
  tool, at most one answer, and that last), a step is done before the answer
  (`Placed`), and what was produced belongs to steps that are done (`MadeOnce`).
  Every step of the run after planning moves at most by one step of the plan
  (`StepTaken`), which is what the invariant needs of it.
- From both `AgentInvariant`, the checked `AgentInv`, and
  `EachStepBeforeTheAnswer` (`AnswerComesLast`), `NothingAskedForIsLost`
  (`DocumentsAsAsked`), `EachCallIsShown` (`EveryCallIsShownInTime`).

`ChatProofs`, on the page, for any set of runs, of events they may send, and of
moves between pages, from `ScriptsAssumption`: what a run sends is in protocol,
which is fragments and citations before the answer, one answer, and the end or
the breaking off last (`AgentRunner._synthesise` and `run`, `chat_stream`):

- `PageShowsItsRuns`: `ViewSpec => []ViewInv`. That a message reopened is the one
  that was streamed relates two folds, one made event by event in callbacks, the
  other from a filtered list at once, so the invariant states the first: a
  message that heard its own run alone shows what replaying the events read so
  far (`Replayed`) makes of an empty message, but for its text, which waits for
  fragments until there is an answer, and its status (`Faithful`, `Shown`). What
  makes that inductive is that exactly one run is live and its message is last
  (`OneIsLive`), since `patchLastMessage` knows only the last; that a message on
  screen or in the query cache has heard nobody but its run or runs the page gave
  up (`Heard`, `Cached`); and that what is stored of a run that ended agrees with
  what was sent (`Outcomes`). Then `SameAgain`: leaving out events the reducer
  passes over changes nothing (`ReplayedKept`), so the stored trace replays to
  the same view. Replaying is defined by recursion on the list's length, and its
  step (`ReplayedAppend`) is obtained by constructing the function, since the
  library's theorem on recursive definitions needs an operator for its argument.
  How a message that heard its run's end may look is `EndShown`: the run's outcome,
  or an error if the connection failed after it. That a stream which broke on the
  server leaves an entry in the live trace that is not stored was found by this
  argument.

`ChatProofs`, on the stream, for any capacity of the queue, any number of frames,
crashes and boots, from `CapacityAssumption` to `FaultsAssumption`:

- `StreamIsKept`: `Spec => []StreamInv`. That frames arrive in order and complete
  is not inductive: it needs that what a client that is there was sent, what is
  queued and what `put` still holds are numbered through, and that the end mark
  comes last and from a pump that is done (`NumberedThrough`); that frames are
  bounded needs by how many the end of a run exceeds the bound
  (`FramesBounded`); that there is one finaliser needs the stages at which it may
  start (`Finalising`).
- `OutcomeIsTheRuns`: `Spec => []RecordedOutcome`. `Outcome` says what the
  finaliser will find from the moment it cannot change any more. Its disjunct
  `cutAtPut` is where `stream_cut` comes from.

`ResidencyProofs`, for every manifest and any number of requests, from
`ManifestAssumption`:

- `OneActivationAtATime`: `Spec => []OneActivation`, also under reconciliation and
  whoever gives up.
- `NoneTwiceNonePinned`: types, no second load, no pinned victim, until a
  reconciliation changes the ledger.
- `BudgetIsKept`: `Spec => []ResidencyInv`, if the manifest fits (`ManifestFits`:
  swapping is allowed, and any large model and the pinned large ones are within
  `max_resident_gb`, which
  `src/config/models.yaml` satisfies and TLC evaluates in `MCResidency`). The
  memory of a set of models is the cardinality of a set of units, so that models
  that share weights count once; the lemmas on it say that more models need no
  less, and one more at most its size more. The invariant has three parts: who
  makes room or loads a large model holds the lock (`Sound`); what it read in the
  ledger therefore stays so, its model is not there and none of its victims is
  pinned (`Ordered`); and all that is large and not pinned is among its victims,
  or there is room already (`Budget`).
- `ReconciliationCorrects`: `Spec => SyncCorrects`, an action property.

`DocumentProofs`, on answers, for any passages, rankings and drafts, from
`IndexIsRead` (what a search returns is in the index, and not more than was asked
for) and `DraftsAreRead` (a mark is an id or an ordinal, which is what the pattern
in `rag/citations.py` matches):

- `AnswersLeadBack`: `AnswerSpec => []AnswerLeadsBack`. `AnswerInv` says that the
  evidence has each passage once and only passages this person may see, and that
  answer, references and unresolved marks are what resolving the draft over *that*
  evidence yields. The weight is in the lemmas under it: that fusing two rankings
  and merging searches repeats nothing (`FusedAre`, `SearchGathers`), and, by
  induction over the marks and the paragraphs of a draft, that a mark that is
  resolved leads to the number of its own passage and one that is not is counted.

`DocumentProofs`, on reading, for any files, recognitions and transcripts, from
`FilesAreRead` and `ReadingsAreRead` (blocks have words and a place; the parsers
that have no pages of their own return one; a paragraph of the vision model
without text is dropped, `ingest/vision/reader.py`):

- `PagesSayHowRead`: `ReadSpec => []PagesSayHowTheyWereRead`. `ReadInv` carries, for
  each stage, what a page can hold (`CanHaveRead`: its text layer untouched, or the
  recognised lines, or these and what the vision model added) and that whoever was
  visited was judged; the property then needs that putting blocks in order keeps
  them all, which is the lemma on `InPlace`. A page is only read again if it was
  recognised and is suspect (`Suspect`), which is `Rejected` without the blank page:
  a page that was recognised is never one.

`DocumentProofs`, on generated documents, for any passages and any calls, from
`PassagesAreNumbered` and `CallsAreParsed` (what the parsers of the tool inputs
return: lists, texts with marks that are natural numbers, finite sets of sources):

- `DocumentsChecked`: `ArtifactSpec => []DocumentsCanBeChecked`. The invariant
  only says that the document is what is made of the order; all else are lemmas
  on the operators. `BodyIs`, `SalvagedIs`, `TrailIs`, `SectionHolds` and
  `SectionEnds` give what a section becomes, `BlocksAre` joins sections,
  `CheckedBlocks` and `CheckedTexts` say that dropping marks changes nothing
  else, and `ReportIs` puts them together. `SourcesAre` (by induction over
  citations: every document once, its confidence the lowest of its passages)
  gives the warnings, `PagesCover` that pages of at most n hold a list whole and
  in order, for `DeckIs`; `RowIs` and `ChartIs` are the cells and charts of
  `BookIs`. `TitleIs` and `HeadPartIs` say when a heading is not a reserved one,
  and `SourcesListed` is proved once for decks and workbooks. Two exceptions of
  the property were found by this argument: rows under no header, and their
  marks.

`ServicesProofs`, the event bus for any number of readers and connections, any
sizes of queues and buffer (`BusAssumption`), and the router for every manifest,
any runs and outages (`RoutingAssumption`):

- `ClientsResume`: `Spec => []ResumedWithoutLoss`. The invariant `BInv` is about
  the line of what a reader got, what its response and what the bus hold for it:
  it climbs, an end mark is only last, and it has no hole as long as the reader
  lost nothing. The pump leaves this line as it is, the others extend it.
- `RequestsAreServed`: `Spec => []RoutingInv`, and `OutagesAreRemembered`: `Spec
  => []OutageIsAvoidedThenForgotten`, if the manifest serves (`ManifestServes`)
  and what is asked can be served (`AsksServe`). A breaker is related to what
  calls found of its backend, and that to when the backend was down. Of the
  planner's second call the invariant says only what its first decision gave it:
  the lane, and a model that sees if the request has a picture. TLC evaluates
  both hypotheses in `MCServices`. `ManifestServes` includes that a lane with
  one model that sees lists only such models: `stand_in_for` relies on it for
  questions with pictures, the manifest in `src/config/models.yaml` satisfies
  it, and nothing checks it when a manifest is loaded.

`ServicesProofs`, on the calculator, for any documents and calls, from
`QuantitiesAreRead` (a quantity is a number, of a wrong dimension, or unreadable,
which is what pint makes of it) and `ParametersAsListed` (what `PARAMETERS` in
`tools/calc.py` requires):

- `CalculatorTraceable`: `CalcSpec => []CalculationsHold`. `CalcInv`: a result
  is `Calculate` of what was given. That a rate agrees with the readings, for
  bare years and within the tolerance, follows from the order of the checks in
  `Calculate`; that thickness and pressure are inverse to each other is
  arithmetic on fractions, for a shell whose radius, stress and efficiency are
  not zero.

`ServicesProofs`, on the adapters, for any replies, texts and sizes of batch, from
`LinesAreRead` (a line has lists of fragments and calls, indices are natural
numbers, and a line that is noise or the end mark brings nothing):

- `BackendQuoted`: `ProviderSpec => []BackendIsQuoted`. `ProviderInv` has a part for
  each request: nothing is handed over before one (`Fresh`), what was handed over is
  what the lines so far said (`Answering`), the calls put together so far are those
  of the fragments so far, index by index (`Gathering`), and the vectors so far are
  those of the texts so far (`Joining`).

`ListTheorems` holds what these proofs need of sequences. The library states
induction with an operator for the property, which the provers cannot take; here
the property is a set: every non-empty set of numbers has a least one
(`NatHasMin`), hence a set with 0 and successors has them all (`Induction`), and
one with `<<>>` that is closed under `Append` has every sequence
(`SeqInduction`). From it follow the lemmas on `Kept`, the filter of queues,
ledgers and logs: its length, members and order, and that it drops nothing else.
A function defined by recursion over the places of a list is obtained by
constructing it (`StepsExist`, `FoldOnly`, `FoldAppend`), since the library's
theorem on recursive definitions has an operator for its argument; on this rest
the lemmas on `FlattenSeq`, on a set put in order (`PlacesAre`), on sums
(`SummedIs`), and on what a filter or a function applied to each element makes of
lists put together (`KeptFlatten`, `ThroughFlatten`).

Only model-checked:

- liveness (`EveryCallReturns`, `ApprovedIsCarriedOut`, `RunIsClosed`,
  `ClientSeesTheEnd`, `OldOrphanIsReaped`, `AcquireReturns`, `UploadEnds`,
  `EveryRunFinishes`, `CallsAndContainersEnd`, `ReadersAreReleased`), which is out
  of the prover's reach;
- `EverythingIsFindable`, the one invariant no theorem states. It is not true of
  every value of the constants: that a word is *embedded* needs a window with room
  for the headings above it and for a child with its overlap, and how deep headings
  stand depends on the document. The rest of it is said of folds within folds
  (sections, packing, splitting by sentences and by words), and the instance has
  every case of them.

## 5. Where the code and its documentation disagree

Shown by a run:

- `approval_second_copy`: `agent/deferred.py` says "Exactly-once is the property
  that matters"; two documents come of an approval that is overwritten by a
  rejection at the wrong moment, because `decide` does not condition its
  `UPDATE` on the status it read and `{}` means two things to the run.
- `audit_overlap`: `security/audit.py` says writers are serialised; the lock is
  released before the commit.
- `stream_cut`: a client that went away is to be recorded as such; when it goes
  while the queue is full the run is recorded as succeeded.
- `residency_pinned`: the pin of `utility.small` does not protect its weights
  from being evicted as `reasoning.fast`.
- `view_stop`: "Stop this run" on a new chat's first run stops the page and not
  the request (`src/apps/web/src/hooks/useAgentStream.ts:58`).
- `unread_page`: a page whose recognition raised, or that cannot be pictured, is
  taken for blank; the document is not marked degraded (`ingest/pipeline.py:403`).

Seen while modelling, present in the models, without a run of their own:

- `expire_stale` has no caller, so an undecided request stays pending after
  `expires_at`; `db/models/governance.py:84` speaks of a periodic task.
- A run that wins the claim and is cancelled before it records a result leaves
  the approval claimed and never carried out (`ApprovedIsCarriedOut` names the
  exception).
- The committed sequence numbers of the audit log have gaps after a rollback;
  `db/models/audit.py:93` calls the sequence gapless. `verify_chain` follows
  links and does not mind.
- A refused run whose client leaves stays running (`RunIsClosed` names the
  exception), and a restart within 900 s passes over such rows.
- `reap_orphans` may cancel a run older than 900 s that another process still
  serves.
- Synthesis overwrites the status `awaiting_approval`, so a run whose wait ran
  out is recorded as succeeded.
- The duplicate check and the unique hash count deleted rows: a file whose
  document was deleted is answered "already indexed" (`api/v1/documents.py:345`)
  and can never be indexed again.
- `ingest/indexer.py:213` rolls the rows back "so the two stores cannot
  disagree"; a commit that fails, or a cancellation after the upsert, leaves
  vectors without rows (`StoresAgree` names the exceptions).
- A document deleted while the vector store was not attached keeps its vectors,
  and dense search finds them (`DeletedIsNotFound` names the exception).
- A run that fails inside the agent before it answers saves no turn.
- Small models are loaded without admission, so the ledger can exceed
  `max_resident_gb`; the order of eviction is fixed before the first await; a
  second name of resident weights may evict those very weights; a backend that
  reports nothing loaded is treated as one that did not answer.

*Agent loop.*

- A refused call whose retry comes after the deadline is skipped by the dispatcher
  without an event, and the refusal's own events are gone (`agent/runner.py:1104`,
  `tools/registry.py:150`); `EveryCallIsShownInTime` says "while in time".
- A retrieve step to which the planner gave the tool's name counts as the document
  that was asked for, though it never calls it (`agent/runner.py:497-505`, `:520`),
  against "Guarantee that a request for a document plans one".
- A tool's result longer than 2000 characters is cut and read as JSON
  (`_compact`, `agent/runner.py:1173-1183`): the run fails after the document
  was made.
- `execute_approved` returning `{}` means that nobody else has a result to give,
  and the run makes the document itself: if another process carried the action
  out, there are two (`OneDocumentPerFormat` names the exception,
  `approval_second_copy` shows one way to it).
- "Nothing was generated or changed" (`agent/runner.py:168`) is also said when a
  document was produced before the run failed.
- A fallback plan has no step for the document that was asked for
  (`agent/runner.py:518`); the cut
  to six may take the document and the answer: `AskedForIsPlannedOrDeclined` is
  stated for plans that did not have to be cut.
- JSON that is not an object, or steps that are none, fail the run. A retry that
  is worse replaces a first plan that could be used; limitations of the first
  planning stay and are said twice. Limitations recorded by a model call after
  planning are never sent as events.
- A backend that is down has no stand-in in the utility lane, and judging the
  evidence is then what ends the run.

*Answers, retrieval, calculator, adapters.*

- A refusal whose reference stands on a line of its own, or that declines and goes
  on with a caveat, is judged a refusal with full marks against
  `agent/refusal.py:28`.
- A thickness in a wrong unit with a dated reading raises out of the check against
  the sources; an infinite remaining life goes into a JSON column; a place is
  found by substring (CML-4 in CML-40: `RateIsOfTheReadings` names the
  exception). A year with a unit is in no line of a source, so the check is skipped,
  and its magnitude is used all the same (`tools/calc.py:430-434`, `:497-500`); a
  joint efficiency, a beta or a discharge coefficient with a unit is used by its
  magnitude too (`:619`, `:655`, `:736-741`). A shell without a radius, stress
  or efficiency is calculated, not refused.
- The ids of a split paragraph may skip or collide; a row longer than the window
  is cut by the embedder (`EverythingIsFindable` names the exception). A heading
  with nothing under it is in no passage (`rag/chunker.py:154-163`), unless the
  document is nothing but headings (`:165`).
- A stream that ends without its end mark, or with an error object, looks like a
  complete answer; "length" as the reason is not looked at by the synthesis. A
  whole reply of another shape raises what nothing catches; without a message
  Ollama's is an empty answer.

*Routing.*

- An ambiguous text without an image may be given the vision lane by the small model
  (`router/router.py:321-351`, whose list of lanes has it), where the comment of
  stage 1 (`:300-302`) and `test_no_image_does_not_reach_vision` keep such texts
  from it; `RoutingInv` names the exception.
- The planner's second call goes to the model of the old decision
  (`agent/runner.py:357-358`), though its first call may have been answered by a
  stand-in for just that model; a comment of `_generate` (`:1480-1486`) is
  against "going back to the backend it had already found missing".
  `OutageIsAvoidedThenForgotten` names it.
- Nothing calls `fallback_after_failure`, `record_failure` or `record_success`:
  the breaker opens by `trip` alone, so a model that keeps timing out is never
  avoided. After the cooldown every request passes, where `router/policy.py:62`
  speaks of one trial. The synthesis streams without acquiring the model, has no
  stand-in and does not tell the breaker. `stand_in_for` looks at the first lane
  that lists a model. A probe that ends late replaces newer knowledge.

*Tools.*

- The wait for a tool's semaphore is outside its timeout. A call that timed out
  gives both semaphores back while its container runs, so more than "two at a
  time" (`sandbox/docker_backend.py:53`) may. A container that was made and did
  not start stays until the next start; reaping removes the containers of any
  other living process with the prefix, and none when Docker does not list them
  (`sandbox/docker_backend.py:295-301`), nor those it refuses to remove
  (`:307-312`): `EveryContainerGoes` names both.

*Event bus.*

- A reader whose queue is full at the close is never told; a reconnection to a
  closed run with a queueful of missed events raises; a run subscribed to after
  `discard` is never closed (`ReadersAreReleased` names these).

*Page.*

- The query cache of a conversation is never invalidated, so reopening may show it
  as it was. Archiving the conversation on screen while it streams resets the
  store without ending the request, whose events then go to the next message
  (`OnlyItsOwnRun` names the exception). A stream that broke on the server is
  "interrupted" and lists the error live, and is an error that is not listed when
  reopened. The fragments of a run that was
  cut are saved nowhere.
- A network error after `run_finished` was read turns a message that was done
  into an error (`src/apps/web/src/hooks/useAgentStream.ts:135-141`); reopened
  it is done. A citation is stored without `doc_type` and `parent_id`
  (`api/v1/runs.py:207-222`), which are streamed (`rag/citations.py:133-151`).
  `src/apps/web/src/lib/replay.ts:13-20` has it that the reopened view is the
  live one; `ReopenedLooksTheSame` names these.

*Reading and producing documents.*

- A page that is really blank and was recognised as such is read again
  (`ingest/pipeline.py:401` calls only pages without a result blank), against
  `ingest/ocr/quality.py:64`: such a page "must not trigger an expensive second
  pass".
- An error while picturing a page for the vision model is not caught and fails the
  upload. Emails are not taken apart, since a stored file has no suffix. An Office
  file whose marker entry lies beyond the first 64 KB is refused, against
  `ingest/sniff.py`'s "only the first few kilobytes are needed". Notes of a slide
  and paragraphs of the vision model sort to the top, tables of a Word file to the
  end.
- The captions that trail a table skip the check of marks: they may refer to no
  source, and the sources they name are listed as "retrieved, not cited"
  (`artifacts/docx_builder.py:219`). A number of three digits in brackets is no
  mark to the builder (`:256`) and stays, while `tools/artifacts.py:459` writes
  it. What was removed is said only where there are sources (`:231-244`). A
  heading that is a reserved one but for a mark becomes one when the mark is
  removed. A workbook has no warning of uncertain sources before its list
  (`artifacts/xlsx_builder.py:154`). A section whose only marks are out of range
  ends without any reference although it declared sources. Rows without headers
  leave a report without a word, and yet their marks keep the section's sources
  from being named (`tools/artifacts.py:453`), where the comment has it "so no
  section that states a figure goes unattributed" (`ReportHolds` names the
  exception). The marks of a deck's bullets are not checked. Rows that do not
  fit their headers put formulas into other columns, `{row}` included. A
  confidence within a rounding of the threshold loses its warning in a deferred
  document.
- Storing a document checks and then writes: a crash leaves part of a file that
  a later call takes for the whole (`artifacts/`); this is file I/O and not in a
  model.

## 6. Not modelled, and why

- Authentication, authorisation and the wording patterns of the request policy
  are outside the scope of this project, except for the separation of duties in
  `decide` and the filter on what a person may retrieve.
- What libraries recognise or draw: parsing and rendering files, OCR, the vision
  model, embedding, ranking inside the vector store and full-text search, Docker.
  Their answers and failures are inputs of the models.
- Text: the words that choose a lane, the scoring of candidates, prompts, the
  patterns that find figures, readings and refusals in sentences. The models take
  what these find as given and state what is done with it.
- Conversations' and documents' listing, renaming and reading endpoints, health
  pages, settings: single statements, or nothing that changes state.
- Pages of the web client other than the chat: presentation over queries.
- Evaluation and scripts: offline, without a protocol of their own.
- The mock provider and request encoding; the static check of code, whose verdict
  is an input of `ToolCalls`.
- The connection pool and Postgres row locks held by a loser of the claim while
  it polls: both waits have deadlines; only their length is affected.
- A count of who is using a model: the ledger has none, so a model may be evicted
  while it generates. The runner's retry of that case is `UnloadedUnderneath`.

## 7. Plan

The components were modelled in the order of what can go wrong in them: the
approval gate with `SignOff`, the audit chain, the run stream, residency, the
document stores; then the agent loop with its planning, routing, tool calls, the
event bus, the page, and the algorithms from a file to an answer and a document.
Proofs followed in the same order, each from a type invariant and a strengthening
that TLC checked first.

Next:

1. `ToolCalls`: as theorems, that a semaphore's slots are never exceeded, and what
   holds a container.
2. `Chunking`: `EverythingIsFindable` without its window, by the lemmas on folds of
   `ListTheorems`, and the window as an assumption on the depth of headings.
