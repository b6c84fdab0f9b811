# Verification of Rau

TLA+ models, TLC runs and TLAPS proofs about `rau/`, a voice companion that talks, keeps a
room with panels and games, runs jobs of its own and uses the computer it lives on (paths
below are relative to `src/`, or to `src/rau/` when they start with neither `rau/`, `web/`
nor `pi-sidecar/`). Every definition is translated from the source; `PROJECT.json` maps each
one to the lines it stands for.

Contents: 1 inventory; 2 the models and the code; 3 runs, bounds and fairness; 4 proofs;
5 disagreements between the code and what it says of itself; 6 remarks: promises that fail
on other instances; 7 what is not modelled; 8 plan.

## 1. Inventory

Rau is one Python process with many threads, an SQLite file, a browser client and a few
child processes. The parts meet in four ways: direct calls on the caller's thread, the
event bus (a listener runs on the emitter's thread, a socket's queue is filled on its own
loop), tables of the control store (one transaction per call, under one re-entrant lock),
and the in-memory state store.

```
 browser: microphone, loudspeaker, wall, ledger
    │  voice socket            │ event socket, HTTP
    ▼                          ▼
 voice session ─► face brain ─► orchestrator ─► pool of worker threads ─► Pi sidecar
    │  speech        │              ▲  │            │ plan, steps, rounds of model and tools
    │                │ confirm ids  │  └─ confirms ◄┤ files, computer, browser, children
    ▼                ▼              │               ▼
 hub server ───► state store ◄─ scheduler ◄─ job_done / job_failed (event bus)
    │                │   ▲          │               │
    │   host voice, presence, games, dreams         │
    └─ event sockets ┴────── control store (SQLite) ◄┘
```

| part | state it keeps, operations | what is hard | what makes it correct | module |
| --- | --- | --- | --- | --- |
| scheduler (`scheduler/service.py`) | schedules, their runs, a loop thread; edits, `run_now`, tick, dispatch, the completion listener, recovery | a sequence of store transactions with nothing held in between; a job may end before its id is stored | one job alive per schedule, none orphaned, no running row without an ending, no occurrence lost, the retry budget, a queued row is served | `Scheduler` |
| job orchestrator (`agent/orchestrator.py`, `state.py`) | the registry of jobs, a pool, confirms; start, spawn, confirm, cancel, pause | workers write without the registry lock; a decision names a job, not a confirm; parents hold pool threads | a cancel reaches everything beneath, a settled job keeps its result, an approval is spent once, every job ends | `Orchestrator`, `JobLife` |
| plan (`agent/planner.py`, `_job_thread`) | steps in memory and as rows; pick, attempt, verify, retry, repair, steer | two threads extend the list; two copies of a step | steps run on completed dependencies, the plan ends, done means done | `PlanRun` |
| tool effects (`_execute_tool`, idempotency table) | claims; claim, execute, settle, review after a restart | a crash between claim and settlement | a key executes once, uncertainty is never lost | `PlanRun`, `WorkerRun` |
| worker loop (`_run_subagent`, `agent/tools.py`, `permissions.py`) | routes, turns, the ledger of mutations and evidence | evidence that is older than what it vouches for; cancels between tools | a phase completes on evidence gathered after its last change | `WorkerRun` |
| file tools (`agent/edit.py`) | stamps of what was read; read, write, edit | somebody saves the file meanwhile | an edit changes only what the agent saw | `FileEdits` |
| voice session (`voice/session.py`) | phase, microphone and its epoch, the transcription with its watchdog, the current turn | one sequential receive loop, three tasks, two threads per turn, callbacks on the loop; an await after every check | the phase is that of the newest turn or utterance, nothing stale starts a turn, the diary keeps what was heard | `VoiceSession` |
| the browser's half of it (`web/src/voice`) | phase, mute, preroll, barge-in, push-to-talk, the loudspeaker's queue | what is on the wire when the user cuts in | cut is cut, the next reply is heard, the microphone is shut | `BrowserVoice` |
| speech (`voice/tts_stream.py`) | the provider's socket and its contexts, three threads, the fallback | a socket that breaks in the middle | the reply is heard in order, once, to its end | `RealtimeTts` |
| reading aloud (`voice/korean`, `voice/pronunciation.py`) | ordered passes over a text, fourteen word tables | every pass rewrites what the earlier ones left | numbers, prices, ranges and units are read as meant | `SpokenText`, `Hangulize`, `Lexicon` |
| face brain (`face/brain.py`, `agent/compaction.py`) | the foreground, the history with reserved slots, the fold | turns race for one history, a fold works on a copy | the newest turn wins, answers stand by their questions, nothing twice | `FaceBrain` |
| host voice (`face/pipeline.py`, `state.py`) | the host's microphone, the control queue, browser leases, confirms | the flag the first browser found is restored by the last | the host's wish survives; no two ears | `HostVoice` |
| event bus (`events.py`, `/ws`) | history, listeners, bounded queues | a full queue evicts; connect between write and event | a browser that stays comes to show the state | `EventBus` |
| activity ledger (`activity.py`, `web/src/activity.ts`) | spans with revisions | two writers, snapshots and events out of order, events evicted | the browser shows the end the ledger holds | `Activity` |
| panels on the wall (`face/panels.py`, `web/src/panels.ts`) | rows, the browser's list with its pending panel | an edit is a read and a write; snapshots meet events | no edit is lost, the room shows the wall | `Wall` |
| kittens, chess (`games/`) | one table, a pump thread, windows, a parked position, a record | moves, pumps and starts race; a think is long | a game is booked once, cards are conserved, a move lands on its position | `Kittens`, `KittensPlayer`, `GameTables`, `ChessEvening` |
| computer use (`computer/`) | a session under a lease, one action at a time | a crash or a person between action and observation | an unseen effect stays on record | `ComputerUse`, `MacInput` |
| presence (`heartbeat/presence.py`) | tiers of absence, two unasked sentences | the model answers while the user does | at most two per silence | `Presence` |
| dreams (`dream/dreamer.py`, `identity/`, `memory/`) | the night's latch, the soul and its backups, diary and logs | a night, a manual run and a steer write the same files | paid once per night, no soul lost, a steer stands | `Dreams` |
| providers (`providers/`) | transcripts on two wires, streamed answers, a circuit breaker | ids missing or repeated, folds in the middle | the wire accepts the transcript, a call has a budget | `Wire`, `ProviderStream` |
| configuration (`providers/registry.py`) | two files, read by every request | a load and a save by two requests, faults | what the user chose stands | `ConfigFiles` |
| Pi sidecar (`pi/`, `pi-sidecar/src`) | a process, its runs, an event stream, reserved turns | a process that dies between question and answer | runs are as granted: one, charged, gated by a yes | `PiRuns` |
| hub server (`hub/server.py`) | sockets | each handler calls into a part above | – | with those parts |
| choreography, props, skills, MCP, browsing, pet, power, diagnostics, `legacy/` | files, windows, I/O, data | little control | – | not modelled |

## 2. The models and the code

Conventions. A variable, operator or action has the name of what it models where TLA+ allows
it, and its comment says the rest. An action is one stretch of code between two points where
another actor can come in: a store transaction, the hold of a lock, an await, a post to a
thread. A handler is one action with all it does. `0` is NULL or None where rows are numbered.
History variables are marked `history`. Bounds are CONSTANTS marked `bound`. Definitions that
`PROJECT.json` does not map are notation (tuples of variables, shorthands) or the environment
(a user, a clock, a disk).

Operators marked "Slip" are plausible bugs (a dropped guard, a missing row, a swapped
order); none is part of a specification, each is the form a definition takes in one of the
mutants, and breaks the property it is listed with.

### Jobs

**`Scheduler`.** The grain is one store call. `_dispatch_queued` is five actions per row
(`ReadQueue`, `CheckRun`, `StartJob` or `AtCapacity` or `RefusedJob`, `RecordStart`), each
thread with its own `pc`, snapshot `todo`, row `head` and unrecorded job `hired`; the
enqueuing half is `ReadDue`, `ReadPending`, `WriteRun`, `AdvanceSchedule`. `run_now` is
`RunNowCheck`, `RunNowCreate` and the same dispatch. The owner's edits are one transaction
each. `JobBegins` and `JobEnds` stand for the orchestrator, `JobTerminal` for the listener,
`Restart` for a crash followed by `mark_unfinished_interrupted`. Abstracted: time is counted
in periods of the trigger (cron fields, zones and daylight saving are left out); `retry_at`
is a flag that elapses at any time; jobs of other origins are the nondeterministic
`AtCapacity`. A cancel that races a worker announces a second ending, as `Orchestrator` finds,
so `JobEnds` may leave two events in any order. `fired` is history.

**`Orchestrator`.** `wpc[j]` is the place of job j's worker in `_job_thread`,
`spawn_children` and `_await_confirm`; every `update_job`, store call and event is one step.
`lock` is held between a cancel's claim and the last mark of its sweep; the worker's own
writes do not look at it, as in the code. A confirm exists three times: `shown` (the face),
`row` (the table), `mine` (what the worker waits for); a decision finds its confirm and job
(`Resolve`), commits the row (`Store`) and wakes the job (`Deliver`). Abstracted: which tool
a confirm is about; the pool's order; `_reap` and `_trim_jobs`; a parent's deadline uses up
its turns (`OutOfTime`).

**`JobLife`** is what the orchestrator promises, without threads, locks or confirms: a tree of
jobs, each absent, active, settled for good; being asked to stop takes in everything active
beneath at once; nothing is added beneath a job that was asked to stop; only such a job is
reported cancelled. `Orchestrator` implements it: `Life == INSTANCE JobLife WITH ...` maps
the store's states and the cancel flags, and the run checks `Life!Spec`, its fairness included.

**`PlanRun`.** One job. `steps` is the list in memory, `stored` the rows, `wpc` the worker's
place, `draft` a steering call between computing its step, appending it and saving it. A
repair is computed when the verifier rejects and appended in `Repair`, so a steering call
fits in between and both can take one ordinal: the UNIQUE constraint then fails a save
(`Clash`). The ledger, the executions (`ran`, history) and the call give the idempotency
protocol; `Restart` may come after any step and stays possible for ever. Abstracted: texts
and capabilities; the retry budget is the same for all steps; a replayed result and a
conflict change nothing and are left out.

**`WorkerRun`.** The rounds of `_run_subagent` within one phase, the phases sharing routes and
turns: model calls, their tools with gate, confirm, claim and effect, the ledger of mutations
and evidence, the fall-back to the next route, the closing verification. A tool is one of a
few kinds that the registry treats alike. **`FileEdits`** is the file tools on one file, an
edit being three steps against a person who saves.

**`PiRuns`.** The supervisor's process, the run inside it with its gate, the client that
follows an event stream it may have to replay, the approvals, the worker that reserves turns,
retries and refunds, and the idle sweep.

### Conversation

**`VoiceSession`.** Coroutines of one loop that yield only at awaits that may (a coroutine
that is `Pressed` goes on before anybody else), two threads per turn, and the callbacks they
schedule, run in order. A user follows one of `Scripts`. What was heard of a reply is a choice.

**`BrowserVoice`.** The page, the wire and the loudspeaker. A command of the hub is one step
here; `VoiceSession` has its awaits. Frames one after another are one stretch; how loud they
are, how long a silence is and what a transcript says are choices. What a resumed await does
comes before any other event of the page (`Free`). A part of a reply is a stretch of a
sentence; "speaking" is told when a sentence begins. With `Fluent` no utterance breaks off or
times out while the hub is busy with a reply. `cut` is history: the turns cut off while
"speaking" was shown.

**`RealtimeTts`.** Sender, receiver and consumer of one reply, and `speak_stream` on the tokens
or on the replay. A token is one phrase, a phrase comes in parts. **`SpokenText`** is the passes
over numbers, units, money and particles as rewritings of a sequence of pieces;
**`Hangulize`** the assembly of syllables, one phoneme a step; **`Lexicon`** the merge of the
tables, cut down to keys that several tables claim. The three were compared with the Python
they model when they were written: `SpokenText` on 3,552 texts, `Hangulize` on 30,940 words,
without a difference.

**`FaceBrain`.** Typed, spoken and system turns, the foreground, rounds, slots, the retry of an
empty answer (heard in part when a stop comes, or failing), a barge of the voice session, the
interruption that rewrites a slot, the fold in a thread of its own. **`HostVoice`.** The
host's loop and control thread, the listening flag with its leases, the confirms of the
shared state. **`Presence`.** Replies, woven-in news, nudges from timer to loudspeaker, the
restart.

### What is shown, kept and sent

**`EventBus`** takes the state for a version: a thread writes and then emits.
**`Activity`** is one span with two writers, the socket's events, which a full queue may
evict and a broken connection loses, and the snapshots the page asks for.
**`Wall`** is the panels table under its lock, the events told after it, the browser's list,
the room. **`ConfigFiles`** reads, validates, quarantines and saves a file with a crash or a
fault anywhere. **`Wire`** encodes a transcript for both protocols and folds it;
**`ProviderStream`** assembles an answer around one circuit breaker. **`Dreams`** has the
night's tick, a run by hand, steers, backups and the files, each replaced whole.

### Games and the computer

**`Kittens`** is the whole of the rules over a few small deals; **`KittensPlayer`** adds how Rau
comes to a move and decides a Nope. **`GameTables`** has both tables with starts, ends, moves,
pumps and turn threads over abstract rules, chess claiming a finished game (`Claim`) and writing
it up (`WriteUp`: the line "Game over" and the record) in two steps; **`ChessEvening`** one table of chess in depth: the
parked position, offers, resignation, mood, the record, a restart. **`ComputerUse`** is
sessions, observations, actions, reviews and the lease; **`MacInput`** how one action is posted
event by event, with Quartz failing half-way through a drag.

### The sum of the components

The components other than jobs and voice do not step together in the code paths modelled, and
each is small, so one run checks them side by side: `MCSlots` declares `part` and slots `s1`,
`s2`, ...; `MCHouse` and `MCMind` instantiate each module with its variables mapped to the
first slots (`Keep`*k* leaves the rest alone); a behaviour is about one part, chosen in
`Init`, for good. `MCComponents` is the disjunction of both. Each part keeps its own bounds.
A property of the run is a conjunction "if the behaviour is about this part, then its
property", one conjunct per part it is about.

## 3. Runs, bounds, fairness

| run | configuration | outcome | question |
| --- | --- | --- | --- |
| `scheduler_loop` | `MCSchedulerLoop` | holds | Does the loop keep one schedule's jobs apart, tracked, within their budget, and lose an occurrence only with a stale row, through edits, retries, a restart and racing cancels? |
| `scheduler_run_now` | `MCSchedulerRunNow` | holds | With `run_now` beside the loop and jobs that end after they were recorded: does every running row have an ending to come and is every queued row served? |
| `jobs` | `MCOrchestratorJobs` | holds | Does a cancel reach the subtree, does a settled job keep its result, is an approval spent once and no confirm left over, does every job end though a parent holds the only thread, and is all of it what `JobLife` promises? |
| `plan` | `MCPlanRun` | holds | Order of steps, one execution per key, the meaning of done, visible crashes, lasting uncertainty, termination |
| `voice` | `MCVoiceSession` | holds | Whatever the user does while the hub waits: one diary entry per turn, cut to what was heard; a phase "speaking" has a turn; no stale transcript starts one |
| `components` | `MCComponents` | holds | The properties of the twenty-four other components, each with its own actors, faults and bounds; and the orchestrator once more with two confirms of one job and two threads that decide (`confirms`, in `RunsAsGranted`) |
| `scheduler_overlap` | `MCSchedulerOverlap` | violated | "Runs never overlap for one schedule", with `run_now` |
| `scheduler_wedge` | `MCSchedulerWedge` | violated | no running row without an ending, when a job may end before it was recorded |
| `jobs_approval` | `MCOrchestratorApproval` | violated | an approval reaches its own confirm |
| `plan_unknown` | `MCPlanRunUnknown` | violated | a step that left an effect unknown is not attempted again |
| `config_unread` | `ConfigFilesUnread` | violated | a choice of the user survives a settings file that cannot be read for a moment |
| `voice_cut_undone` | `BrowserVoiceCut` | violated | audio that arrives after a cut is not played, when an utterance breaks off over a reply |

Bounds. Every bound is a constant named in its module.

* Scheduler: one schedule, because no step relates two schedules but the order in which
  due ones are taken; the proofs cover any number. Three or four rows, of which a retry, a
  catch-up and a `run_now` take one each; two revisions, so that a snapshot can be stale;
  one restart; a catch-up scan of 1 below the three instants of the clock, so that the
  limit bites. The loop's run has one retry, the run with fairness none. In
  `scheduler_run_now` five jobs are the most that any behaviour starts (two rows, one
  restart; with a bound of 6 or 7 TLC finds the same states and no sixth job), so `StartJob`
  is never held back by the bound and fairness is not met by the bound alone.
* Orchestrator: two jobs are a parent and a child, the deepest tree `MAX_JOB_DEPTH`
  allows; a pool of one is the worst case for a parent that waits; one cancelling thread
  is enough for a sweep against a spawn. Two confirms of one job are what a late
  answer needs: the run `jobs` has one, with the tree, and the part `confirms` of the run
  `components` has two, with one job and two threads that decide. `MaxTurns` stands for the turn budget and the deadline.
* Plan: two initial steps and a limit of four give a repair, a steering step, and a
  repair and a steering step together, which passes the limit by one; `Rows` leaves
  room for two. One call id used twice meets its own key again; two ids show the retry that
  avoids it. Restarts are not bounded.
* Voice: a conversation is two utterances and two turns of talk, or two turns with
  interruptions, or one turn in which the user may do anything (stop, drop the line, close,
  type, cut in). Two of a thing are what a stale one needs. One token per reply and a pipe
  of one make the producer wait; more tokens only repeat its step.
* Components. `MCHouse` and `MCMind` give the constants of each part and say in a comment what
  they are for. The ledger has an event evicted or a connection broken, and two snapshots, so
  that one may come before the loss and one after. Where one question is too big for one
  instance it has two: presence has an absence long enough for a third sentence (`presence`),
  a restart (`restart`) and a narrated job (`weave`), the latter two with a second language to
  change to; chess has two games in one evening and a restart in a short one; the wall is
  trimmed or raced for; the browser's voice talks, listens or holds a key, with replies in two
  parts (where it listens utterances may break off, and what is cut is not asked about); the
  sidecar has two attempts, or two approvals and a clock. The thresholds of the code (120
  seconds, 12 plies, 40 messages) become the small numbers that keep their order. Pure
  functions (`SpokenText`, `Hangulize`, `Lexicon`) are evaluated on every text or word of the
  given length.

`CHECK_DEADLOCK FALSE` is set where the modelled activity is finite: a job, a plan, a
conversation or a game that ended has nothing left to do. The scheduler never stops and is
checked for deadlock.

Fairness. Threads and event listeners keep running (weak fairness of each thread's
steps). `StartJob` of the scheduler has strong fairness: the pool is refilled by jobs of
other origins, and has room again and again because every job has a deadline. Jobs end
for the same reason (`deadline_monotonic`, the timeout of a confirm, `OutOfTime`). In
`components` the writers of the state, the socket's loop and the browser keep running, and
so do the four threads of a reply: none of them waits without a timeout. Nothing a user does
(edit, pause, resume, cancel, decide, steer), no crash, no reconnect and no refusal is ever
promised; `EveryJobReports` therefore excepts a job the user keeps paused, and `CatchesUp` a
browser that stays away. `JobLife` has the weak fairness of a job that was asked to stop, as
`Life!Spec` requires of `LiveSpec`.

What the properties say is written above each of them. The ones to read first:

| property | says | the hazard behind it |
| --- | --- | --- |
| `CancelReachesSubtree`, `ImplementsJobLife` | a cancel takes in everything beneath, at once | a child spawned during the sweep |
| `OccurrenceLostOnlyWithStaleRow`, `RunningWillSettle` | no row waits for an end that came already | a job that ends before its id is stored |
| `KeyRunsOnce`, `CrashIsVisible`, `UncertainForGood` | an effect is done once, or known to be unknown | a crash between effect and settlement |
| `InterruptedIsTruncated`, `OnlyValidTailsStart` | history keeps what was heard, and only what was said last starts a turn | an await between check and use |
| `BrowserAgrees` | page and host agree on microphone, wall, ledger, phase and what was cut | snapshots, events and audio still on the wire |
| `TableIsHonest` | cards are conserved, games booked once, thinks land on their position | moves, pumps and starts that race |
| `EffectsAreOwnedUp` | an action nobody saw the effect of stays on record | a restart between action and observation |
| `Foreground` | every answer stands behind its question, once | a fold that works on a copy of the history |
| `ChoiceStands`, `RunsAsGranted` | what the user chose, allowed or paid for is what happens | crashes, lost answers, two writers |

## 4. Proofs

Each proof module has the layout types, inductive invariant with one lemma per action,
theorems. TLC checked every inductive invariant on the small instances before it was proved.
Nothing is assumed but the modules' named ASSUMEs about constants (bounds are naturals, thread
names differ, a plan has at least one step and starts within its limit, a pipe holds a token
at least), which TLC evaluates on the instances, and what a theorem says in its own ASSUME.
`HouseProofs`, `GameProofs`, `RauProofs` (after the heartbeat, which it extends) and the end of
`VoiceSessionProofs` declare the variables of the component they are about and take it with
INSTANCE.

* `SchedulerProofs`. `TypeCorrect` for all threads. `LoopInvariant`, `LoopNeverOverlaps`,
  `LoopTracksItsJobs` and `LoopFinishesOnce` assume `Callers = {}`: with a `run_now`
  caller overlap is reachable (run `scheduler_overlap`), and so is the rest. `NoOverlap`
  is not inductive: `LoopInv` adds who owns what. Rows of the loop's snapshot are queued
  or cancelled (`Held`), the row between guard and record is alone in its schedule
  (`Alone`), the unrecorded job is known to no row (`Unrecorded`), each live job leads
  to a running row or is the unrecorded one (`Tracked`), a row's job points back at it
  (`RowJob`), at most one row of a schedule runs (`OneRunning`), and what is announced is
  the end of an ended job (`EventsOfTheEnded`). With any callers: `AttemptsStayBounded`,
  since a queued row and every snapshot of one have an attempt left (`AttemptInv`); and
  `RunsSettle`, since a thread about to record a start holds a job that is alive
  (`SettleInv`), which is where `FastJobs = FALSE` comes in: without it the run
  `scheduler_wedge` finds the row that waits for an announcement already made.
  `CatchupLosesOnlyWithStaleRow` allows any callers, edits and restarts: the loop reads a
  schedule, writes a row and advances the schedule in transactions of its own, and the owner
  edits in between; `CatchInv` therefore bounds every row twice, against the schedule as it is
  (`RowReaches`, `RowStands`) and against the loop's snapshot (`DueFits`, `DueCovers`), and
  says that a snapshot of the present revision is the schedule while one of an older revision
  has nothing enqueued under the new one.
* `OrchestratorProofs`. `JobsTypeCorrect`; `CancelSweepsSubtree` and `SettledStays` for
  any numbers of jobs, confirms, turns, cancelling and deciding threads. `SweepInv` says
  that the tree has two levels, that while a sweep holds the lock every active child of a
  job on its list is itself on the list or being marked (`Swept`), and that a flagged job
  which is still active is the one being marked (`FlaggedIsMarked`). A spawn needs the lock,
  and an active parent: that is what closes the race between a sweep and a spawn.
  `RegistryImplementsJobLife` proves the safety part of the refinement, the initial condition
  and each step: the status of a job as `PublicStatus` shows it moves by steps of `JobLife`.
  `ApprovalsAreSpentOnce` and `NoGhosts` come from `ConfirmInv`. `ApprovalSpentOnce` compares
  two cardinalities and is not inductive; `Balance` keeps the account that is: confirms let
  through, approvals on their way in a deciding thread, and the one a worker holds, are
  together at most the confirms approved. That an approval is carried by one thread only
  (`OneCarrier`) and that a worker waits for a confirm of its own (`AsksOne`) keep it.
* `PlanRunProofs`. `PlanInv` has the worker's step as the only one under way
  (`Attempted`, `OneAtATime`), one steering call at a time past its check (`LockHeld`),
  and an account of the room that a repair and a steering call still take (`Growth`),
  without which the plan's size is not bounded. From it `PlanTypeCorrect`,
  `DependenciesHold`, `DoneIsDone`. `EffectInv` has who holds an open claim (`InCall`,
  `Open`), that a working step's row is one a restart reviews (`Rowed`) and that an
  interrupted job's threads are gone (`Dead`). From both `KeyOnce`, `CrashVisible`,
  `UncertainStays`.
* `VoiceSessionProofs`. All five invariants of the run `voice`, for any numbers of
  utterances, turns and tokens, any pipe and any script. `VoiceInv` is proved in layers: types
  (`TypesHold` needs to know that the room for turns is promised to nobody twice, `RoomInv`);
  who holds the commit lock and the turn lock and that a tail which holds both is valid
  (`LockInv`, for `TailsStayValid`); that the next turn was started by nobody (`FreshInv`);
  that a shut pipe has a producer who sees the flag (`PipeInv`); that an entry of the diary is
  claimed where it is deferred (`DiaryInv`, for `OneDiaryEntry`); that a reply whose
  interruption is told, or on its way to the page, is cut or has somebody who will cut it
  (`ToldInv`, for `TheToldAreTruncated`); and that behind the speech of a turn that has ended
  its end waits in the callback queue (`ReadyInv`, for `SpeakingIsMinded`).
  `TheFirstTableWins` holds for any tables of the lexicon. `NothingIsLostOnTheWay` holds for
  loanwords of any length: the syllables carry a mark for every consonant passed that is heard,
  but for one that waits for its vowel, and one waits only where the vowel is the next sound
  but for glides (`SoundInv`). `TheReplyIsHeardAsWritten` holds for replies of any length with
  any number of frames in a phrase. Its invariant accounts for every frame of the reply: what
  was played, what the effect holds, the consumer's queue up to a frame m and the provider's
  work from there follow each other without a gap (`Flows`), unless the queue ends in a mark
  that will end the listening, or the sender broke off and has said so (`broken`); and the
  copies for a replay are all the phrases taken while nothing was replayed, later those after
  the last one said (`CopiedFrom`). That the written reply has its frames where they are
  expected (`WrittenIs`) is an induction over its phrases by least counterexample.
* `HouseProofs`, what the house keeps.
  * `ChoicesStand` for any files, fields and edits by hand, with one writer and a disk that
    does not fail (`MaxFaults = 0`): with two writers, or a failed read (`config_unread`), a
    choice is lost. The invariant adds that a request which is about to save holds a whole
    object that agrees with every acknowledged choice (`CopyIsCurrent`).
  * `TheMicIsGivenBack` for any browsers and commands; `ProvidersAreJudgedFairly` for any calls:
    what the breaker counts are the failures at the end of the outcomes (`Counted`), so that a
    late answer of an old call does not open it.
  * `TheBrowserCatchesUp`, whichever events are evicted and connections broken: every copy of
    the span is the row, or older than it, and once the span is over its end is shown, on its
    way, or missed by the page since its last snapshot (`IsTold`, `Missed`). A page that missed
    it may show the span as running until it asks again (section 6). The hypothesis is that the span's owner is one of those
    who add to it.
  * `TheNightIsPaidOnce` and `TheSoulIsKept`, for any days, steers, faults and restarts. The
    first needs that nobody asks for a dream by hand, the second that the user does not steer
    while a dream is under way; section 6 shows both fail otherwise. `OneNight` accounts for
    the bill by what the timer has latched and retried; `SoulInv` says which dream's soul is in
    force, in the backup or in the archive, and what a run under way has read.
  * `WhatIsCutStaysCut` for any number of turns, utterances and lost connections and any wire,
    while no utterance breaks off over a reply (`Fluent`; section 5 has what happens otherwise).
    `CutInv` is an account of the messages on their way to the page by the turn they belong to,
    and of what the hub may still say: audio is of the turn last said to speak (`OneSpeaker`);
    between two turns that speak the page is told to listen again (`Parted`), since the hub
    says "thinking" in between; what comes behind such a message is of no turn the page was
    told of or has cut (`AfterUnmute`); and what was cut arrives while the page is muted, or
    behind one (`CutIsMuted`). `NextInv` says the same of the worker that may still talk.
  * `PhasesMeet` with no such hypothesis: the last phase on the wire is the hub's (`LastTold`),
    and a page that went idle without waiting has on its way what makes the hub idle, be it the
    stop that waits for the loudspeaker, or a worker that is cancelled (`Ahead`).
  * `NoEditOfTheWallIsLost` for any callers, panels and texts, with no hypothesis but that a wall
    has room for a panel: whoever edits holds the lock and read a body from which nothing
    patched away is missing (`EditsAreCurrent`), and a panel about to be shown is new and its
    maker's alone (`NewPanels`). The rows that a close or a show keeps are made by a recursive
    function (`Among`).
* `GameProofs`, what the games keep.
  * `ResultsAreBookedOnce` for any requests, turns of Rau's and pumps: a game that is over is
    found so by the pump, by the end() that takes it away, by a pump started again. Whoever is
    about to write a game up has claimed it (`Accounted`), and while nobody claimed another one
    writer at most holds it, and none once it is in the books (`OncePerClaim`). A pump that
    holds a finished game while another is claimed may see it booked twice, which the theorem
    excepts. `NoMoveOutlivesItsBoard` for any turns of Rau's and one request at a time: the
    journal has no move of another game; its "Game over" may be of one (section 6).
  * `TheCardsAreHonest` and `RauPlaysOn`, for any kinds of cat cards and any deals that put one
    kitten into the deck and none into a hand, as `deal_two_player` does. `TheCardsAreHonest` is
    about the rules alone, with the user and Rau free to make any move they are offered;
    `RauPlaysOn` about Rau's threads beside them, with a decision on a Nope that is made within
    the window (`Prompt`: 1.2 s in one of 5 s; section 6 has the other case). The account `CardsConserved` needs is kept per card: how
    often it lies in the deck, is held and is discarded (`Lie`, `Held`), and taking a card out,
    putting one in and shuffling change `Lie` by what they should (`PutIn`, the permutations of
    `Shuffles`). `GameInv` adds where the kitten is: in no hand, and in the discard only while
    its drawer may answer it or the game is over (`KittenApart`), which is why there is always a
    card to draw; that a combination of five which is pending finds a card in the discard
    (`Fits`), and whoever is asked for a favour has one to give (`AskedFor`); and that what was
    peeked is a prefix of the deck. `RauInv` adds that nobody else can move while he thinks
    (`ThinksOnHisTurn`), and that the window he decides a Nope for stays open
    (`DecidesInTime`), which is where `Prompt` comes in.
  * `TheEveningIsKept` for any number of games, plies, restarts, streaks and ratings, while the
    requests come between Rau's turns (`Unhurried`; section 6 has what fails otherwise). That the
    game is parked as it stands is not inductive, since setting up a board, recording a move and
    booking a result each take several steps. `EveningInv` says what holds between them: a board
    is set up while Rau is not at one and nothing is being booked, and the page about to be
    written, or read, is that board's (`SetApart`); whoever has moved has the board that is out,
    and what is being booked is over (`AtHisBoard`); what Rau thinks about is the position of the
    game with that id, on the table or parked (`ThinksOfIt`), so that a think during which the
    game is put away and resumed still lands where it belongs. The draw a game was
    offered is remembered with its mood (`Mannered`), whether it is on the table or not.
* `RauProofs`, what Rau's hands do, and when he speaks up.
  * `EditsKnowTheirFile` with one worker and nobody who saves while a call runs (`OneEditor`).
    `EvidenceStaysFresh` where the provider names its calls (`NamedCalls`): what verifies a
    phase that changed something was read after its last change. Section 6 has what happens
    otherwise.
  * `StopsAreHeard` for jobs of the user and read-only scheduled runs (`ModeRules`): another
    policy takes the place of the mode, which is what a policy is for.
  * `UnseenStaysOnRecord` for any sessions, callers and actions, with no hypothesis. `MachineInv`
    says where the one caller inside the manager's lock stands and what it knows of the row
    (`CallsFit`): an action is posted only by a call that found nothing unseen, after it wrote
    that it is about to (`LiveIsSeen`).
  * `RunsKeepToTheirGrant` for any attempts, budget, requests and losses: the turns of a job
    are at least the sum of what its attempts may spend (`Account`), since a lost answer leaves
    the whole reservation charged, and one attempt at most can be alive (`OneAlive`). The sum is
    a fold; that changing one attempt changes it by that attempt's change is shown of the
    partial sums, by least counterexample. The bounds are an attempt at least and a budget.
  * `DragsLetGoWhereTheyAre` for drags of any number of steps; one that Quartz fails half-way
    may leave the button down, and only that one.
  * `SilencesAreRespected` for any number of turns, restarts and seconds. What is on its way (in
    the thread, in the queue) and what was heard, of this silence, is at most what is charged to
    it (`Charged`), and for the part a restart does not forget at most what the disk charges
    (`Kept`). A repeated sentence is not written to the disk, hence the hypothesis that none is
    said twice in a program that may be restarted, and `Unrepeated`: the list holds only sentences
    older than the one in the making. The other hypotheses are that the waits are a second at
    least. `Least` (a set of naturals has a least member) gives the induction that the recursive
    function `Untold` needs.
* `FaceBrainProofs`. The three parts of `Foreground`: `TheNewestWins`, `AnswersStand`,
  `SaidOnce`, for any turns, rounds, folds and resets. That an answer stands by its question
  is not inductive, since a fold may be about to write back a copy taken before other turns
  came and went. `FaceInv` says that the history is in order (`Orderly`: at most one summary,
  in front, nothing twice, nothing that a summary stands for, the messages of a turn
  together); that a turn has left in it only what its place in the code allows, be it in sight
  or in a summary (`Timely`, `Shows`), so that the reply about to be committed is new to it;
  that every slot is reserved (`SlotsReserved`), so that no snapshot shows one; and that a
  fold's copy has none (`FoldOfSettled`). A fold writes back only where its copy is still a
  prefix of the history: in that case the copy is as orderly as the history, however old it
  is. A slot is replaced where it stands (`ReplacedIsOrderly`); what a filter and a fold keep,
  they keep in order (`ThinnedIsOrderly`). The hypothesis `Limits` is that turns are not named
  0 and that a fold keeps no more than it takes to start one (`find_cut_point` keeps a share
  of the budget below the one at which `should_compact` says so). The filter is a recursive
  function, and its lemma an induction by least counterexample.

The properties of `components` are conjunctions over its parts, whose constants are fixed; the
theorems are about the parts, for all constants. They cover `ChoiceStands`, `TwoPerSilence`,
`Foreground`, `EffectsAreOwnedUp`, `TableIsHonest`, `HeardAsWritten` and `WorksFromWhatItSaw`
entirely; of
`RunsAsGranted` the sidecar and the nights, of `TranscriptIsAccepted` the streams, of
`BrowserAgrees` the microphone, the ledger, the edits of the wall, what is cut and the phases,
of `ReadAsMeant` the loanwords and the lexicon, as far as the hypotheses above go.

Only model-checked: every liveness property, and with them the fair half of the refinement of
`JobLife` (the prover has no ENABLED). The wall's `WallIsShown`, the transcripts of `Wire`
and the passes of `SpokenText`: each compares what a recursion over a list makes of two lists
(replaying, flattening, rewriting), and a lemma about it is an induction over data. Of the
page's voice session `WordsAreHeard` and `MicIsShut`, which hold only within the bounds of
their instances (section 6). The findings are TLC counterexamples.

## 5. Where the code and its documentation disagree

Each is a run of its own with the counterexample; `PROJECT.json` has the lines.

1. **Overlap** (`scheduler_overlap`). The README promises that runs of a schedule never
   overlap. The guard (`executing_schedule_run`) and the write of `running` are separate
   transactions with `start_job` in between, and `run_now` dispatches on its caller's
   thread: the loop and the caller both pass the guard.
2. **A wedged schedule** (`scheduler_wedge`). A job that ends before its id is stored on
   the row is announced to nobody; the row is then marked running and holds back every
   later occurrence until a restart, the very state `mark_unfinished_interrupted` warns of.
3. **An approval that reaches another confirm** (`jobs_approval`). `_decide_confirm` sets
   the job's one decision flag; a decision that commits as its confirm times out wakes
   the job's next confirm. What holds instead is `ApprovalSpentOnce`.
4. **A retry after an unknown effect** (`plan_unknown`). The uncertain effect is written
   to the step's row and the retry's guard reads the step in memory. `KeyRunsOnce` still
   holds: the repeat has a new call id, and so a new key.
5. **A choice lost to a file that could not be read** (`config_unread`). `_read_object` lets
   an OSError escape so that a file that cannot be read is never taken for a missing one;
   `load_settings` catches it and goes on with the defaults, and the save that follows the
   next change in the browser writes those over everything else the user had chosen.
   `load_models` does the same (294-297) for a change of a model slot. With a disk that works,
   and with a crash or a bad edit anywhere, `ChoiceStands` holds.
6. **A cut that is undone** (`voice_cut_undone`). After a cut the page is mute until the next
   "thinking" or "idle". The hub says "idle" over a reply that speaks when an utterance that
   was still open breaks off, or its transcription times out, a text having been typed
   meanwhile. That lifts the mute and makes `barge` (which asks for "speaking") drop the
   user's cut: the worker goes on, and the page plays it. Without such an utterance
   `WhatIsCutStaysCut`.

## 6. Remarks: promises that fail on other instances

The runs check each property where it holds. While the bounds were chosen, the following
turned out to fail elsewhere, or were met while reading. Where a definition is named, it is in
the module and TLC finds the counterexample with the constants given (others as in the run);
no run is spent on them. Most are narrow, and several may be what the authors want.

Jobs, schedules, files.

* `Scheduler`: `OccurrenceKept`, no occurrence is lost: catch-up folds a new occurrence into
  a queued row of an older revision, which dispatch cancels as stale (service.py:463).
* `Orchestrator`: `OneEnding`: `_cancel` says that claiming under the lock keeps it from
  announcing a second ending; the worker does not take the lock (orchestrator.py:676-681).
* `WorkerRun`: `EvidenceIsFresh` fails with `FreshIds = FALSE`, one phase and five rounds: where
  a provider does not name its calls, evidence from before a change can verify the state after
  it (orchestrator.py:1763-1764).
  `run_shell` counts as evidence and never as a mutation; a scheduled run does not consult
  the readonly mode.
* `FileEdits`: `EditsWhatItSaw` needs one worker and a person who does not save within a
  tool call (`Polite`); it fails with two workers and `MaxVersion = 4`, or with `Polite = FALSE`:
  between the check of the stamp and the write nothing is held (edit.py:10-11).
* `ConfigFiles`: two writers lose an update (`Writers = {1, 2}`); `load_models` goes on to
  overwrite a broken file when it cannot be set aside; a broken settings file is never set aside.

Voice and speech.

* `VoiceSession`: `NeverTalksOver` fails with `TextBetween`: a reply to a typed text
  talks over a user who begins to speak again (session.py:338-339, 435).
* `BrowserVoice`: `CancelledIsSilent` fails on the page's "audio was already flushed
  locally" (useVoiceSession.ts:543): a stop in "thinking" leaves audio on the wire that nothing
  drops. With `Hyper`, two utterances and `MaxWire = 2`, `MicIsShut` fails: a stale "endpoint"
  ends the new utterance on the page while the hub listens on. With `Hyper = FALSE` and the
  same, `WordsAreHeard` fails: `bargeIn` awaits the flush while a frame opens an utterance, and
  the second `speech_start` discards the first. In the code, not the model's instances: a stop
  while "speaking" and streaming sends no "stop"; a text followed by a stop before "thinking"
  arrives sends a barge the hub drops; a turn that preempts one in "thinking" sends no new
  "thinking".
* `RealtimeTts`: `BrokenReplyFails`: a reply whose stream of tokens breaks may end as a
  success.
* `SpokenText`: misreadings of "20-25°C", "20~25°C", "3:3명", "10^3~3", "3/3명", outside the
  texts `ReadAsMeant` is about. `Lexicon`: `LowercaseIsAWord`: some keys in lower case are
  read as the acronym though a table has the word (`lexicon/__init__.py`:64-66).
* `HostVoice`: `OneListener` and `OneApprovalOneConfirm`: the host's loop may still
  record after a browser has taken the microphone; one yes may grant two confirms.

Games.

* `GameTables`: `GameHasAPump` (pump.py:119);
  with `Requests = {r1, r2}`, no turns and one pump, `KittensBooksOnce`, `NoStrayMove` and
  `OneTable`. Both games read, change and write games.json, each
  under a lock of its own. `JournalOfThisGame` fails with the constants of `tables`: the pump
  claims a finished game, an end() that finds it claimed and a start() clear the journal, and
  the pump writes "Game over" (session.py:138-143) into the new game's. With two requests,
  no turns, two games and two pumps `MovesOfThisGame` fails as well: an end() between a
  start()'s board and its `_reset_for_new_game` leaves the journal on the game it took away.
  Without its exception `ChessBooksOnce` fails with one request, one turn, two games and two
  pumps: another game is claimed while a finished one is yet to be found over again, and
  `_finished_id` remembers one game.
* `Kittens`: `DefuseMeetsKitten`: a Defuse may leave a hand otherwise than deck.py says.
  `KittensPlayer`: `PlaysOn` fails with `Prompt = FALSE`, when a decision may outlast its Nope
  window.
* `ChessEvening` with the constants of `evening`: `EndedIsEnded` fails (a park overtaken by the
  end brings a finished game back, board.py:425-451, 528; session.py:437-446); `BookedOnce` fails after a
  crash (session.py:130-137); with `Unhurried = FALSE` so do `ParkedAsItStands`
  (session.py:314-320) and `KeepsHisManners`. `start` over a finished game that was not booked
  never books it.

What is shown, kept and sent.

* `Wall` with the constants of `wall`: `OpenIsOnTheWall` fails (panels.ts:91-98, 106-112), and
  with `Unhurried = FALSE` `WallIsShown`: a "shown" event replayed over a newer snapshot
  evicts a hanging panel. Events lost while the socket is down are not refetched (live.ts).
* `Activity`: `EndIsShown`, with the constants of `activity`: an activity_finished evicted from
  the socket's queue (events.py:32-44) leaves the span shown as running on a page that stays
  connected, until its user opens the turn or the job (activity.ts:104-106). The snapshot of a
  new connection has the 500 newest spans and the active ones (activity.ts:84-94), so a span
  that ended and is older than those stays as it was shown. `LastWordStands`: the last writer of a span is not always the last to be heard
  (orchestrator.py:452-465).
* `ComputerUse`: `AppliedWasSeen` with two actions and a restart (README.md:517-518);
  `OneShotReleases`; `FinishedStays`. `create_computer_session` takes back its marking
  of expired sessions when it refuses (store.py:1325-1365). `MacInput`: `TypedOnce` (cua.py:682-700);
  `RefusedIsUndone`, "Refusing means doing nothing": Quartz raising after the mouse-down leaves
  the button down (cua.py:637-645).
* `Presence`: `AwayIsToldToTheUser`, `ReturnIsNoticed`, `ToldOnce`; and `TwoPerSilence` with
  `Sayings = {99}`, `MaxTime = 5` and `MaxCrashes = 1`: a second sentence in the words of the first
  is not saved with the counter, and the restart forgets it (presence.py:43).
* `Dreams`: `AppliedOnce` fails with a manual run, `Apart = TRUE`, two days and no fault
  (README.md:258-262; dreamer.py:116-120, 155-166). `NoSoulIsLost` and `SteerStands` fail with
  `Apart = FALSE`, one day, one manual run and one steer (identity/store.py:336).
* `ProviderStream`: `NeverGuessed` (base.py:90); a late success of an old call closes the
  circuit. `Wire`: the images of an orphan result are dropped (base.py:281-288); compaction.py
  says that both encoders hoist summaries, and OpenAI's does not.
* `PiRuns`: `NoToolHasRunYet` (orchestrator.py:2204-2206) and `StopIsIdle`
  (supervisor.py:215-217), both with `MaxTime = 2`; a lost answer to a start leaves a run
  nobody follows; a lost answer to a confirm is swallowed.

## 7. What is not modelled, and why

* Choreography, props, pet, power, diagnostics, the shells and `legacy/`: drawing, windows
  and I/O with no state that two steps share. The MCP client and browsing: requests to programs
  whose behaviour the source does not tell. Skills and memory files: read and written whole;
  of memory, `Dreams` has the logs and the diary.
* Partly: the hub server, whose handlers are part of the actions they call (the rest is
  routing and validation); the web client, of which the voice session, the activity mirror and
  the wall are modelled and the drawing is not; the control store, whose transactions are
  single steps of the modules above, and whose migrations, traces and pruning are left out:
  `prune` also deletes old idempotency rows (store.py:1521-1566), so `UncertainForGood` and
  `KeyRunsOnce` hold of the keys that are kept.
* Merged into one step, where no property tells the difference: the store calls of a listener
  and of an edit or a resume (`Scheduler.JobTerminal`, `Edit`, `Resume`), the writes that close a
  job (`Orchestrator.Close`), the snapshot of a fold and its flag (`FaceBrain.MaybeCompact`,
  brain.py:665-669), the menu and the move of the fallback (`KittensPlayer.FallBack`), the
  look at the focused window (`ComputerUse.Focus`, which takes no lock in the code,
  session.py:421-436), and a turn of the sidecar (`PiRuns.Turn`), of which the stream that
  ends without a result (client.py:318-332) and the automatic yes of `full_bypass`
  (orchestrator.py:2240) are left out. `AdvanceSchedule` may write the next occurrence over
  an edit or a resume (service.py:490), and no property says when an edited schedule fires.
* Left out of every module: the content of prompts, replies, tools, panels and files;
  provider and speech protocols beyond their outcomes; the desktop, the browser and the model
  provider as programs; clocks, cron arithmetic and daylight saving, which are pure functions
  of a library's calendar.
* The components of the run `components` do not step together: a job of `Orchestrator` is
  one event for `Scheduler`, a turn of `VoiceSession` one command for `BrowserVoice`. Where one
  relies on another's promise, the comment of the action says so.

Within the modelled parts, the hazards in `PROJECT.json` with no property carry a note:
the code chooses the behaviour and no line promises otherwise, or the state is not in the
module.

## 8. Plan

Proofs: `WallIsShown` and the transcripts of `Wire`, by inductions on the length of a list
like those for `Untold`, the sums of `PiRuns` and the rows that `Among` keeps.

Model: a hub in which `VoiceSession` and `BrowserVoice` share one wire; pruning in the
control store beside a claim still in progress; the pet's and the choreography's queues if
they come to hold state.
