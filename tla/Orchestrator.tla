---------------------------- MODULE Orchestrator ----------------------------
(***************************************************************************)
(* The job registry of rau/agent/orchestrator.py over rau/state.py: jobs   *)
(* and their children, the worker pool, cancellation of a subtree, pausing, *)
(* and the confirmations a job waits for.                                  *)
(*                                                                         *)
(* The registry lock (_lock) covers a claim and the creation of a job, and *)
(* nothing else: a worker writes its own job's state through update_job    *)
(* without it.  Every update_job, store call and event is one step.        *)
(***************************************************************************)
EXTENDS Integers, FiniteSets

CONSTANTS
    Cancellers,  \* threads that may call cancel_job, cancel_all or redirect_hard_task
    Deciders,    \* threads that may call resolve_confirm
    MaxJobs,     \* bound: jobs created
    MaxConfirms, \* bound: confirmations asked for
    MaxTurns,    \* bound: steps and fan-outs one job begins
    Pausable,    \* bound: jobs the user may pause
    Cap,         \* max_parallel_jobs()
    PoolSize     \* max_workers of _WORKERS

ASSUME OrchestratorBounds ==
    /\ {MaxJobs, MaxTurns, Cap, PoolSize} \subseteq Nat \ {0}
    /\ MaxConfirms \in Nat
ASSUME NobodyIsZero == 0 \notin Cancellers

Jobs == 1..MaxJobs
Confirms == 1..MaxConfirms
ACTIVE_JOB_STATES == {"running", "awaiting_confirm"}
TERMINAL_JOB_STATES == {"done", "failed", "cancelled"}

VARIABLES
    state,    \* the state store's view of each job
    parent,   \* parent_id; 0 for a job the user asked for
    wpc,      \* where the worker of each job stands
    turns,    \* steps and fan-outs it began
    flag,     \* job.cancel
    finished, \* job.finished
    coord,    \* job.coordinating_children
    paused,   \* job.paused
    told,     \* history: endings announced for each job
    shown,    \* state._confirms: the confirm each job shows, 0 for none
    ready,    \* job.confirm_ready
    answer,   \* job.confirm_decision
    mine,     \* the confirm each worker waits for (cid in _await_confirm); 0: none
    asker,    \* the job each confirm belongs to; 0: not asked yet
    row,      \* the confirmations table
    granted,  \* history: confirms whose tool call was let through
    lock,     \* holder of _lock between a claim and its release; 0: free
    doomed,   \* each canceller's claimed jobs not marked yet
    current,  \* the one it has flagged and not marked; 0: none
    claimed,  \* the jobs it has to announce
    decision  \* each decider's confirm, its job and the answer, once picked

jobVars == <<state, parent, wpc, turns, flag, finished, coord, paused, told>>
confirmVars == <<shown, ready, answer, mine, asker, row, granted>>
sweepVars == <<lock, doomed, current, claimed>>
vars == <<jobVars, confirmVars, sweepVars, decision>>

NoDecision == [cid |-> 0, job |-> 0, yes |-> FALSE, stored |-> FALSE]

Init ==
    /\ state = [j \in Jobs |-> "absent"]
    /\ parent = [j \in Jobs |-> 0]
    /\ wpc = [j \in Jobs |-> "none"]
    /\ turns = [j \in Jobs |-> 0]
    /\ flag = [j \in Jobs |-> FALSE]
    /\ finished = [j \in Jobs |-> FALSE]
    /\ coord = [j \in Jobs |-> FALSE]
    /\ paused = [j \in Jobs |-> FALSE]
    /\ told = [j \in Jobs |-> 0]
    /\ shown = [j \in Jobs |-> 0]
    /\ ready = [j \in Jobs |-> FALSE]
    /\ answer = [j \in Jobs |-> FALSE]
    /\ mine = [j \in Jobs |-> 0]
    /\ asker = [c \in Confirms |-> 0]
    /\ row = [c \in Confirms |-> "absent"]
    /\ granted = {}
    /\ lock = 0
    /\ doomed = [k \in Cancellers |-> {}]
    /\ current = [k \in Cancellers |-> 0]
    /\ claimed = [k \in Cancellers |-> {}]
    /\ decision = [d \in Deciders |-> NoDecision]

-----------------------------------------------------------------------------
IsActive(j) == state[j] \in ACTIVE_JOB_STATES
Alive(j) == wpc[j] \notin {"none", "created", "ended"}
Children(j) == {i \in Jobs : wpc[i] # "none" /\ parent[i] = j}

OccupiesSlot(j) ==
    /\ ~coord[j]
    /\ state[j] # "awaiting_confirm"
    /\ IsActive(j) \/ Alive(j)

\* MAX_JOB_DEPTH is 2: a subtree is a job and its children.
Subtree(j) == {j} \cup Children(j)

\* Slip: a late write brings a finished job back.
UpdateRegardless(j, s) == state' = [state EXCEPT ![j] = s]

\* state.update_job: a finished job is immutable.
UpdateJob(j, s) ==
    state' = IF state[j] \in TERMINAL_JOB_STATES THEN state ELSE [state EXCEPT ![j] = s]

Announce(j) == told' = [told EXCEPT ![j] = told[j] + 1]
Goto(j, label) == wpc' = [wpc EXCEPT ![j] = label]
At(j, label) == wpc[j] = label
\* Slip: the budget of turns is not enforced.
UsesTurnOverBudget(j) == turns' = [turns EXCEPT ![j] = turns[j] + 1]
UsesTurn(j) == /\ turns[j] < MaxTurns
               /\ turns' = [turns EXCEPT ![j] = turns[j] + 1]

-----------------------------------------------------------------------------
(* start_job: admission and registration under the lock, then the events,  *)
(* then the submission to the pool.                                        *)

\* Slip: the parent is not asked whether it is still active.
AdmitsOrphans(p) == p # 0 => parent[p] = 0
Admits(p) == p # 0 => IsActive(p) /\ parent[p] = 0

StartJob(p) ==
    /\ lock = 0
    /\ Admits(p)
    /\ Cardinality({j \in Jobs : OccupiesSlot(j)}) < Cap
    /\ \E j \in Jobs :
          /\ wpc[j] = "none" /\ \A i \in Jobs : i < j => wpc[i] # "none"
          /\ state' = [state EXCEPT ![j] = "running"]
          /\ parent' = [parent EXCEPT ![j] = p]
          /\ Goto(j, "created")
    /\ UNCHANGED <<turns, flag, finished, coord, paused, told, confirmVars, sweepVars, decision>>

Submit(j) ==
    /\ At(j, "created")
    /\ Goto(j, "queued")
    /\ UNCHANGED <<state, parent, turns, flag, finished, coord, paused, told, confirmVars,
                   sweepVars, decision>>

PoolTakes(j) ==
    /\ At(j, "queued")
    /\ Cardinality({i \in Jobs : Alive(i) /\ wpc[i] # "queued"}) < PoolSize
    /\ Goto(j, "top")
    /\ UNCHANGED <<state, parent, turns, flag, finished, coord, paused, told, confirmVars,
                   sweepVars, decision>>

-----------------------------------------------------------------------------
(* _job_thread: the plan loop.                                             *)

LoopCancelled(j) ==
    /\ At(j, "top") /\ flag[j]
    /\ Goto(j, "closing")
    /\ UNCHANGED <<state, parent, turns, flag, finished, coord, paused, told, confirmVars,
                   sweepVars, decision>>

\* A cancel ends the pause, and the step it lets through finds the flag set.
NextStep(j) ==
    /\ At(j, "top") /\ flag[j] = paused[j]
    /\ UsesTurn(j)
    /\ UpdateJob(j, "running")
    /\ Goto(j, "step")
    /\ UNCHANGED <<parent, flag, finished, coord, paused, told, confirmVars, sweepVars, decision>>

\* The runner returned or raised: the next step, or the end of the plan.
StepEnds(j) ==
    /\ At(j, "step")
    /\ Goto(j, "top")
    /\ UNCHANGED <<state, parent, turns, flag, finished, coord, paused, told, confirmVars,
                   sweepVars, decision>>

PlanEnds(j) ==
    /\ At(j, "top") /\ ~flag[j] /\ ~paused[j] /\ turns[j] > 0
    /\ Goto(j, "finishing") \/ Goto(j, "failing")
    /\ UNCHANGED <<state, parent, turns, flag, finished, coord, paused, told, confirmVars,
                   sweepVars, decision>>

RecordDone(j) ==
    /\ At(j, "finishing")
    /\ UpdateJob(j, "done")
    /\ Goto(j, "recorded")
    /\ UNCHANGED <<parent, turns, flag, finished, coord, paused, told, confirmVars, sweepVars,
                   decision>>

TellDone(j) ==
    /\ At(j, "recorded")
    /\ IF flag[j] THEN UNCHANGED told ELSE Announce(j)
    /\ Goto(j, "closing")
    /\ UNCHANGED <<state, parent, turns, flag, finished, coord, paused, confirmVars, sweepVars,
                   decision>>

\* The exception handler: its own look at the flag, then the write and the event.
FailCheck(j) ==
    /\ At(j, "failing")
    /\ Goto(j, IF flag[j] THEN "closing" ELSE "failed")
    /\ UNCHANGED <<state, parent, turns, flag, finished, coord, paused, told, confirmVars,
                   sweepVars, decision>>

TellFailed(j) ==
    /\ At(j, "failed")
    /\ shown' = [shown EXCEPT ![j] = 0]
    /\ UpdateJob(j, "failed")
    /\ Announce(j)
    /\ Goto(j, "closing")
    /\ UNCHANGED <<parent, turns, flag, finished, coord, paused, ready, answer, mine, asker, row,
                   granted, sweepVars, decision>>

\* The finally block.
Close(j) ==
    /\ At(j, "closing")
    /\ IF IsActive(j)
       THEN /\ UpdateJob(j, IF flag[j] THEN "cancelled" ELSE "failed")
            /\ shown' = [shown EXCEPT ![j] = 0]
            /\ Announce(j)
       ELSE UNCHANGED <<state, shown, told>>
    /\ finished' = [finished EXCEPT ![j] = TRUE]
    /\ Goto(j, "ended")
    /\ UNCHANGED <<parent, turns, flag, coord, paused, ready, answer, mine, asker, row, granted,
                   sweepVars, decision>>

-----------------------------------------------------------------------------
(* spawn_children, on the parent's worker thread.                          *)

BeginSpawn(j) ==
    /\ At(j, "step")
    /\ UsesTurn(j)
    /\ coord' = [coord EXCEPT ![j] = TRUE]
    /\ Goto(j, "spawning")
    /\ UNCHANGED <<state, parent, flag, finished, paused, told, confirmVars, sweepVars, decision>>

SpawnChild(j) ==
    /\ At(j, "spawning")
    /\ \A i \in Children(j) : wpc[i] # "created"
    /\ StartJob(j)

Back(j, label) ==
    /\ coord' = [coord EXCEPT ![j] = FALSE]
    /\ Goto(j, label)
    /\ UNCHANGED <<state, parent, flag, finished, paused, told, confirmVars, sweepVars, decision>>

\* No sub-goal could start, or the wait begins.
EndSpawn(j) ==
    /\ At(j, "spawning")
    /\ \A i \in Children(j) : wpc[i] # "created"
    /\ IF Children(j) = {}
       THEN Back(j, "step") /\ UNCHANGED turns
       ELSE /\ Goto(j, "waiting")
            /\ UNCHANGED <<state, parent, turns, flag, finished, coord, paused, told, confirmVars,
                           sweepVars, decision>>

Rejoin(j) ==
    /\ At(j, "waiting")
    /\ flag[j] \/ \A i \in Children(j) : finished[i]
    /\ Back(j, "step")
    /\ UNCHANGED turns

\* Slip: a parent waits for its children without a deadline.
WaitsForEver(j) == At(j, "ended") /\ UNCHANGED vars

\* The parent's runtime deadline passes: no turn of its budget is left.
OutOfTime(j) ==
    /\ At(j, "waiting")
    /\ Back(j, "top")
    /\ turns' = [turns EXCEPT ![j] = MaxTurns]

-----------------------------------------------------------------------------
(* _await_confirm, on the worker thread of the job that asks.              *)

Ask(j) ==
    /\ At(j, "step")
    /\ \E c \in Confirms :
          /\ asker[c] = 0 /\ \A b \in Confirms : b < c => asker[b] # 0
          /\ asker' = [asker EXCEPT ![c] = j]
          /\ row' = [row EXCEPT ![c] = "pending"]
          /\ shown' = [shown EXCEPT ![j] = c]
          /\ mine' = [mine EXCEPT ![j] = c]
    /\ ready' = [ready EXCEPT ![j] = FALSE]
    /\ answer' = [answer EXCEPT ![j] = FALSE]
    /\ Goto(j, "asked")
    /\ UNCHANGED <<state, parent, turns, flag, finished, coord, paused, told, granted, sweepVars,
                   decision>>

Park(j) ==
    /\ At(j, "asked")
    /\ UpdateJob(j, "awaiting_confirm")
    /\ Goto(j, "parked")
    /\ UNCHANGED <<parent, turns, flag, finished, coord, paused, told, confirmVars, sweepVars,
                   decision>>

\* An answer, a cancel, or the timeout of the confirm: a worker may wake at any time.
Wake(j) ==
    /\ At(j, "parked")
    /\ shown' = [shown EXCEPT ![j] = 0]
    /\ Goto(j, IF ready[j] /\ answer[j] THEN "approved" ELSE "denied")
    /\ UNCHANGED <<state, parent, turns, flag, finished, coord, paused, told, ready, answer,
                   mine, asker, row, granted, sweepVars, decision>>

Approved(j) ==
    /\ At(j, "approved")
    /\ UpdateJob(j, "running")
    /\ granted' = granted \cup {mine[j]}
    /\ mine' = [mine EXCEPT ![j] = 0]
    /\ Goto(j, "step")
    /\ UNCHANGED <<parent, turns, flag, finished, coord, paused, told, shown, ready, answer,
                   asker, row, sweepVars, decision>>

\* Slip: a confirm that ended without a yes leaves its row pending.
LeavesRow(c) == row
SettlesRow(c) == IF row[c] = "pending" THEN [row EXCEPT ![c] = "denied"] ELSE row

Denied(j) ==
    /\ At(j, "denied")
    /\ UpdateJob(j, "running")
    /\ row' = SettlesRow(mine[j])
    /\ mine' = [mine EXCEPT ![j] = 0]
    /\ Goto(j, "step")
    /\ UNCHANGED <<parent, turns, flag, finished, coord, paused, told, shown, ready, answer,
                   asker, granted, sweepVars, decision>>

\* expire_confirmations, from the scheduler's tick.
Expire(c) ==
    /\ row[c] = "pending"
    /\ row' = [row EXCEPT ![c] = "expired"]
    /\ UNCHANGED <<jobVars, shown, ready, answer, mine, asker, granted, sweepVars, decision>>

-----------------------------------------------------------------------------
(* resolve_confirm, on the thread of an HTTP request or of the voice loop. *)

Shown == {shown[j] : j \in Jobs} \ {0}

\* The confirm a decision on `cid` (0: none named) lands on: the named one while
\* it shows; else a deny, or a decision that names none, takes the oldest.
Target(cid, yes) ==
    IF cid \in Shown THEN {cid}
    ELSE {c \in Shown : (cid = 0 \/ ~yes) /\ \A b \in Shown : c <= b}

Resolve(d, cid, yes) ==
    /\ decision[d] = NoDecision
    /\ \E c \in Target(cid, yes), j \in Jobs :
          /\ shown[j] = c
          /\ decision' = [decision EXCEPT ![d] =
                            [cid |-> c, job |-> j, yes |-> yes, stored |-> FALSE]]
    /\ UNCHANGED <<jobVars, confirmVars, sweepVars>>

\* Slip: a confirm that was already settled is decided again.
DecidesAgain(c) == row[c] # "absent"
Decidable(c) == row[c] = "pending"

\* control_store.decide_confirmation.
Store(d) ==
    /\ decision[d] # NoDecision /\ ~decision[d].stored
    /\ LET c == decision[d].cid
       IN  IF Decidable(c)
           THEN /\ row' = [row EXCEPT ![c] = IF decision[d].yes THEN "approved" ELSE "denied"]
                /\ decision' = [decision EXCEPT ![d] = [decision[d] EXCEPT !.stored = TRUE]]
           ELSE /\ decision' = [decision EXCEPT ![d] = NoDecision]
                /\ UNCHANGED row
    /\ UNCHANGED <<jobVars, shown, ready, answer, mine, asker, granted, sweepVars>>

\* _decide_confirm: it names the job, not the confirm.
DecideConfirm(j, yes) ==
    /\ answer' = [answer EXCEPT ![j] = yes]
    /\ ready' = [ready EXCEPT ![j] = TRUE]

Deliver(d) ==
    /\ decision[d].stored
    /\ DecideConfirm(decision[d].job, decision[d].yes)
    /\ decision' = [decision EXCEPT ![d] = NoDecision]
    /\ UNCHANGED <<jobVars, shown, mine, asker, row, granted, sweepVars>>

-----------------------------------------------------------------------------
(* _cancel, pause_job and resume_job.                                      *)

\* Slip: the job alone, not what it spawned.
OnlyRoot(j) == {i \in {j} : IsActive(i)}
Doomed(j) == {i \in Subtree(j) : IsActive(i)}

Claim(k, j) ==
    /\ lock = 0 /\ claimed[k] = {}
    /\ Doomed(j) # {}
    /\ lock' = k
    /\ doomed' = [doomed EXCEPT ![k] = Doomed(j)]
    /\ claimed' = [claimed EXCEPT ![k] = Doomed(j)]
    /\ UNCHANGED <<jobVars, confirmVars, current, decision>>

\* Deepest first.
Flag(k) ==
    /\ lock = k /\ current[k] = 0
    /\ \E j \in doomed[k] :
          /\ \A i \in doomed[k] : parent[i] # j
          /\ flag' = [flag EXCEPT ![j] = TRUE]
          /\ shown' = [shown EXCEPT ![j] = 0]
          /\ current' = [current EXCEPT ![k] = j]
          /\ doomed' = [doomed EXCEPT ![k] = doomed[k] \ {j}]
    /\ UNCHANGED <<state, parent, wpc, turns, finished, coord, paused, told, ready, answer,
                   mine, asker, row, granted, lock, claimed, decision>>

\* The last mark releases the lock.
Mark(k) ==
    /\ lock = k /\ current[k] # 0
    /\ UpdateJob(current[k], "cancelled")
    /\ current' = [current EXCEPT ![k] = 0]
    /\ lock' = IF doomed[k] = {} THEN 0 ELSE k
    /\ UNCHANGED <<parent, wpc, turns, flag, finished, coord, paused, told, confirmVars,
                   doomed, claimed, decision>>

TellCancelled(k) ==
    /\ lock # k
    /\ \E j \in claimed[k] :
          /\ \A i \in claimed[k] : parent[i] # j
          /\ DecideConfirm(j, FALSE)
          /\ finished' = [finished EXCEPT ![j] = TRUE]
          /\ Announce(j)
          /\ claimed' = [claimed EXCEPT ![k] = claimed[k] \ {j}]
    /\ UNCHANGED <<state, parent, wpc, turns, flag, coord, paused, shown, mine, asker, row, granted,
                   lock, doomed, current, decision>>

SetPaused(j, on) ==
    /\ j \in Pausable
    /\ lock = 0 /\ IsActive(j) /\ paused[j] # on
    /\ paused' = [paused EXCEPT ![j] = on]
    /\ UNCHANGED <<state, parent, wpc, turns, flag, finished, coord, told, confirmVars,
                   sweepVars, decision>>

-----------------------------------------------------------------------------
Stepping(j) == LoopCancelled(j) \/ NextStep(j) \/ StepEnds(j) \/ PlanEnds(j)
Ending(j) == RecordDone(j) \/ TellDone(j) \/ FailCheck(j) \/ TellFailed(j) \/ Close(j)
Spawning(j) == BeginSpawn(j) \/ SpawnChild(j) \/ EndSpawn(j) \/ Rejoin(j) \/ OutOfTime(j)
Asking(j) == Ask(j) \/ Park(j) \/ Wake(j) \/ Approved(j) \/ Denied(j)
Worker(j) == Stepping(j) \/ Ending(j) \/ Spawning(j) \/ Asking(j)
Cancelling(k) == Flag(k) \/ Mark(k) \/ TellCancelled(k)

Next ==
    \/ StartJob(0)
    \/ \E j \in Jobs : Submit(j) \/ PoolTakes(j) \/ Worker(j)
    \/ \E j \in Jobs, on \in BOOLEAN : SetPaused(j, on)
    \/ \E c \in Confirms : Expire(c)
    \/ \E d \in Deciders : \/ \E cid \in Confirms \cup {0}, yes \in BOOLEAN : Resolve(d, cid, yes)
                           \/ Store(d) \/ Deliver(d)
    \/ \E k \in Cancellers : (\E j \in Jobs : Claim(k, j)) \/ Cancelling(k)

Spec == Init /\ [][Next]_vars

\* Threads run, turns end, confirms and jobs time out; nobody promises to pause,
\* resume, cancel or decide.
Fairness ==
    /\ \A j \in Jobs : WF_vars(Submit(j)) /\ WF_vars(PoolTakes(j)) /\ WF_vars(Worker(j))
    /\ \A k \in Cancellers : WF_vars(Cancelling(k))
    /\ \A d \in Deciders : WF_vars(Store(d) \/ Deliver(d))

LiveSpec == Spec /\ Fairness

-----------------------------------------------------------------------------
(* Properties.                                                             *)

WorkerLabels == {"none", "created", "queued", "top", "step", "finishing", "recorded", "failing",
                 "failed", "closing", "ended", "spawning", "waiting", "asked", "parked",
                 "approved", "denied"}

\* Every variable holds what its attribute or its column can hold.
TypeOK ==
    /\ state \in [Jobs -> {"absent"} \cup ACTIVE_JOB_STATES \cup TERMINAL_JOB_STATES]
    /\ parent \in [Jobs -> {0} \cup Jobs]
    /\ wpc \in [Jobs -> WorkerLabels]
    /\ turns \in [Jobs -> 0..MaxTurns]
    /\ flag \in [Jobs -> BOOLEAN] /\ finished \in [Jobs -> BOOLEAN]
    /\ coord \in [Jobs -> BOOLEAN] /\ paused \in [Jobs -> BOOLEAN]
    /\ ready \in [Jobs -> BOOLEAN] /\ answer \in [Jobs -> BOOLEAN]
    /\ told \in [Jobs -> Nat]
    /\ shown \in [Jobs -> {0} \cup Confirms]
    /\ mine \in [Jobs -> {0} \cup Confirms]
    /\ asker \in [Confirms -> {0} \cup Jobs]
    /\ row \in [Confirms -> {"absent", "pending", "approved", "denied", "expired"}]
    /\ granted \subseteq Confirms
    /\ lock \in {0} \cup Cancellers
    /\ doomed \in [Cancellers -> SUBSET Jobs] /\ claimed \in [Cancellers -> SUBSET Jobs]
    /\ current \in [Cancellers -> {0} \cup Jobs]
    /\ decision \in [Deciders -> [cid : {0} \cup Confirms, job : {0} \cup Jobs,
                                  yes : BOOLEAN, stored : BOOLEAN]]

\* Children do not outlive a cancelled parent (_cancel: "a spawn racing the sweep is
\* either swept with it or rejected outright"): from the moment a cancel flags a
\* job nothing beneath it is active, and nothing becomes so.
CancelReachesSubtree ==
    \A p \in Jobs : flag[p] \/ state[p] = "cancelled" => \A j \in Children(p) : ~IsActive(j)

\* A settled job keeps its result: no late worker, cancel or confirm rewrites it
\* (update_job: "a finished job is immutable").
SettledIsFinal ==
    [][\A j \in Jobs : state[j] \in TERMINAL_JOB_STATES => state'[j] = state[j]]_vars

AskedBy(j) == {c \in Confirms : asker[c] = j}

\* An approval is spent at most once: of the tool calls a job was let through,
\* there are never more than confirms of that job a user approved.
ApprovalSpentOnce ==
    \A j \in Jobs : Cardinality(granted \cap AskedBy(j))
                        <= Cardinality({c \in AskedBy(j) : row[c] = "approved"})

\* No ghost of a confirm: once its job's worker is gone a confirm neither shows on
\* the face nor waits for a decision on the dashboard, unless a late answer to an
\* earlier confirm let its call through.
NoGhostConfirm ==
    \A j \in Jobs : wpc[j] = "ended" =>
        /\ shown[j] = 0
        /\ \A c \in AskedBy(j) : row[c] = "pending" => c \in granted

\* Every job comes to an end that is stored and announced, its thread freed, unless
\* the user keeps a job paused, though waiters and parents hold pool threads too.
EveryJobReports ==
    \A j \in Jobs :
        wpc[j] = "queued" ~>
            \/ wpc[j] = "ended" /\ state[j] \in TERMINAL_JOB_STATES /\ told[j] > 0
            \/ \E i \in Jobs : paused[i] /\ IsActive(i)

\* The registry as the rest of the program sees it.
PublicStatus(j) == IF IsActive(j) THEN "active" ELSE state[j]
Reached == {j \in Jobs : flag[j] \/ \E k \in Cancellers : j \in doomed[k]}
Life == INSTANCE JobLife WITH status <- [j \in Jobs |-> PublicStatus(j)],
                              stopping <- Reached

\* The threads of the registry implement the life of a job: settled once, stopped
\* with all that is beneath it, cancelled only when asked to, and not left active
\* after that.
ImplementsJobLife == Life!Spec

\* One ending per job (_cancel: claiming under the lock keeps "a cancel chasing a job
\* that just reported back, from [...] announcing a second ending for it").
OneEnding == \A j \in Jobs : told[j] <= 1

\* "An approval must never reach a confirm the caller never saw" (resolve_confirm).
ApprovalReachesItsOwnConfirm == \A c \in granted : row[c] = "approved"

=============================================================================
