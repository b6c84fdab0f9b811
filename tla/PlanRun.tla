------------------------------- MODULE PlanRun -------------------------------
(***************************************************************************)
(* One job's plan: the loop of _job_thread over the plan's steps, retries,  *)
(* repairs and steering (rau/agent/planner.py), and the tool calls a step   *)
(* makes under an idempotency key (_execute_tool).                          *)
(*                                                                         *)
(* The worker extends the plan without the registry lock; a steering thread *)
(* extends it under the lock.  Both first compute the new step and then     *)
(* append it.  A step lives twice: in the plan, and as a row of the store.  *)
(***************************************************************************)
EXTENDS Integers, Sequences, FiniteSets

CONSTANTS
    Steerers,     \* calls of steer_job, each on a thread of its own
    CallIds,      \* ids the provider gives its tool calls
    InitialSteps, \* longest initial plan: inspect, execute, verify
    Limit,        \* TOTAL_STEP_LIMIT
    RetryBudget,  \* step.retry_budget
    MaxCalls      \* bound: tool calls of the job

ASSUME PlanBounds ==
    /\ {InitialSteps, Limit, MaxCalls} \subseteq Nat
    /\ RetryBudget \in Nat
    /\ 0 < InitialSteps /\ InitialSteps <= Limit
ASSUME NoIdle == "none" \notin CallIds

\* A repair and a steering step may both pass the limit's check before either is appended.
Rows == 1..(Limit + 2)
UNFINISHED == {"queued", "running", "verifying", "awaiting_confirm"}
Keys == Rows \X CallIds

VARIABLES
    steps,   \* plan.steps
    stored,  \* the rows of the steps table
    job,     \* the job's state
    cancel,  \* job.cancel
    wpc,     \* where the worker stands
    cur,     \* job.step
    base,    \* the plan's length the worker's repair was computed from
    call,    \* the tool call in progress
    calls,   \* tool calls made
    ledger,  \* the idempotency table
    ran,     \* history: how often the call of each key was really executed
    left,    \* history: the plan's length when the loop was left; 0: not yet
    draft    \* each steerer's computed step, before it is appended and saved

planVars == <<steps, stored>>
effectVars == <<call, calls, ledger, ran>>
vars == <<planVars, job, cancel, wpc, cur, base, effectVars, left, draft>>

Step(deps, ord) == [st |-> "queued", deps |-> deps, attempt |-> 0, ord |-> ord, eff |-> "none"]
NoRow == [st |-> "absent", eff |-> "none"]
NoCall == [id |-> "none", mutation |-> FALSE]
Draft(pc) == [pc |-> pc, deps |-> {}, ord |-> 0, at |-> 0]

\* build_plan: a chain of at most three steps, each with its row.
Init ==
    /\ \E n \in 1..InitialSteps :
          /\ steps = [i \in 1..n |-> Step({d \in {i - 1} : d > 0}, i - 1)]
          /\ stored = [i \in Rows |-> IF i <= n THEN [st |-> "queued", eff |-> "none"] ELSE NoRow]
    /\ job = "active" /\ cancel = FALSE
    /\ wpc = "top" /\ cur = 0 /\ base = 0
    /\ call = NoCall /\ calls = 0
    /\ ledger = [k \in Keys |-> "absent"]
    /\ ran = [k \in Keys |-> 0]
    /\ left = 0
    /\ draft = [s \in Steerers |-> Draft("idle")]

-----------------------------------------------------------------------------
With(s) == {i \in DOMAIN steps : steps[i].st = s}

\* Slip: a dependency that only started counts.
ReadyOnceStarted(i) == steps[i].st = "queued" /\ steps[i].deps \cap With("queued") = {}
Ready(i) == steps[i].st = "queued" /\ steps[i].deps \subseteq With("completed")

\* Sorted by ordinal, first in the plan among equals.
First(S, i) ==
    /\ i \in S
    /\ \A k \in S : steps[i].ord < steps[k].ord \/ (steps[i].ord = steps[k].ord /\ i <= k)

\* UNIQUE(job_id, ordinal): an insert fails, an update of the own row does not.
Clash(i, plan) ==
    /\ stored[i].st = "absent"
    /\ \E k \in DOMAIN plan \ {i} : plan[k].ord = plan[i].ord /\ stored[k].st # "absent"

Row(i, plan) == [st |-> plan[i].st, eff |-> plan[i].eff]

\* _persist_plan_step by the worker: an error ends the job.
Save(i, plan, next) ==
    IF Clash(i, plan)
    THEN wpc' = "crashed" /\ UNCHANGED stored
    ELSE wpc' = next /\ stored' = [stored EXCEPT ![i] = Row(i, plan)]

SetStep(i, st) ==
    steps' = [steps EXCEPT ![i] = [steps[i] EXCEPT !.st = st]]

-----------------------------------------------------------------------------
(* The loop of _job_thread.                                                *)

LoopCancelled ==
    /\ wpc = "top" /\ cancel
    /\ wpc' = "ended"
    /\ UNCHANGED <<planVars, job, cancel, cur, base, effectVars, left, draft>>

Attempt(i, n) ==
    steps' = [steps EXCEPT ![i] = [steps[i] EXCEPT !.st = "running", !.attempt = n]]

PickStep ==
    /\ wpc = "top" /\ ~cancel
    /\ \E i \in DOMAIN steps :
          /\ First({k \in DOMAIN steps : Ready(k)}, i)
          /\ cur' = i
          /\ Attempt(i, 1)
          /\ Save(i, steps', "exec")
    /\ UNCHANGED <<job, cancel, base, effectVars, left, draft>>

\* Queued steps remain and none is ready: they fail one by one, up to a save that fails.
FailBlocked ==
    /\ wpc = "top" /\ ~cancel
    /\ With("queued") # {} /\ \A i \in DOMAIN steps : ~Ready(i)
    /\ LET twice(i) == \E k \in With("queued") : k < i /\ steps[k].ord = steps[i].ord
           clashes == {i \in With("queued") :
                          stored[i].st = "absent" /\ (Clash(i, steps) \/ twice(i))}
           reached == {i \in With("queued") : \A k \in clashes : i <= k}
       IN  /\ steps' = [i \in DOMAIN steps |->
                           IF i \in reached THEN [steps[i] EXCEPT !.st = "failed"] ELSE steps[i]]
           /\ stored' = [i \in Rows |->
                           IF i \in reached \ clashes THEN Row(i, steps') ELSE stored[i]]
           /\ wpc' = IF clashes = {} THEN "left" ELSE "crashed"
    /\ left' = Len(steps)
    /\ UNCHANGED <<job, cancel, cur, base, effectVars, draft>>

LeaveLoop ==
    /\ wpc = "top" /\ ~cancel
    /\ With("queued") = {}
    /\ wpc' = "left"
    /\ left' = Len(steps)
    /\ UNCHANGED <<planVars, job, cancel, cur, base, effectVars, draft>>

\* Slip: what was completed is enough, whatever failed.
SomethingCompleted == With("completed") # {}
Succeeded == With("failed") = {} /\ With("completed") # {}

\* update_job refuses a job that was cancelled meanwhile.
Record ==
    /\ wpc = "left"
    /\ job' = IF cancel THEN job ELSE IF Succeeded THEN "done" ELSE "failed"
    /\ wpc' = "ended"
    /\ UNCHANGED <<planVars, cancel, cur, base, effectVars, left, draft>>

RecordCrash ==
    /\ wpc = "crashed"
    /\ job' = IF cancel THEN job ELSE "failed"
    /\ wpc' = "ended"
    /\ UNCHANGED <<planVars, cancel, cur, base, effectVars, left, draft>>

-----------------------------------------------------------------------------
(* The step's runner: tool calls, then an outcome.                         *)

Key == <<cur, call.id>>

\* _update_step writes the row of the step, not the step of the plan.
Unsure(i) == stored' = [stored EXCEPT ![i] = [st |-> "awaiting_confirm", eff |-> "unknown"]]

\* Slip: a claim that failed, or whose effect is uncertain, is granted again.
ClaimableAgain(k) == ledger[k] # "completed"
Claimable(k) == ledger[k] = "absent"

\* claim_idempotency with a key nobody used.  A known key with other arguments is a
\* conflict, a settled one is replayed: neither changes anything.  The worker looked at
\* its cancel flag earlier, so a cancelled job may still claim.
Claim(id, mutation) ==
    /\ wpc = "exec" /\ calls < MaxCalls
    /\ Claimable(<<cur, id>>)
    /\ ledger' = [ledger EXCEPT ![<<cur, id>>] = "in_progress"]
    /\ call' = [id |-> id, mutation |-> mutation]
    /\ calls' = calls + 1
    /\ wpc' = "tool"
    /\ UNCHANGED <<planVars, job, cancel, cur, base, ran, left, draft>>

ClaimUncertain(id) ==
    /\ wpc = "exec"
    /\ ledger[<<cur, id>>] \in {"in_progress", "unknown_effect"}
    /\ Unsure(cur)
    /\ UNCHANGED <<steps, job, cancel, wpc, cur, base, effectVars, left, draft>>

RunTool ==
    /\ wpc = "tool"
    /\ ran' = [ran EXCEPT ![Key] = ran[Key] + 1]
    /\ wpc' = "called"
    /\ UNCHANGED <<planVars, job, cancel, cur, base, call, calls, ledger, left, draft>>

Disposition(mutation, ok) ==
    IF ok THEN "completed" ELSE IF mutation THEN "unknown_effect" ELSE "failed"

Settle(ok) ==
    /\ wpc = "called"
    /\ LET d == Disposition(call.mutation, ok)
       IN  /\ ledger' = [ledger EXCEPT ![Key] = d]
           /\ IF d = "unknown_effect"
              THEN wpc' = "unsure" /\ UNCHANGED call
              ELSE wpc' = "exec" /\ call' = NoCall
    /\ UNCHANGED <<planVars, job, cancel, cur, base, calls, ran, left, draft>>

MarkUnsure ==
    /\ wpc = "unsure"
    /\ Unsure(cur)
    /\ call' = NoCall
    /\ wpc' = "exec"
    /\ UNCHANGED <<steps, job, cancel, cur, base, calls, ledger, ran, left, draft>>

\* A summary the verifier accepts.
Verify ==
    /\ wpc = "exec"
    /\ SetStep(cur, "verifying")
    /\ Save(cur, steps', "verified")
    /\ UNCHANGED <<job, cancel, cur, base, effectVars, left, draft>>

Complete ==
    /\ wpc = "verified"
    /\ SetStep(cur, "completed")
    /\ Save(cur, steps', "top")
    /\ UNCHANGED <<job, cancel, cur, base, effectVars, left, draft>>

\* Slip: the retries are not counted.
RetryForEver(retryable, unknown) == retryable /\ ~unknown /\ ~cancel
\* `unknown`: the plan's copy of the step says so, or the message does.
MayRetry(retryable, unknown) ==
    /\ steps[cur].attempt <= RetryBudget
    /\ retryable /\ ~unknown /\ steps[cur].eff # "unknown" /\ ~cancel

Retry(retryable, unknown) ==
    /\ wpc = "exec"
    /\ MayRetry(retryable, unknown)
    /\ Attempt(cur, steps[cur].attempt + 1)
    /\ Save(cur, steps', "exec")
    /\ UNCHANGED <<job, cancel, cur, base, effectVars, left, draft>>

\* Slip: a failed step goes back to the queue.
PutBack(i) ==
    /\ SetStep(i, "queued")
    /\ Save(i, steps', "top")
GiveUp(i) ==
    /\ SetStep(i, "failed")
    /\ Save(i, steps', "top")

\* The verifier's rejection, with room for a repair, starts a revision.
StepFails(retryable, unknown, rejected) ==
    /\ wpc = "exec"
    /\ ~MayRetry(retryable, unknown)
    /\ IF rejected /\ Len(steps) + 2 <= Limit
       THEN wpc' = "repairing" /\ base' = Len(steps) /\ UNCHANGED planVars
       ELSE GiveUp(cur) /\ UNCHANGED base
    /\ UNCHANGED <<job, cancel, cur, effectVars, left, draft>>

Repaired ==
    steps \o << Step(steps[cur].deps, base), Step({Len(steps) + 1}, base + 1) >>

\* add_repair_revision appends, then validates; the loop saves three steps, up to a
\* save that fails.  A plan past the limit keeps both new steps and fails this one.
Repair ==
    /\ wpc = "repairing"
    /\ LET fits == Len(steps) + 2 <= Limit
           added == {Len(steps) + 1, Len(steps) + 2}
           plan == [Repaired EXCEPT ![cur] =
                       [steps[cur] EXCEPT !.st = IF fits THEN "cancelled" ELSE "failed"]]
           saved == {i \in added : fits /\ \A k \in added : k <= i => ~Clash(k, plan)}
       IN  /\ steps' = plan
           /\ stored' = [i \in Rows |-> IF i \in saved \cup {cur} THEN Row(i, plan) ELSE stored[i]]
           /\ wpc' = IF fits /\ saved # added THEN "crashed" ELSE "top"
    /\ base' = 0
    /\ UNCHANGED <<job, cancel, cur, effectVars, left, draft>>

-----------------------------------------------------------------------------
(* steer_job, cancel and a restart.                                        *)

\* A steering thread holds the registry lock until its step is saved.
LockFree == \A s \in Steerers : draft[s].pc \in {"idle", "over"}

Steer(s) ==
    /\ draft[s].pc = "idle" /\ LockFree
    /\ job = "active" /\ Len(steps) < Limit
    /\ draft' = [draft EXCEPT ![s] =
                    [pc |-> "append", deps |-> With("running") \cup With("completed"),
                     ord |-> Len(steps), at |-> 0]]
    /\ UNCHANGED <<planVars, job, cancel, wpc, cur, base, effectVars, left>>

\* Past the limit the step stays in the plan and is never saved by steer_job.
SteerAppends(s) ==
    /\ draft[s].pc = "append"
    /\ steps' = Append(steps, Step(draft[s].deps, draft[s].ord))
    /\ draft' = [draft EXCEPT ![s] =
                    IF Len(steps) + 1 > Limit
                    THEN Draft("over")
                    ELSE [draft[s] EXCEPT !.pc = "save", !.at = Len(steps) + 1]]
    /\ UNCHANGED <<stored, job, cancel, wpc, cur, base, effectVars, left>>

SteerSaves(s) ==
    /\ draft[s].pc = "save"
    /\ LET i == draft[s].at
       IN  stored' = IF Clash(i, steps) THEN stored ELSE [stored EXCEPT ![i] = Row(i, steps)]
    /\ draft' = [draft EXCEPT ![s] = Draft("over")]
    /\ UNCHANGED <<steps, job, cancel, wpc, cur, base, effectVars, left>>

Cancel ==
    /\ LockFree
    /\ job = "active" /\ ~cancel
    /\ cancel' = TRUE
    /\ job' = "cancelled"
    /\ UNCHANGED <<planVars, wpc, cur, base, effectVars, left, draft>>

\* Slip: a restart does not look at the ledger.
ForgetsEffects(row) == row.eff
Uncertain == \E k \in Keys : ledger[k] \in {"in_progress", "unknown_effect"}
Recovered(row) == IF Uncertain THEN "unknown" ELSE row.eff

\* mark_unfinished_interrupted.
Restart ==
    /\ job' = IF job = "active" THEN "interrupted" ELSE job
    /\ wpc' = "ended" /\ call' = NoCall
    /\ stored' = [i \in Rows |->
                    IF stored[i].st \in UNFINISHED
                    THEN [st |-> "interrupted", eff |-> Recovered(stored[i])]
                    ELSE stored[i]]
    /\ draft' = [s \in Steerers |-> Draft("over")]
    /\ UNCHANGED <<steps, cancel, cur, base, calls, ledger, ran, left>>

-----------------------------------------------------------------------------
Looping == LoopCancelled \/ PickStep \/ FailBlocked \/ LeaveLoop \/ Record \/ RecordCrash
Calling == \/ \E id \in CallIds, mutation \in BOOLEAN : Claim(id, mutation)
           \/ \E id \in CallIds : ClaimUncertain(id)
           \/ RunTool \/ MarkUnsure
           \/ \E ok \in BOOLEAN : Settle(ok)
Deciding == \/ Verify \/ Complete \/ Repair
            \/ \E retryable, unknown \in BOOLEAN :
                  \/ Retry(retryable, unknown)
                  \/ \E rejected \in BOOLEAN : StepFails(retryable, unknown, rejected)
Steering(s) == Steer(s) \/ SteerAppends(s) \/ SteerSaves(s)

Worker == Looping \/ Calling \/ Deciding
Next == Worker \/ (\E s \in Steerers : Steering(s)) \/ Cancel \/ Restart

Spec == Init /\ [][Next]_vars

\* The worker's thread runs; users need not steer, cancel or restart.
LiveSpec == Spec /\ WF_vars(Worker)

-----------------------------------------------------------------------------
(* Properties.                                                             *)

StepStates == {"queued", "running", "verifying", "completed", "failed", "cancelled"}
WorkerLabels == {"top", "exec", "tool", "called", "unsure", "verified", "repairing", "left",
                 "crashed", "ended"}
ClaimStates == {"absent", "in_progress", "completed", "failed", "unknown_effect"}

\* The plan, its rows, the ledger and the threads keep their types.
TypeOK ==
    /\ steps \in Seq([st : StepStates, deps : SUBSET Rows, attempt : 0..(RetryBudget + 1),
                      ord : Nat, eff : {"none", "unknown"}])
    /\ 0 < Len(steps) /\ Len(steps) \in Rows
    /\ stored \in [Rows -> [st : StepStates \cup {"absent", "awaiting_confirm", "interrupted"},
                            eff : {"none", "unknown"}]]
    /\ job \in {"active", "done", "failed", "cancelled", "interrupted"}
    /\ cancel \in BOOLEAN
    /\ wpc \in WorkerLabels
    /\ cur \in 0..Len(steps) /\ base \in Nat
    /\ call \in [id : CallIds \cup {"none"}, mutation : BOOLEAN]
    /\ calls \in 0..MaxCalls
    /\ ledger \in [Keys -> ClaimStates]
    /\ ran \in [Keys -> Nat]
    /\ left \in {0} \cup Rows
    /\ draft \in [Steerers -> [pc : {"idle", "append", "save", "over"}, deps : SUBSET Rows, ord : Nat,
                               at : {0} \cup Rows]]

\* A step runs on finished work: whatever was steered in or repaired meanwhile, all
\* its dependencies are completed when it is attempted, and stay so.
DependenciesFirst ==
    \A i \in DOMAIN steps : steps[i].attempt > 0 => steps[i].deps \subseteq With("completed")

\* One key, one execution: a retry or a replay of the provider never executes a
\* call twice under its key (_execute_tool: "execute once").
KeyRunsOnce == \A k \in Keys : ran[k] <= 1

\* A job is done only when nothing it started failed: every step it knew of when it
\* left its loop is completed, or was replaced by a repair.
DoneMeansDone ==
    job = "done" => \A i \in 1..left : steps[i].st \in {"completed", "cancelled"}

\* The ledger keeps an uncertain effect for good.
UncertainForGood ==
    [][\A k \in Keys : ledger[k] = "unknown_effect" => ledger'[k] = ledger[k]]_vars

\* A crash in the middle of a call leaves its step marked for review.
CrashIsVisible ==
    job = "interrupted" =>
        \A k \in Keys : ledger[k] = "in_progress" => stored[k[1]].eff = "unknown"

\* The plan comes to an end: retries, repairs and steering are bounded.
PlanEnds == <>(wpc = "ended")

\* A step that left an effect unknown is not attempted again (the guard "and not unknown"
\* of _job_thread; _execute_tool: "Execute once across retries/restarts, preserving
\* uncertain effects").
NoRetryOfUnknown ==
    [][\A i \in DOMAIN steps :
          steps'[i].attempt > steps[i].attempt
              => \A id \in CallIds : ledger[<<i, id>>] # "unknown_effect"]_vars

=============================================================================
