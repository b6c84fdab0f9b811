------------------------------ MODULE Scheduler ------------------------------
(***************************************************************************)
(* The durable scheduler: rau/scheduler/service.py over the schedules and  *)
(* schedule_runs tables of rau/control/store.py.                           *)
(*                                                                         *)
(* Every call into the store is one transaction under the store's lock, so *)
(* a store call is the grain of atomicity.  Between two store calls the    *)
(* scheduler loop, the threads that call run_now (HTTP handlers and job    *)
(* workers using the schedule tool), the worker threads that publish a job's *)
(* end, and the owner's edits interleave freely.                           *)
(*                                                                         *)
(* Time is counted in periods of the schedule: an interval or cron trigger *)
(* fires at every instant, a one-time trigger at one of them.  0 stands    *)
(* for SQL NULL in every numeric column.                                   *)
(***************************************************************************)
EXTENDS Integers, FiniteSets

CONSTANTS
    Schedules,   \* schedule ids
    Loop,        \* the "rau-scheduler" thread
    Callers,     \* threads that may call run_now
    MaxTime,     \* bound: last instant of the clock
    MaxAhead,    \* bound: how far ahead the owner places a trigger
    MaxRev,      \* bound: revisions of a schedule
    MaxRuns,     \* bound: rows of schedule_runs
    MaxJobs,     \* bound: jobs started for runs
    MaxManual,   \* bound: calls of run_now
    MaxCrashes,  \* bound: process restarts
    MaxRetries,  \* budget.max_retries of every schedule
    CatchupScan, \* MAX_CATCHUP_SCAN
    Capacity,    \* max_parallel_jobs()
    Endings,     \* the ways jobs end
    FastJobs     \* TRUE: a job may end before its start was recorded

ASSUME SomeSchedule == Schedules # {}
ASSUME ThreadsDistinct == Loop \notin Callers
ASSUME BoundsAreNaturals ==
    /\ {MaxTime, MaxAhead, MaxRev, MaxRuns, MaxJobs} \subseteq Nat \ {0}
    /\ {MaxManual, MaxCrashes, CatchupScan, Capacity} \subseteq Nat
\* SchedulerService._budget clamps max_retries, and RETRY_BACKOFF_SEC has three entries.
ASSUME RetriesClamped == MaxRetries \in 0..3
\* job_done with state done or cancelled; job_failed with an error that
\* _transient_failure takes for transient, or not.
ASSUME EndingsAreAnnouncements == Endings \subseteq {"done", "cancelled", "transient", "permanent"}
ASSUME FastJobsIsBoolean == FastJobs \in BOOLEAN

VARIABLES
    now,      \* the clock
    sched,    \* the schedules table
    runs,     \* the schedule_runs table; ids follow the order of creation
    runCount, \* rows created so far
    jobs,     \* the scheduled jobs, as the jobs table and the registry see them
    jobCount, \* jobs started so far
    pc,       \* where each dispatching thread stands
    due,      \* the loop's snapshot of due schedules not enqueued yet
    cur,      \* the one of them being enqueued
    stamp,    \* the loop's `now` of this tick
    pending,  \* the loop's snapshot of the pending row (id 0: none)
    todo,     \* each thread's snapshot of the queued runs not handled yet
    head,     \* the one of them each thread is dispatching
    hired,    \* the job each thread started and has not recorded
    wanted,   \* the schedule a caller of run_now read
    manual,   \* calls of run_now so far
    crashes,  \* restarts so far
    fired     \* history: occurrences enqueued under the current revision

vars == <<now, sched, runs, runCount, jobs, jobCount, pc, due, stamp, pending,
          cur, todo, head, hired, wanted, manual, crashes, fired>>

loopVars == <<due, cur, stamp, pending>>
dispatchVars == <<todo, head, hired>>
counters == <<manual, crashes>>

Threads == {Loop} \cup Callers
RunIds == 1..MaxRuns
JobIds == 1..MaxJobs
Instants == 0..(MaxTime + MaxAhead + 1)

RunStates == {"queued", "running", "completed", "failed", "cancelled", "interrupted"}
Finished == {"completed", "failed", "interrupted"}

SchedRow == [live : {"none", "live", "deleted"}, enabled : BOOLEAN, once : BOOLEAN,
             at : Instants, next : Instants, rev : 0..(MaxRev + 1)]

RunRow == [state : RunStates \cup {"absent"}, sched : Schedules, rev : 0..(MaxRev + 1),
           job : {0} \cup JobIds, attempt : Nat, backoff : BOOLEAN,
           nominal : Instants, from : Instants, to : Instants]

\* `events` are the job_done / job_failed payloads that are still to be delivered.
JobRow == [run : {0} \cup RunIds, state : {"absent", "planning", "running", "ended"},
           events : SUBSET (Endings \cup {"cancelled"})]

DueRow == [id : Schedules, once : BOOLEAN, next : Instants, rev : 0..(MaxRev + 1)]
Snapshot == [id : RunIds, attempt : Nat]

Live(s) == sched[s].live = "live"
LiveJobs == {j \in JobIds : jobs[j].state \in {"planning", "running"}}
Rows(s, states) == {r \in RunIds : runs[r].sched = s /\ runs[r].state \in states}

\* The first instant a trigger placed at `at` fires, seen from t.
FirstAfter(once, at, t) == IF once \/ at > t THEN at ELSE t + 1

\* The occurrences a row stands for: its own and the range it coalesced.  A row
\* of run_now has a key of its own ("manual:<uuid>"): no occurrence, nominal = 0.
Covers(r) == {runs[r].nominal} \cup (IF runs[r].from = 0 THEN {} ELSE runs[r].from .. runs[r].to)

-----------------------------------------------------------------------------
AnySchedule == CHOOSE s \in Schedules : TRUE
NoRun == [state |-> "absent", sched |-> AnySchedule, rev |-> 0, job |-> 0,
          attempt |-> 0, backoff |-> FALSE, nominal |-> 0, from |-> 0, to |-> 0]
NoJob == [run |-> 0, state |-> "absent", events |-> {}]
NoDue == [id |-> AnySchedule, once |-> FALSE, next |-> 0, rev |-> 0]
NoRow == [id |-> 0, from |-> 0]
NoSnapshot == [id |-> 0, attempt |-> 0]

Init ==
    /\ now = 1
    /\ sched = [s \in Schedules |-> [live |-> "none", enabled |-> FALSE, once |-> FALSE,
                                     at |-> 0, next |-> 0, rev |-> 0]]
    /\ runs = [r \in RunIds |-> NoRun]
    /\ runCount = 0
    /\ jobs = [j \in JobIds |-> NoJob]
    /\ jobCount = 0
    /\ pc = [t \in Threads |-> "idle"]
    /\ due = {} /\ cur = NoDue /\ stamp = 0 /\ pending = NoRow
    /\ todo = [t \in Threads |-> {}]
    /\ head = [t \in Threads |-> NoSnapshot]
    /\ hired = [t \in Threads |-> 0]
    /\ wanted = [t \in Threads |-> [id |-> AnySchedule, rev |-> 0]]
    /\ manual = 0 /\ crashes = 0
    /\ fired = [s \in Schedules |-> {}]

-----------------------------------------------------------------------------
(* The owner: create, update, pause, resume, delete.                       *)

Tick == /\ now < MaxTime
        /\ now' = now + 1
        /\ UNCHANGED <<sched, runs, runCount, jobs, jobCount, pc, loopVars, dispatchVars,
                       wanted, counters, fired>>

Create(s, once, at) ==
    /\ sched[s].live = "none"
    /\ sched' = [sched EXCEPT ![s] = [live |-> "live", enabled |-> TRUE, once |-> once,
                                      at |-> at, next |-> at, rev |-> 1]]
    /\ UNCHANGED <<now, runs, runCount, jobs, jobCount, pc, loopVars, dispatchVars, wanted,
                   counters, fired>>

\* update_schedule(bump_revision=True): the row, and with it every queued run of
\* another revision, in one transaction.
Revise(s, row) ==
    /\ Live(s)
    /\ sched[s].rev < MaxRev
    /\ sched' = [sched EXCEPT ![s] = [row EXCEPT !.rev = sched[s].rev + 1]]
    /\ runs' = [r \in RunIds |->
                  IF /\ runs[r].sched = s /\ runs[r].state = "queued"
                     /\ runs[r].rev # sched[s].rev + 1
                  THEN [runs[r] EXCEPT !.state = "cancelled"]
                  ELSE runs[r]]
    /\ fired' = [fired EXCEPT ![s] = {}]
    /\ UNCHANGED <<now, runCount, jobs, jobCount, pc, loopVars, dispatchVars, wanted, counters>>

\* Edit: the trigger is replaced, or normalised again from what it was.
Edit(s, enabled, once, at) ==
    LET first == FirstAfter(once, at, now)
    IN  Revise(s, [sched[s] EXCEPT !.enabled = enabled, !.once = once, !.at = first,
                                   !.next = IF enabled THEN first ELSE 0])

Pause(s) == Revise(s, [sched[s] EXCEPT !.enabled = FALSE, !.next = 0])

Resume(s) ==
    Revise(s, [sched[s] EXCEPT !.enabled = TRUE,
                               !.next = FirstAfter(sched[s].once, sched[s].at, now)])

Delete(s) ==
    /\ Live(s)
    /\ sched' = [sched EXCEPT ![s] = [sched[s] EXCEPT
                              !.live = "deleted", !.enabled = FALSE, !.next = 0,
                              !.rev = sched[s].rev + 1]]
    /\ runs' = [r \in RunIds |-> IF runs[r].sched = s /\ runs[r].state = "queued"
                                 THEN [runs[r] EXCEPT !.state = "cancelled"]
                                 ELSE runs[r]]
    /\ UNCHANGED <<now, runCount, jobs, jobCount, pc, loopVars, dispatchVars, wanted,
                   counters, fired>>

-----------------------------------------------------------------------------
(* The loop thread: tick enqueues what is due, then dispatches.            *)

ReadDue ==
    /\ pc[Loop] = "idle"
    /\ due' = {[id |-> s, once |-> sched[s].once, next |-> sched[s].next, rev |-> sched[s].rev] :
                s \in {x \in Schedules : /\ Live(x) /\ sched[x].enabled
                                         /\ sched[x].next # 0 /\ sched[x].next <= now}}
    /\ stamp' = now
    /\ pc' = [pc EXCEPT ![Loop] = IF due' = {} THEN "scan" ELSE "pending"]
    /\ UNCHANGED <<now, sched, runs, runCount, jobs, jobCount, cur, pending, dispatchVars, wanted,
                   counters, fired>>

\* _enqueue_due: the last occurrence not after the tick, within the scan limit.
Latest ==
    IF cur.once THEN cur.next
    ELSE IF stamp - cur.next > CatchupScan THEN cur.next + CatchupScan ELSE stamp
FollowUp == IF cur.once THEN 0 ELSE Latest + 1

\* The next due schedule (ORDER BY next_run_at) and its oldest queued row.
ReadPending ==
    /\ pc[Loop] = "pending"
    /\ \E d \in due :
          /\ \A e \in due : d.next <= e.next
          /\ cur' = d
          /\ LET queued == Rows(d.id, {"queued"})
             IN  \/ queued = {} /\ pending' = NoRow
                 \/ \E r \in queued : /\ \A q \in queued : r <= q
                                      /\ pending' = [id |-> r, from |-> runs[r].from]
    /\ pc' = [pc EXCEPT ![Loop] = "write"]
    /\ UNCHANGED <<now, sched, runs, runCount, jobs, jobCount, due, stamp, dispatchVars, wanted,
                   counters, fired>>

\* Slip: a catch-up row that forgets the range it stands for.
OccurrenceWithoutRange ==
    [NoRun EXCEPT !.state = "queued", !.sched = cur.id, !.rev = cur.rev, !.nominal = Latest]

\* A row that stands for the occurrences of the snapshot, all of them new.
Occurrence ==
    [NoRun EXCEPT !.state = "queued", !.sched = cur.id, !.rev = cur.rev, !.nominal = Latest,
                  !.from = IF Latest > cur.next THEN cur.next ELSE 0,
                  !.to = IF Latest > cur.next THEN Latest ELSE 0]

\* UNIQUE(schedule_id, schedule_revision, nominal_key)
Duplicate ==
    \E r \in RunIds : /\ runs[r].state # "absent" /\ runs[r].nominal = Latest
                      /\ runs[r].sched = cur.id /\ runs[r].rev = cur.rev

Coalesce ==
    /\ runs' = [runs EXCEPT ![pending.id] =
                  [@ EXCEPT !.from = IF pending.from = 0 THEN cur.next ELSE pending.from,
                            !.to = Latest]]
    /\ UNCHANGED runCount

Enqueue ==
    /\ ~Duplicate
    /\ runCount < MaxRuns
    /\ runCount' = runCount + 1
    /\ runs' = [runs EXCEPT ![runCount + 1] = Occurrence]

WriteRun ==
    /\ pc[Loop] = "write"
    /\ \/ pending.id # 0 /\ Coalesce
       \/ pending.id = 0 /\ Enqueue
       \/ pending.id = 0 /\ Duplicate /\ UNCHANGED <<runs, runCount>>
    /\ fired' = IF sched[cur.id].rev # cur.rev THEN fired
                ELSE [fired EXCEPT ![cur.id] = @ \cup (cur.next .. Latest)]
    /\ pc' = [pc EXCEPT ![Loop] = "advance"]
    /\ UNCHANGED <<now, sched, jobs, jobCount, loopVars, dispatchVars, wanted, counters>>

\* update_schedule(bump_revision=False), with values computed from the snapshot.
AdvanceSchedule ==
    /\ pc[Loop] = "advance"
    /\ sched' = IF ~Live(cur.id) THEN sched
                ELSE [sched EXCEPT ![cur.id] =
                        [@ EXCEPT !.next = FollowUp,
                                  !.enabled = sched[cur.id].enabled /\ ~cur.once]]
    /\ due' = due \ {cur}
    /\ cur' = NoDue /\ pending' = NoRow
    /\ pc' = [pc EXCEPT ![Loop] = IF due' = {} THEN "scan" ELSE "pending"]
    /\ UNCHANGED <<now, runs, runCount, jobs, jobCount, stamp, dispatchVars, wanted, counters,
                   fired>>

-----------------------------------------------------------------------------
(* run_now, on a caller's thread.                                          *)

RunNowCheck(t, s) ==
    /\ pc[t] = "idle"
    /\ manual < MaxManual
    /\ Live(s)
    /\ Rows(s, {"queued", "running"}) = {}
    /\ manual' = manual + 1
    /\ wanted' = [wanted EXCEPT ![t] = [id |-> s, rev |-> sched[s].rev]]
    /\ pc' = [pc EXCEPT ![t] = "create"]
    /\ UNCHANGED <<now, sched, runs, runCount, jobs, jobCount, loopVars, dispatchVars, crashes,
                   fired>>

RunNowCreate(t) ==
    /\ pc[t] = "create"
    /\ runCount < MaxRuns
    /\ runCount' = runCount + 1
    /\ runs' = [runs EXCEPT ![runCount + 1] = [NoRun EXCEPT !.state = "queued",
                                                 !.sched = wanted[t].id, !.rev = wanted[t].rev]]
    /\ pc' = [pc EXCEPT ![t] = "scan"]
    /\ UNCHANGED <<now, sched, jobs, jobCount, loopVars, dispatchVars, wanted, counters, fired>>

-----------------------------------------------------------------------------
(* _dispatch_queued, on the loop's thread or a caller's.                   *)

ReadQueue(t) ==
    /\ pc[t] = "scan"
    /\ todo' = [todo EXCEPT ![t] =
                  {[id |-> r, attempt |-> runs[r].attempt] :
                     r \in {x \in RunIds : runs[x].state = "queued" /\ ~runs[x].backoff}}]
    /\ pc' = [pc EXCEPT ![t] = IF todo'[t] = {} THEN "idle" ELSE "check"]
    /\ UNCHANGED <<now, sched, runs, runCount, jobs, jobCount, loopVars, head, hired, wanted,
                   counters, fired>>

\* On to the next queued run of the snapshot.
Continue(t, h) ==
    /\ todo' = [todo EXCEPT ![t] = @ \ {h}]
    /\ head' = [head EXCEPT ![t] = NoSnapshot]
    /\ pc' = [pc EXCEPT ![t] = IF todo'[t] = {} THEN "idle" ELSE "check"]

\* Slips: no overlap guard; active_schedule_run in the place of executing_schedule_run.
ExecutingUnchecked(r) == FALSE
ExecutingOrQueued(r) == Rows(runs[r].sched, {"queued", "running"}) \ {r} # {}
Executing(r) == Rows(runs[r].sched, {"running"}) \ {r} # {}
Stale(r) == ~Live(runs[r].sched) \/ runs[r].rev # sched[runs[r].sched].rev

\* The guards of one dispatch (ORDER BY enqueued_at): another run of the schedule
\* executes, the schedule is gone, or its revision has moved on.
CheckRun(t) ==
    /\ pc[t] = "check"
    /\ \E h \in todo[t] :
          /\ \A k \in todo[t] : h.id <= k.id
          /\ \/ Executing(h.id) /\ Continue(t, h) /\ UNCHANGED runs
             \/ /\ ~Executing(h.id) /\ Stale(h.id)
                /\ runs' = [runs EXCEPT ![h.id].state = "cancelled"]
                /\ Continue(t, h)
             \/ /\ ~Executing(h.id) /\ ~Stale(h.id)
                /\ head' = [head EXCEPT ![t] = h]
                /\ pc' = [pc EXCEPT ![t] = "start"]
                /\ UNCHANGED <<runs, todo>>
    /\ UNCHANGED <<now, sched, runCount, jobs, jobCount, loopVars, hired, wanted, counters,
                   fired>>

\* orchestrator.start_job: the job is persisted and its worker submitted.
StartJob(t) ==
    /\ pc[t] = "start"
    /\ Cardinality(LiveJobs) < Capacity
    /\ jobCount < MaxJobs
    /\ jobCount' = jobCount + 1
    /\ jobs' = [jobs EXCEPT ![jobCount + 1] = [run |-> head[t].id, state |-> "planning",
                                               events |-> {}]]
    /\ hired' = [hired EXCEPT ![t] = jobCount + 1]
    /\ pc' = [pc EXCEPT ![t] = "record"]
    /\ UNCHANGED <<now, sched, runs, runCount, loopVars, todo, head, wanted, counters,
                   fired>>

\* reason = at_capacity: jobs of other origins hold slots too, so the pool may be
\* full whatever the scheduled jobs are; the run stays queued.
AtCapacity(t) ==
    /\ pc[t] = "start"
    /\ Continue(t, head[t])
    /\ UNCHANGED <<now, sched, runs, runCount, jobs, jobCount, loopVars, hired, wanted, counters,
                   fired>>

\* Any other refusal: an edit may leave a goal longer than start_job accepts.
RefusedJob(t) ==
    /\ pc[t] = "start"
    /\ runs' = [runs EXCEPT ![head[t].id].state = "failed"]
    /\ Continue(t, head[t])
    /\ UNCHANGED <<now, sched, runCount, jobs, jobCount, loopVars, hired, wanted, counters,
                   fired>>

RecordStart(t) ==
    /\ pc[t] = "record"
    /\ runs' = [runs EXCEPT ![head[t].id] =
                  [@ EXCEPT !.state = "running", !.job = hired[t], !.backoff = FALSE,
                            !.attempt = head[t].attempt + 1]]
    /\ hired' = [hired EXCEPT ![t] = 0]
    /\ Continue(t, head[t])
    /\ UNCHANGED <<now, sched, runCount, jobs, jobCount, loopVars, wanted, counters, fired>>

-----------------------------------------------------------------------------
(* The workers, and the completion event they deliver.                     *)

JobBegins(j) ==
    /\ jobs[j].state = "planning"
    /\ jobs' = [jobs EXCEPT ![j].state = "running"]
    /\ UNCHANGED <<now, sched, runs, runCount, jobCount, pc, loopVars, dispatchVars, wanted,
                   counters, fired>>

\* A cancel may end a job that has not begun.  One that races the end of a running
\* job announces an ending of its own beside the worker's, in either order.
JobEnds(j, events) ==
    /\ \/ jobs[j].state = "running"
       \/ jobs[j].state = "planning" /\ events = {"cancelled"}
    /\ FastJobs \/ \A t \in Threads : hired[t] # j
    /\ jobs' = [jobs EXCEPT ![j] = [@ EXCEPT !.state = "ended", !.events = events]]
    /\ UNCHANGED <<now, sched, runs, runCount, jobCount, pc, loopVars, dispatchVars, wanted,
                   counters, fired>>

\* SchedulerService._job_terminal on the worker's thread.
\* Slips: one retry too many; a cancel retried like a failure.
RetryableOnceMore(r, event) ==
    event = "transient" /\ Live(runs[r].sched) /\ runs[r].attempt <= MaxRetries + 1
RetryableCancel(r, event) ==
    event # "done" /\ Live(runs[r].sched) /\ runs[r].attempt <= MaxRetries

Retryable(r, event) ==
    /\ event = "transient"
    /\ Live(runs[r].sched)
    /\ runs[r].attempt <= MaxRetries

\* Slip: the job's state stored as the run's.
OutcomeAsReported(event) == event
Outcome(event) == CASE event = "done" -> "completed"
                    [] event = "cancelled" -> "cancelled"
                    [] OTHER -> "failed"

Settled(r, event) ==
    IF Retryable(r, event)
    THEN [runs[r] EXCEPT !.state = "queued", !.job = 0, !.backoff = TRUE]
    ELSE [runs[r] EXCEPT !.state = Outcome(event)]

JobTerminal(j, event) ==
    /\ runs' = [r \in RunIds |-> IF runs[r].job = j THEN Settled(r, event) ELSE runs[r]]
    /\ jobs' = [jobs EXCEPT ![j].events = jobs[j].events \ {event}]
    /\ UNCHANGED <<now, sched, runCount, jobCount, pc, loopVars, dispatchVars, wanted, counters,
                   fired>>

\* retry_at passes.
BackoffElapses(r) ==
    /\ runs[r].backoff
    /\ runs' = [runs EXCEPT ![r].backoff = FALSE]
    /\ UNCHANGED <<now, sched, runCount, jobs, jobCount, pc, loopVars, dispatchVars, wanted,
                   counters, fired>>

-----------------------------------------------------------------------------
(* The process dies and the next one runs mark_unfinished_interrupted      *)
(* before it starts the loop.                                              *)

\* Slip: no recovery.
RecoveredNothing(r) == runs[r]

Recovered(r) ==
    IF runs[r].state # "running" THEN runs[r]
    ELSE IF jobs[runs[r].job].state = "planning"
         THEN [runs[r] EXCEPT !.state = "queued", !.job = 0, !.backoff = FALSE]
         ELSE [runs[r] EXCEPT !.state = "interrupted"]

\* Slip: the jobs of the dead process stay open.
StillOpen(j) == jobs[j]

\* The jobs table and the registry after it.
Abandoned(j) == IF jobs[j].state = "absent" THEN jobs[j]
                ELSE [jobs[j] EXCEPT !.state = "ended", !.events = {}]

Restart ==
    /\ crashes < MaxCrashes
    /\ crashes' = crashes + 1
    /\ runs' = [r \in RunIds |-> Recovered(r)]
    /\ jobs' = [j \in JobIds |-> Abandoned(j)]
    /\ pc' = [t \in Threads |-> "idle"]
    /\ due' = {} /\ cur' = NoDue /\ stamp' = 0 /\ pending' = NoRow
    /\ todo' = [t \in Threads |-> {}]
    /\ head' = [t \in Threads |-> NoSnapshot]
    /\ hired' = [t \in Threads |-> 0]
    /\ UNCHANGED <<now, sched, runCount, jobCount, wanted, manual, fired>>

-----------------------------------------------------------------------------
Owner ==
    \E s \in Schedules :
        \/ \E once \in BOOLEAN, at \in now + 1 .. now + MaxAhead : Create(s, once, at)
        \/ \E enabled, once \in BOOLEAN, at \in now + 1 .. now + MaxAhead :
               Edit(s, enabled, once, at)
        \/ \E enabled \in BOOLEAN : Edit(s, enabled, sched[s].once, sched[s].at)
        \/ Pause(s) \/ Resume(s) \/ Delete(s)

Enqueuing == ReadDue \/ ReadPending \/ WriteRun \/ AdvanceSchedule
Starting(t) == CheckRun(t) \/ StartJob(t) \/ AtCapacity(t) \/ RefusedJob(t)
Dispatching(t) == ReadQueue(t) \/ Starting(t) \/ RecordStart(t)
RunNow(t) == (\E s \in Schedules : RunNowCheck(t, s)) \/ RunNowCreate(t)
Working(j) ==
    \/ JobBegins(j)
    \/ \E event \in Endings : JobEnds(j, {event}) \/ JobEnds(j, {event, "cancelled"})
    \/ \E event \in jobs[j].events : JobTerminal(j, event)

Next ==
    \/ Tick
    \/ Owner
    \/ Enqueuing
    \/ \E t \in Threads : Dispatching(t)
    \/ \E t \in Callers : RunNow(t)
    \/ \E j \in JobIds : Working(j)
    \/ \E r \in RunIds : BackoffElapses(r)
    \/ Restart

Spec == Init /\ [][Next]_vars

\* Threads keep running and jobs end (every job has a deadline); the owner, a
\* crash and a refusal are never promised.  The pool has room again and again.
Fairness ==
    /\ WF_vars(Enqueuing)
    /\ \A t \in Threads : /\ WF_vars(ReadQueue(t)) /\ WF_vars(Starting(t))
                          /\ SF_vars(StartJob(t)) /\ WF_vars(RecordStart(t))
    /\ \A t \in Callers : WF_vars(RunNowCreate(t))
    /\ \A j \in JobIds : WF_vars(Working(j))
    /\ \A r \in RunIds : WF_vars(BackoffElapses(r))

LiveSpec == Spec /\ Fairness

-----------------------------------------------------------------------------
(* Properties.                                                             *)

\* Every variable holds what its column or its thread's local can hold.
TypeOK ==
    /\ now \in 1..MaxTime
    /\ sched \in [Schedules -> SchedRow]
    /\ \A s \in Schedules : Live(s) => sched[s].rev <= MaxRev
    /\ runs \in [RunIds -> RunRow] /\ runCount \in 0..MaxRuns
    /\ jobs \in [JobIds -> JobRow] /\ jobCount \in 0..MaxJobs
    /\ pc \in [Threads -> {"idle", "pending", "write", "advance", "create", "scan", "check",
                           "start", "record"}]
    /\ due \subseteq DueRow /\ cur \in DueRow /\ stamp \in 0..MaxTime
    /\ pending \in [id : {0} \cup RunIds, from : Instants]
    /\ todo \in [Threads -> SUBSET Snapshot]
    /\ head \in [Threads -> [id : {0} \cup RunIds, attempt : Nat]]
    /\ hired \in [Threads -> {0} \cup JobIds]
    /\ wanted \in [Threads -> [id : Schedules, rev : 0..(MaxRev + 1)]]
    /\ manual \in 0..MaxManual /\ crashes \in 0..MaxCrashes
    /\ fired \in [Schedules -> SUBSET Instants]

LiveJobsOf(s) == {j \in LiveJobs : runs[jobs[j].run].sched = s}

\* "Runs never overlap for one schedule": _dispatch_queued never has two jobs of
\* one schedule alive, through retries, edits between guard and start, and restarts.
NoOverlap == \A s \in Schedules : \A j, k \in LiveJobsOf(s) : j = k

\* No orphan: a job that is alive is the job of a running row, or of the row a
\* dispatching thread is about to mark running.
LiveJobIsTracked ==
    \A j \in LiveJobs :
        \/ runs[jobs[j].run].job = j /\ runs[jobs[j].run].state = "running"
        \/ \E t \in Threads : hired[t] = j /\ head[t].id = jobs[j].run

\* A finished occurrence never runs again: no retry, late or second announcement
\* of its job's end, stale snapshot of the queue or restart takes it up once more.
FinishedIsFinal ==
    [][\A r \in RunIds : runs[r].state \in Finished =>
                             runs'[r].state \in Finished \cup {"cancelled"}]_vars

\* Attempts of one occurrence stay within the retry budget; a restart before
\* execution may add one each, because the requeued row keeps its attempt.
AttemptsBounded == \A r \in RunIds : runs[r].attempt <= MaxRetries + 1 + crashes

Dropped(r) == runs[r].state = "cancelled" /\ runs[r].job = 0

\* Catch-up loses nothing: an occurrence enqueued under the current revision is
\* covered by a row that is not dropped before it starts.
OccurrenceKept ==
    \A s \in Schedules : Live(s) =>
        \A o \in fired[s] :
            \E r \in RunIds : runs[r].sched = s /\ o \in Covers(r) /\ ~Dropped(r)

\* What holds of it: the only way to lose such an occurrence is to fold it into
\* a row that a retry or a restart left over from an older revision.
OccurrenceLostOnlyWithStaleRow ==
    \A s \in Schedules : Live(s) =>
        \A o \in fired[s] :
            \E r \in RunIds : /\ runs[r].sched = s /\ o \in Covers(r)
                              /\ Dropped(r) => runs[r].rev # sched[s].rev

\* No wedge: a running row has a job whose end is still to come or to be
\* delivered, or the thread that started it has yet to record it.
RunningWillSettle ==
    \A r \in RunIds : runs[r].state = "running" =>
        jobs[runs[r].job].state # "ended" \/ jobs[runs[r].job].events # {}

\* A queued row does not wait for ever: it is started, cancelled or refused.
QueuedIsServed == \A r \in RunIds : runs[r].state = "queued" ~> runs[r].state # "queued"

=============================================================================
