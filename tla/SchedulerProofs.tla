--------------------------- MODULE SchedulerProofs ---------------------------
(***************************************************************************)
(* Theorems about Scheduler for every value of its constants.              *)
(***************************************************************************)
EXTENDS Scheduler, TLAPS

LEMMA AnyScheduleType == AnySchedule \in Schedules
  BY SomeSchedule DEF AnySchedule

\* The empty rows and snapshots are of their types.
LEMMA NullTypes ==
    /\ NoRun \in RunRow /\ NoJob \in JobRow /\ NoDue \in DueRow
    /\ NoRow \in [id : {0} \cup RunIds, from : Instants]
    /\ NoSnapshot \in [id : {0} \cup RunIds, attempt : Nat]
  BY AnyScheduleType, BoundsAreNaturals
     DEF NoRun, NoJob, NoDue, NoRow, NoSnapshot, RunRow, JobRow, DueRow, Instants, RunStates

\* A row with some columns overwritten by values of theirs is a row.
LEMMA SchedUpdates ==
    ASSUME NEW row \in SchedRow
    PROVE  /\ \A v \in 0..(MaxRev + 1) : [row EXCEPT !.rev = v] \in SchedRow
           /\ \A v \in Instants, e \in BOOLEAN :
                 /\ [row EXCEPT !.enabled = e, !.next = v] \in SchedRow
                 /\ [row EXCEPT !.next = v, !.enabled = e] \in SchedRow
           /\ \A v \in Instants, n \in 0..(MaxRev + 1) :
                 [row EXCEPT !.live = "deleted", !.enabled = FALSE, !.next = v, !.rev = n]
                    \in SchedRow
           /\ \A e, o \in BOOLEAN, a, v \in Instants :
                 [row EXCEPT !.enabled = e, !.once = o, !.at = a, !.next = v] \in SchedRow
  BY DEF SchedRow

LEMMA RunUpdates ==
    ASSUME NEW row \in RunRow
    PROVE  /\ \A v \in RunStates : [row EXCEPT !.state = v] \in RunRow
           /\ [row EXCEPT !.state = "cancelled"] \in RunRow
           /\ [row EXCEPT !.state = "failed"] \in RunRow
           /\ [row EXCEPT !.backoff = FALSE] \in RunRow
           /\ \A v, w \in Instants : [row EXCEPT !.from = v, !.to = w] \in RunRow
           /\ \A b \in BOOLEAN :
                 [row EXCEPT !.state = "queued", !.job = 0, !.backoff = b] \in RunRow
           /\ \A s \in Schedules, v \in 0..(MaxRev + 1) :
                 [row EXCEPT !.state = "queued", !.sched = s, !.rev = v] \in RunRow
  BY DEF RunRow, RunStates

LEMMA JobUpdates ==
    ASSUME NEW row \in JobRow
    PROVE  /\ [row EXCEPT !.state = "running"] \in JobRow
           /\ \A e : [row EXCEPT !.events = row.events \ {e}] \in JobRow
           /\ \A E \in SUBSET (Endings \cup {"cancelled"}) :
                 [row EXCEPT !.state = "ended", !.events = E] \in JobRow
  BY DEF JobRow

LEMMA InitType == Init => TypeOK
  BY AnyScheduleType, NullTypes, BoundsAreNaturals
     DEF Init, TypeOK, SchedRow, Instants, Threads, RunIds, JobIds, Live

LEMMA TickType == TypeOK /\ Tick => TypeOK'
  BY BoundsAreNaturals DEF TypeOK, Tick, Live, loopVars, dispatchVars, counters

LEMMA OwnerType == TypeOK /\ Owner => TypeOK'
<1> SUFFICES ASSUME TypeOK, Owner PROVE TypeOK'
  OBVIOUS
<1> USE BoundsAreNaturals DEF loopVars, dispatchVars, counters
<1>1. PICK s \in Schedules :
        \/ \E once \in BOOLEAN, at \in now + 1 .. now + MaxAhead : Create(s, once, at)
        \/ \E enabled, once \in BOOLEAN, at \in now + 1 .. now + MaxAhead :
               Edit(s, enabled, once, at)
        \/ \E enabled \in BOOLEAN : Edit(s, enabled, sched[s].once, sched[s].at)
        \/ Pause(s) \/ Resume(s) \/ Delete(s)
  BY DEF Owner
<1>2. sched[s] \in SchedRow /\ now \in 1..MaxTime
  BY DEF TypeOK
<1>3. now + 1 .. now + MaxAhead \subseteq Instants
  BY <1>2 DEF Instants
<1>4. ASSUME NEW o \in BOOLEAN, NEW a \in Instants PROVE FirstAfter(o, a, now) \in Instants
  BY <1>2 DEF FirstAfter, Instants
<1>5. ASSUME NEW row \in SchedRow, Revise(s, row) PROVE TypeOK'
  <2>1. sched' \in [Schedules -> SchedRow]
    <3>1. sched[s].rev + 1 \in 0..(MaxRev + 1)
      BY <1>2, <1>5 DEF Revise, SchedRow
    <3> QED
      BY <1>5, <3>1, SchedUpdates DEF TypeOK, Revise
  <2>2. runs' \in [RunIds -> RunRow]
    BY <1>5, RunUpdates DEF TypeOK, Revise
  <2>3. fired' \in [Schedules -> SUBSET Instants]
    BY <1>5 DEF TypeOK, Revise
  <2>4. \A x \in Schedules : Live(x)' => sched'[x].rev <= MaxRev
    BY <1>2, <1>5 DEF TypeOK, Revise, Live, SchedRow
  <2> QED
    BY <1>5, <2>1, <2>2, <2>3, <2>4 DEF TypeOK, Revise
<1>6. ASSUME NEW o \in BOOLEAN, NEW a \in Instants, Create(s, o, a) PROVE TypeOK'
  <2>1. sched' \in [Schedules -> SchedRow]
    BY <1>6 DEF TypeOK, Create, SchedRow
  <2>2. \A x \in Schedules : Live(x)' => sched'[x].rev <= MaxRev
    BY <1>6 DEF TypeOK, Create, Live, SchedRow
  <2> QED
    BY <1>6, <2>1, <2>2 DEF TypeOK, Create
<1>7. ASSUME NEW e \in BOOLEAN, NEW o \in BOOLEAN, NEW a \in Instants, Edit(s, e, o, a)
      PROVE  TypeOK'
  <2>1. FirstAfter(o, a, now) \in Instants /\ 0 \in Instants
    BY <1>4, BoundsAreNaturals DEF Instants
  <2>2. [sched[s] EXCEPT !.enabled = e, !.once = o, !.at = FirstAfter(o, a, now),
                         !.next = IF e THEN FirstAfter(o, a, now) ELSE 0] \in SchedRow
    BY <1>2, <2>1, SchedUpdates
  <2> QED
    BY <1>5, <1>7, <2>2 DEF Edit
<1>8. CASE Pause(s)
  <2>1. 0 \in Instants
    BY DEF Instants
  <2> QED
    BY <1>2, <1>5, <1>8, <2>1, SchedUpdates DEF Pause
<1>9. CASE Resume(s)
  <2>1. FirstAfter(sched[s].once, sched[s].at, now) \in Instants
    BY <1>2, <1>4 DEF SchedRow
  <2> QED
    BY <1>2, <1>5, <1>9, <2>1, SchedUpdates DEF Resume
<1>10. CASE Delete(s)
  <2>1. sched' \in [Schedules -> SchedRow]
    <3>1. sched[s].rev + 1 \in 0..(MaxRev + 1) /\ 0 \in Instants
      BY <1>2, <1>10 DEF TypeOK, Delete, SchedRow, Instants
    <3>2. [sched[s] EXCEPT !.live = "deleted", !.enabled = FALSE, !.next = 0,
                           !.rev = sched[s].rev + 1] \in SchedRow
      BY <1>2, <3>1, SchedUpdates
    <3> QED
      BY <1>10, <3>2 DEF TypeOK, Delete
  <2>2. runs' \in [RunIds -> RunRow]
    BY <1>10, RunUpdates DEF TypeOK, Delete
  <2>3. \A x \in Schedules : Live(x)' => sched'[x].rev <= MaxRev
    BY <1>2, <1>10 DEF TypeOK, Delete, Live, SchedRow
  <2> QED
    BY <1>10, <2>1, <2>2, <2>3 DEF TypeOK, Delete
<1> QED
  BY <1>1, <1>2, <1>3, <1>6, <1>7, <1>8, <1>9, <1>10 DEF SchedRow

LEMMA EnqueuingType == TypeOK /\ Enqueuing => TypeOK'
<1> SUFFICES ASSUME TypeOK, Enqueuing PROVE TypeOK'
  OBVIOUS
<1> USE BoundsAreNaturals, NullTypes DEF loopVars, dispatchVars, counters
<1>1. CASE ReadDue
  <2>1. due' \subseteq DueRow
    BY <1>1 DEF ReadDue, TypeOK, DueRow, SchedRow
  <2>2. pc' \in [Threads -> {"idle", "pending", "write", "advance", "create", "scan", "check",
                             "start", "record"}]
    BY <1>1 DEF ReadDue, TypeOK
  <2>3. stamp' \in 0..MaxTime
    BY <1>1 DEF ReadDue, TypeOK
  <2> QED
    BY <1>1, <2>1, <2>2, <2>3 DEF ReadDue, TypeOK, Live
<1>2. CASE ReadPending
  <2>1. cur' \in DueRow
    BY <1>2 DEF ReadPending, TypeOK
  <2>2. pending' \in [id : {0} \cup RunIds, from : Instants]
    BY <1>2 DEF ReadPending, TypeOK, Rows, RunRow
  <2> QED
    BY <1>2, <2>1, <2>2 DEF ReadPending, TypeOK, Live
<1>3. Latest \in Instants /\ FollowUp \in Instants /\ cur.next \in Instants
  BY DEF TypeOK, DueRow, Latest, FollowUp, Instants
<1>4. CASE WriteRun
  <2>1. Occurrence \in RunRow
    BY <1>3 DEF Occurrence, NoRun, RunRow, RunStates, DueRow, TypeOK, Instants
  <2>2. runs' \in [RunIds -> RunRow] /\ runCount' \in 0..MaxRuns
    <3>1. CASE pending.id # 0 /\ Coalesce
      <4>1. (IF pending.from = 0 THEN cur.next ELSE pending.from) \in Instants
        BY <1>3 DEF TypeOK
      <4> QED
        BY <1>3, <3>1, <4>1, RunUpdates DEF Coalesce, TypeOK
    <3>2. CASE Enqueue
      BY <2>1, <3>2 DEF Enqueue, TypeOK, RunIds
    <3> QED
      BY <1>4, <3>1, <3>2 DEF WriteRun, TypeOK
  <2>3. fired' \in [Schedules -> SUBSET Instants]
    <3>1. cur.next .. Latest \subseteq Instants
      BY <1>3 DEF Instants
    <3> QED
      BY <1>4, <3>1 DEF WriteRun, TypeOK
  <2> QED
    BY <1>4, <2>2, <2>3 DEF WriteRun, TypeOK, Live
<1>5. CASE AdvanceSchedule
  <2>1. cur.id \in Schedules
    BY DEF TypeOK, DueRow
  <2>2. [sched[cur.id] EXCEPT !.next = FollowUp,
                              !.enabled = sched[cur.id].enabled /\ ~cur.once] \in SchedRow
    BY <1>3, <2>1, SchedUpdates DEF TypeOK
  <2>3. sched' \in [Schedules -> SchedRow]
    BY <1>5, <2>2 DEF AdvanceSchedule, TypeOK
  <2>4. \A x \in Schedules : Live(x)' => sched'[x].rev <= MaxRev
    BY <1>5, <2>1 DEF AdvanceSchedule, TypeOK, Live, SchedRow
  <2> QED
    BY <1>5, <2>3, <2>4 DEF AdvanceSchedule, TypeOK
<1> QED
  BY <1>1, <1>2, <1>4, <1>5 DEF Enqueuing

LEMMA RunNowType == ASSUME TypeOK, NEW t \in Callers, RunNow(t) PROVE TypeOK'
<1> USE BoundsAreNaturals DEF loopVars, dispatchVars, counters
<1> t \in Threads
  BY DEF Threads
<1>1. ASSUME NEW s \in Schedules, RunNowCheck(t, s) PROVE TypeOK'
  <2>1. [id |-> s, rev |-> sched[s].rev] \in [id : Schedules, rev : 0..(MaxRev + 1)]
    BY <1>1 DEF TypeOK, SchedRow
  <2> QED
    BY <1>1, <2>1 DEF RunNowCheck, TypeOK, Live
<1>2. CASE RunNowCreate(t)
  <2>1. wanted[t].id \in Schedules /\ wanted[t].rev \in 0..(MaxRev + 1)
    BY DEF TypeOK
  <2>2. [NoRun EXCEPT !.state = "queued", !.sched = wanted[t].id, !.rev = wanted[t].rev]
           \in RunRow
    BY <2>1, NullTypes, RunUpdates
  <2>3. runs' \in [RunIds -> RunRow] /\ runCount' \in 0..MaxRuns
    <3>1. runCount + 1 \in RunIds /\ runCount' \in 0..MaxRuns
      <4>1. runCount \in 0..MaxRuns /\ MaxRuns \in Nat
        BY DEF TypeOK
      <4> QED
        BY <1>2, <4>1 DEF RunNowCreate, RunIds
    <3> QED
      BY <1>2, <2>2, <3>1 DEF RunNowCreate, TypeOK
  <2> QED
    BY <1>2, <2>3 DEF RunNowCreate, TypeOK, Live
<1> QED
  BY <1>1, <1>2 DEF RunNow

LEMMA ContinueType ==
    ASSUME TypeOK, NEW t \in Threads, NEW h, Continue(t, h)
    PROVE  /\ todo' \in [Threads -> SUBSET Snapshot]
           /\ head' \in [Threads -> [id : {0} \cup RunIds, attempt : Nat]]
           /\ pc' \in [Threads -> {"idle", "pending", "write", "advance", "create", "scan",
                                   "check", "start", "record"}]
<1>1. todo' \in [Threads -> SUBSET Snapshot]
  BY DEF Continue, TypeOK
<1>2. head' \in [Threads -> [id : {0} \cup RunIds, attempt : Nat]]
  BY NullTypes DEF Continue, TypeOK
<1>3. pc' \in [Threads -> {"idle", "pending", "write", "advance", "create", "scan",
                           "check", "start", "record"}]
  BY DEF Continue, TypeOK
<1> QED
  BY <1>1, <1>2, <1>3

LEMMA DispatchingType == ASSUME TypeOK, NEW t \in Threads, Dispatching(t) PROVE TypeOK'
<1> USE BoundsAreNaturals DEF loopVars, dispatchVars, counters
<1>1. CASE ReadQueue(t)
  <2>1. {[id |-> r, attempt |-> runs[r].attempt] :
            r \in {x \in RunIds : runs[x].state = "queued" /\ ~runs[x].backoff}}
           \subseteq Snapshot
    BY DEF TypeOK, RunRow, Snapshot
  <2>2. todo' \in [Threads -> SUBSET Snapshot]
    BY <1>1, <2>1 DEF ReadQueue, TypeOK
  <2>3. pc' \in [Threads -> {"idle", "pending", "write", "advance", "create", "scan", "check",
                             "start", "record"}]
    BY <1>1 DEF ReadQueue, TypeOK
  <2> QED
    BY <1>1, <2>2, <2>3 DEF ReadQueue, TypeOK, Live
<1>2. CASE CheckRun(t)
  <2>1. PICK h \in todo[t] :
          \/ Executing(h.id) /\ Continue(t, h) /\ UNCHANGED runs
          \/ /\ runs' = [runs EXCEPT ![h.id].state = "cancelled"]
             /\ Continue(t, h)
          \/ /\ head' = [head EXCEPT ![t] = h]
             /\ pc' = [pc EXCEPT ![t] = "start"]
             /\ UNCHANGED <<runs, todo>>
    BY <1>2 DEF CheckRun
  <2>2. h \in [id : {0} \cup RunIds, attempt : Nat] /\ h.id \in RunIds
    BY <2>1 DEF TypeOK, Snapshot
  <2>3. runs' \in [RunIds -> RunRow]
    <3>1. CASE runs' = [runs EXCEPT ![h.id].state = "cancelled"]
      BY <2>2, <3>1, RunUpdates DEF TypeOK
    <3>2. CASE UNCHANGED runs
      BY <3>2 DEF TypeOK
    <3> QED
      BY <2>1, <3>1, <3>2
  <2>4. CASE Continue(t, h)
    BY <1>2, <2>3, <2>4, ContinueType DEF CheckRun, TypeOK, Live
  <2>5. CASE /\ head' = [head EXCEPT ![t] = h]
             /\ pc' = [pc EXCEPT ![t] = "start"]
             /\ UNCHANGED <<runs, todo>>
    BY <1>2, <2>2, <2>5 DEF CheckRun, TypeOK, Live
  <2> QED
    BY <2>1, <2>4, <2>5
<1>3. CASE StartJob(t)
  <2>1. CASE head[t].id \in {0} \cup RunIds
    <3>1. [run |-> head[t].id, state |-> "planning", events |-> {}] \in JobRow
      BY <2>1 DEF JobRow
    <3>2. jobs' \in [JobIds -> JobRow]
      BY <1>3, <3>1 DEF StartJob, TypeOK, JobIds
    <3>3. jobCount' \in 0..MaxJobs /\ jobCount + 1 \in JobIds
      BY <1>3 DEF StartJob, TypeOK, JobIds
    <3> QED
      BY <1>3, <3>2, <3>3 DEF StartJob, TypeOK, Live
  <2> QED
    BY <2>1 DEF TypeOK
<1>4. CASE AtCapacity(t)
  BY <1>4, ContinueType DEF AtCapacity, TypeOK, Live
<1>5. CASE RefusedJob(t)
  <2>1. runs' \in [RunIds -> RunRow]
    BY <1>5, RunUpdates DEF RefusedJob, TypeOK
  <2> QED
    BY <1>5, <2>1, ContinueType DEF RefusedJob, TypeOK, Live
<1>6. CASE RecordStart(t)
  <2>1. hired[t] \in {0} \cup JobIds /\ head[t].attempt + 1 \in Nat
    BY DEF TypeOK
  <2>2. ASSUME NEW row \in RunRow
        PROVE  [row EXCEPT !.state = "running", !.job = hired[t], !.backoff = FALSE,
                           !.attempt = head[t].attempt + 1] \in RunRow
    BY <2>1 DEF RunRow, RunStates
  <2>3. runs' \in [RunIds -> RunRow]
    BY <1>6, <2>2 DEF RecordStart, TypeOK
  <2>4. hired' \in [Threads -> {0} \cup JobIds]
    BY <1>6 DEF RecordStart, TypeOK
  <2> QED
    BY <1>6, <2>3, <2>4, ContinueType DEF RecordStart, TypeOK, Live
<1> QED
  BY <1>1, <1>2, <1>3, <1>4, <1>5, <1>6 DEF Dispatching, Starting

LEMMA WorkingType == ASSUME TypeOK, NEW j \in JobIds, Working(j) PROVE TypeOK'
<1> USE DEF loopVars, dispatchVars, counters
<1>1. CASE JobBegins(j)
  <2>1. jobs' \in [JobIds -> JobRow]
    BY <1>1, JobUpdates DEF JobBegins, TypeOK
  <2> QED
    BY <1>1, <2>1 DEF JobBegins, TypeOK, Live
<1>2. ASSUME NEW events \in SUBSET (Endings \cup {"cancelled"}), JobEnds(j, events)
      PROVE  TypeOK'
  <2>1. jobs' \in [JobIds -> JobRow]
    BY <1>2, JobUpdates DEF JobEnds, TypeOK
  <2> QED
    BY <1>2, <2>1 DEF JobEnds, TypeOK, Live
<1>3. ASSUME NEW event, JobTerminal(j, event) PROVE TypeOK'
  <2>1. ASSUME NEW r \in RunIds PROVE Settled(r, event) \in RunRow
    <3>1. runs[r] \in RunRow /\ Outcome(event) \in RunStates
      BY DEF TypeOK, Outcome, RunStates
    <3> QED
      BY <3>1, RunUpdates DEF Settled
  <2>2. runs' \in [RunIds -> RunRow]
    BY <1>3, <2>1 DEF JobTerminal, TypeOK
  <2>3. jobs' \in [JobIds -> JobRow]
    BY <1>3, JobUpdates DEF JobTerminal, TypeOK
  <2> QED
    BY <1>3, <2>2, <2>3 DEF JobTerminal, TypeOK, Live
<1> QED
  BY <1>1, <1>2, <1>3 DEF Working

LEMMA BackoffType == ASSUME TypeOK, NEW r \in RunIds, BackoffElapses(r) PROVE TypeOK'
<1>1. runs' \in [RunIds -> RunRow]
  BY RunUpdates DEF BackoffElapses, TypeOK
<1> QED
  BY <1>1 DEF BackoffElapses, TypeOK, Live, loopVars, dispatchVars, counters

LEMMA RestartType == TypeOK /\ Restart => TypeOK'
<1> SUFFICES ASSUME TypeOK, Restart PROVE TypeOK'
  OBVIOUS
<1>1. \A r \in RunIds : Recovered(r) \in RunRow
  BY RunUpdates DEF Recovered, TypeOK, RunStates
<1>2. runs' \in [RunIds -> RunRow]
  BY <1>1 DEF Restart
<1>3. jobs' \in [JobIds -> JobRow]
  BY JobUpdates DEF Restart, Abandoned, TypeOK
<1>4. crashes' \in 0..MaxCrashes
  <2>1. crashes \in 0..MaxCrashes /\ MaxCrashes \in Nat
    BY BoundsAreNaturals DEF TypeOK
  <2>2. crashes < MaxCrashes /\ crashes' = crashes + 1
    BY DEF Restart
  <2> QED
    BY <2>1, <2>2
<1>5. /\ pc' \in [Threads -> {"idle", "pending", "write", "advance", "create", "scan", "check",
                               "start", "record"}]
      /\ todo' \in [Threads -> SUBSET Snapshot]
      /\ head' \in [Threads -> [id : {0} \cup RunIds, attempt : Nat]]
      /\ hired' \in [Threads -> {0} \cup JobIds]
  BY NullTypes DEF Restart
<1>6. /\ due' \subseteq DueRow /\ cur' \in DueRow /\ stamp' \in 0..MaxTime
      /\ pending' \in [id : {0} \cup RunIds, from : Instants]
  <2>1. 0 \in 0..MaxTime
    BY BoundsAreNaturals
  <2> QED
    BY NullTypes, <2>1 DEF Restart
<1> QED
  BY <1>2, <1>3, <1>4, <1>5, <1>6 DEF Restart, TypeOK, Live

\* Type correctness: whatever the interleaving of edits, dispatching threads,
\* completions and restarts, every row and every thread's local stays well formed.
THEOREM TypeCorrect == Spec => []TypeOK
<1>1. Init => TypeOK
  BY InitType
<1>2. TypeOK /\ [Next]_vars => TypeOK'
  <2>1. TypeOK /\ Next => TypeOK'
    BY TickType, OwnerType, EnqueuingType, RunNowType, DispatchingType, WorkingType,
       BackoffType, RestartType DEF Next
  <2>2. TypeOK /\ UNCHANGED vars => TypeOK'
    BY DEF TypeOK, vars, Live
  <2> QED
    BY <2>1, <2>2
<1> QED
  BY <1>1, <1>2, PTL DEF Spec

-----------------------------------------------------------------------------
(***************************************************************************)
(* When no thread calls run_now, the loop is the only dispatcher.  The     *)
(* invariant behind NoOverlap and FinishedIsFinal says who owns what: the  *)
(* rows the loop holds a snapshot of are not started by anyone else, a row *)
(* that was started points at its own job, and every live job is pointed   *)
(* at, by its row or by the loop that is about to record it.               *)
(***************************************************************************)

\* Ids are handed out in order: what lies beyond the counters does not exist.
Unborn ==
    /\ \A r \in RunIds : r > runCount => runs[r].state = "absent"
    /\ \A j \in JobIds : j > jobCount => jobs[j].state = "absent"

\* A row and its job.
RowJob(r) ==
    /\ runs[r].state = "running" => runs[r].job # 0
    /\ runs[r].state \in {"absent", "queued"} => runs[r].job = 0
    /\ runs[r].job # 0 =>
          /\ jobs[runs[r].job].run = r
          /\ jobs[runs[r].job].state # "absent"
          /\ runs[r].state # "running" => jobs[runs[r].job].state = "ended"
          /\ runs[r].state \in Finished => jobs[runs[r].job].events \subseteq {"cancelled"}

\* What the loop took from the queue nobody else starts.
Held == \A k \in todo[Loop] :
           /\ runs[k.id].state \in {"queued", "cancelled"} /\ runs[k.id].job = 0
           /\ \A l \in todo[Loop] : l.id = k.id => l = k

\* Between its guards and its record the loop's row is alone in its schedule.
Alone ==
    pc[Loop] \in {"start", "record"} =>
        /\ head[Loop] \in todo[Loop]
        /\ \A r \in RunIds : runs[r].state = "running" =>
              runs[r].sched # runs[head[Loop].id].sched

\* The job the loop has not recorded yet.
Unrecorded ==
    /\ hired[Loop] # 0 => pc[Loop] = "record"
    /\ pc[Loop] = "record" => /\ hired[Loop] # 0
                              /\ jobs[hired[Loop]].state # "absent"
                              /\ jobs[hired[Loop]].run = head[Loop].id
                              /\ \A r \in RunIds : runs[r].job # hired[Loop]

\* A live job belongs to a running row or is the loop's unrecorded one.
Tracked(j) ==
    jobs[j].state \in {"planning", "running"} =>
        /\ jobs[j].run \in RunIds
        /\ \/ runs[jobs[j].run].job = j /\ runs[jobs[j].run].state = "running"
           \/ hired[Loop] = j /\ head[Loop].id = jobs[j].run

OneRunning ==
    \A r, q \in RunIds : /\ runs[r].state = "running" /\ runs[q].state = "running"
                         /\ runs[r].sched = runs[q].sched
                         => r = q

\* What is announced is the end of an ended job, beside a cancel that raced it.
OneEnding(events) == \A e, f \in events \ {"cancelled"} : e = f

EventsOfTheEnded ==
    \A j \in JobIds : /\ jobs[j].events # {} => jobs[j].state = "ended"
                      /\ OneEnding(jobs[j].events)

LoopInv ==
    /\ TypeOK /\ Unborn /\ Held /\ Alone /\ Unrecorded /\ OneRunning /\ EventsOfTheEnded
    /\ \A r \in RunIds : RowJob(r)
    /\ \A j \in JobIds : Tracked(j)

\* A row keeps its job and its schedule, and changes state at most from queued
\* to cancelled: an edit, the coalescing of an occurrence, a passed retry_at.
Soft(r) ==
    /\ runs'[r].job = runs[r].job /\ runs'[r].sched = runs[r].sched
    /\ \/ runs'[r].state = runs[r].state
       \/ runs[r].state = "queued" /\ runs'[r].state = "cancelled"

\* The steps that change rows softly and leave the jobs and the dispatch alone.
LEMMA SoftStep ==
    ASSUME LoopInv, TypeOK', \A r \in RunIds : Soft(r),
           UNCHANGED <<runCount, jobs, jobCount, todo, head, hired>>,
           pc'[Loop] \in {"start", "record"} \/ pc[Loop] \in {"start", "record"}
              => pc'[Loop] = pc[Loop]
    PROVE  LoopInv'
<1>1. Unborn'
  BY DEF LoopInv, Unborn, Soft
<1>2. Held'
  <2>1. \A k \in todo[Loop] : k.id \in RunIds
    BY DEF LoopInv, TypeOK, Threads, Snapshot
  <2> QED
    BY <2>1 DEF LoopInv, Held, Soft
<1>3. Alone'
  <2> SUFFICES ASSUME pc[Loop] \in {"start", "record"}
               PROVE  /\ head[Loop] \in todo[Loop]
                      /\ \A r \in RunIds : runs'[r].state = "running" =>
                            runs'[r].sched # runs'[head[Loop].id].sched
    BY DEF Alone
  <2>1. head[Loop] \in todo[Loop] /\ head[Loop].id \in RunIds
    BY DEF LoopInv, Alone, TypeOK, Threads, Snapshot
  <2> QED
    BY <2>1 DEF LoopInv, Alone, Soft
<1>4. Unrecorded'
  BY DEF LoopInv, Unrecorded, Soft
<1>5. OneRunning'
  BY DEF LoopInv, OneRunning, Soft
<1>6. EventsOfTheEnded'
  BY DEF LoopInv, EventsOfTheEnded
<1>7. \A r \in RunIds : RowJob(r)'
  BY DEF LoopInv, RowJob, Soft
<1>8. \A j \in JobIds : Tracked(j)'
  BY DEF LoopInv, Tracked, Soft
<1> QED
  BY <1>1, <1>2, <1>3, <1>4, <1>5, <1>6, <1>7, <1>8 DEF LoopInv

\* A step does not take a finished row up again.
Final == \A r \in RunIds : runs[r].state \in Finished =>
                              runs'[r].state \in Finished \cup {"cancelled"}

LEMMA SoftIsFinal == (\A r \in RunIds : Soft(r)) => Final
  BY DEF Soft, Final, Finished

LEMMA OwnerLoop == ASSUME LoopInv, Owner PROVE LoopInv' /\ Final
<1>1. TypeOK'
  BY OwnerType DEF LoopInv
<1>2. \A r \in RunIds : Soft(r)
  <2>1. ASSUME NEW s \in Schedules, NEW row, Revise(s, row) PROVE \A r \in RunIds : Soft(r)
    BY <2>1 DEF LoopInv, TypeOK, Revise, Soft, RunRow
  <2>2. ASSUME NEW s \in Schedules, Delete(s) PROVE \A r \in RunIds : Soft(r)
    BY <2>2 DEF LoopInv, TypeOK, Delete, Soft, RunRow
  <2>3. ASSUME UNCHANGED runs PROVE \A r \in RunIds : Soft(r)
    BY <2>3 DEF Soft
  <2> QED
    BY <2>1, <2>2, <2>3 DEF Owner, Create, Edit, Pause, Resume
<1>3. UNCHANGED <<runCount, jobs, jobCount, todo, head, hired, pc>>
  BY DEF Owner, Create, Edit, Pause, Resume, Delete, Revise, dispatchVars
<1> QED
  BY <1>1, <1>2, <1>3, SoftStep, SoftIsFinal

LEMMA TickLoop == ASSUME LoopInv, Tick PROVE LoopInv' /\ Final
<1>1. TypeOK'
  BY TickType DEF LoopInv
<1>2. \A r \in RunIds : Soft(r)
  BY DEF Tick, Soft
<1>3. UNCHANGED <<runCount, jobs, jobCount, todo, head, hired, pc>>
  BY DEF Tick, dispatchVars
<1> QED
  BY <1>1, <1>2, <1>3, SoftStep, SoftIsFinal

LEMMA BackoffLoop ==
    ASSUME LoopInv, NEW x \in RunIds, BackoffElapses(x) PROVE LoopInv' /\ Final
<1>1. TypeOK'
  BY BackoffType DEF LoopInv
<1>2. \A r \in RunIds : Soft(r)
  BY DEF BackoffElapses, Soft, LoopInv, TypeOK, RunRow
<1>3. UNCHANGED <<runCount, jobs, jobCount, todo, head, hired, pc>>
  BY DEF BackoffElapses, dispatchVars
<1> QED
  BY <1>1, <1>2, <1>3, SoftStep, SoftIsFinal

\* The new row of an enqueue is one that did not exist, so nothing refers to it.
LEMMA EnqueueLoop ==
    ASSUME LoopInv, TypeOK', pc[Loop] = "write", pc'[Loop] = "advance", Enqueue,
           UNCHANGED <<jobs, jobCount, todo, head, hired>>
    PROVE  LoopInv' /\ Final
<1> DEFINE n == runCount + 1
<1>1. n \in RunIds /\ runs[n].state = "absent" /\ runCount \in 0..MaxRuns
  BY BoundsAreNaturals DEF LoopInv, TypeOK, Unborn, Enqueue, RunIds
<1>2. /\ runs'[n].state = "queued" /\ runs'[n].job = 0
      /\ \A r \in RunIds \ {n} : runs'[r] = runs[r]
      /\ runCount' = n
  BY <1>1 DEF Enqueue, Occurrence, NoRun, LoopInv, TypeOK
<1>3. \A k \in todo[Loop] : k.id \in RunIds \ {n}
  BY <1>1 DEF LoopInv, TypeOK, Held, Threads, Snapshot
<1>4. \A j \in JobIds : jobs[j].state \in {"planning", "running"} => jobs[j].run # n
  BY <1>1 DEF LoopInv, Tracked, Unrecorded, JobIds
<1> HIDE DEF n
<1>5. Unborn'
  BY <1>1, <1>2 DEF LoopInv, Unborn, RunIds, n
<1>6. Held'
  BY <1>2, <1>3 DEF LoopInv, Held
<1>7. Alone' /\ Unrecorded' /\ EventsOfTheEnded'
  BY <1>1, <1>2 DEF LoopInv, Alone, Unrecorded, EventsOfTheEnded
<1>8. OneRunning'
  BY <1>2 DEF LoopInv, OneRunning
<1>9. \A r \in RunIds : RowJob(r)'
  BY <1>2 DEF LoopInv, RowJob
<1>10. \A j \in JobIds : Tracked(j)'
  BY <1>2, <1>4 DEF LoopInv, Tracked
<1>11. Final
  BY <1>1, <1>2 DEF Final, Finished
<1> QED
  BY <1>5, <1>6, <1>7, <1>8, <1>9, <1>10, <1>11 DEF LoopInv

LEMMA EnqueuingLoop == ASSUME LoopInv, Enqueuing PROVE LoopInv' /\ Final
<1> USE DEF loopVars, dispatchVars, counters
<1>1. TypeOK'
  BY EnqueuingType DEF LoopInv
<1>2. pc \in [Threads -> {"idle", "pending", "write", "advance", "create", "scan", "check",
                          "start", "record"}] /\ Loop \in Threads
  BY DEF LoopInv, TypeOK, Threads
<1>3. CASE ReadDue \/ ReadPending \/ AdvanceSchedule
  <2>1. \A r \in RunIds : Soft(r)
    BY <1>3 DEF ReadDue, ReadPending, AdvanceSchedule, Soft
  <2>2. UNCHANGED <<runCount, jobs, jobCount, todo, head, hired>>
    BY <1>3 DEF ReadDue, ReadPending, AdvanceSchedule
  <2>3. /\ pc[Loop] \notin {"start", "record"}
        /\ pc'[Loop] \notin {"start", "record"}
    BY <1>2, <1>3 DEF ReadDue, ReadPending, AdvanceSchedule
  <2> QED
    BY <1>1, <2>1, <2>2, <2>3, SoftStep, SoftIsFinal
<1>4. CASE WriteRun
  <2>1. pc[Loop] = "write" /\ pc'[Loop] = "advance"
    BY <1>2, <1>4 DEF WriteRun
  <2>2. UNCHANGED <<jobs, jobCount, todo, head, hired>>
    BY <1>4 DEF WriteRun
  <2>3. CASE Enqueue
    BY <1>1, <2>1, <2>2, <2>3, EnqueueLoop
  <2>4. CASE Coalesce \/ UNCHANGED <<runs, runCount>>
    <3>1. \A r \in RunIds : Soft(r)
      <4>1. runs \in [RunIds -> RunRow]
        BY DEF LoopInv, TypeOK
      <4>2. CASE Coalesce
        BY <4>1, <4>2 DEF Coalesce, Soft, RunRow
      <4> QED
        BY <2>4, <4>2 DEF Soft
    <3>2. UNCHANGED runCount
      BY <2>4 DEF Coalesce
    <3> QED
      BY <1>1, <2>1, <2>2, <3>1, <3>2, SoftStep, SoftIsFinal
  <2> QED
    BY <1>4, <2>3, <2>4 DEF WriteRun
<1> QED
  BY <1>3, <1>4 DEF Enqueuing

LEMMA LoopTypes ==
    ASSUME LoopInv
    PROVE  /\ Loop \in Threads
           /\ runs \in [RunIds -> RunRow]
           /\ jobs \in [JobIds -> JobRow]
           /\ pc \in [Threads -> {"idle", "pending", "write", "advance", "create", "scan",
                                  "check", "start", "record"}]
           /\ todo \in [Threads -> SUBSET Snapshot]
           /\ head \in [Threads -> [id : {0} \cup RunIds, attempt : Nat]]
           /\ hired \in [Threads -> {0} \cup JobIds]
           /\ \A k \in todo[Loop] : k.id \in RunIds
  BY DEF LoopInv, TypeOK, Threads, Snapshot

LEMMA ReadQueueLoop ==
    ASSUME LoopInv, TypeOK', ReadQueue(Loop) PROVE LoopInv' /\ Final
<1> USE LoopTypes
<1>1. UNCHANGED <<runs, runCount, jobs, jobCount, head, hired>> /\ pc[Loop] = "scan"
  BY DEF ReadQueue
<1>2. pc'[Loop] \notin {"start", "record"}
  BY DEF ReadQueue
<1>3. todo'[Loop] = {[id |-> r, attempt |-> runs[r].attempt] :
                       r \in {x \in RunIds : runs[x].state = "queued" /\ ~runs[x].backoff}}
  BY DEF ReadQueue
<1>4. Held'
  BY <1>1, <1>3 DEF Held, LoopInv, RowJob
<1>5. Unborn' /\ OneRunning' /\ EventsOfTheEnded' /\ (\A r \in RunIds : RowJob(r)')
  BY <1>1 DEF LoopInv, Unborn, OneRunning, EventsOfTheEnded, RowJob
<1>6. Alone' /\ Unrecorded'
  BY <1>1, <1>2 DEF LoopInv, Alone, Unrecorded
<1>7. \A j \in JobIds : Tracked(j)'
  BY <1>1 DEF LoopInv, Tracked
<1>8. Final
  BY <1>1 DEF Final
<1> QED
  BY <1>4, <1>5, <1>6, <1>7, <1>8 DEF LoopInv

\* The loop drops the run it is at: it held it, so it may cancel or fail it.
LEMMA ContinueLoop ==
    ASSUME LoopInv, TypeOK', NEW h \in todo[Loop], Continue(Loop, h),
           pc[Loop] # "record",
           UNCHANGED <<runCount, jobs, jobCount, hired>>,
           NEW state \in {"cancelled", "failed"},
           UNCHANGED runs \/ runs' = [runs EXCEPT ![h.id].state = state]
    PROVE  LoopInv' /\ Final
<1> USE LoopTypes
<1>1. todo'[Loop] = todo[Loop] \ {h} /\ pc'[Loop] \in {"idle", "check"}
  BY DEF Continue
<1>2. h.id \in RunIds /\ runs[h.id].state \in {"queued", "cancelled"} /\ runs[h.id].job = 0
  BY DEF LoopInv, Held
<1>3. \A r \in RunIds : /\ runs'[r].job = runs[r].job /\ runs'[r].sched = runs[r].sched
                        /\ r # h.id => runs'[r].state = runs[r].state
                        /\ runs'[h.id].state \in {"queued", "cancelled", "failed"}
                        /\ runs[h.id].job = 0 /\ runs'[h.id].state = "queued"
                              => runs[h.id].state = "queued"
  BY <1>2 DEF RunRow
<1>4. Held'
  <2>1. \A k \in todo'[Loop] : k \in todo[Loop] /\ k.id # h.id
    BY <1>1 DEF LoopInv, Held
  <2> QED
    BY <1>3, <2>1 DEF LoopInv, Held
<1>5. Unborn'
  BY <1>2, <1>3 DEF LoopInv, Unborn
<1>6. OneRunning'
  BY <1>2, <1>3 DEF LoopInv, OneRunning
<1>7. \A r \in RunIds : RowJob(r)'
  <2> SUFFICES ASSUME NEW r \in RunIds PROVE RowJob(r)'
    OBVIOUS
  <2>1. RowJob(r) /\ runs'[r].job = runs[r].job
    BY <1>3 DEF LoopInv
  <2>2. CASE r = h.id
    BY <1>2, <1>3, <2>1, <2>2 DEF RowJob
  <2>3. CASE r # h.id
    BY <1>3, <2>1, <2>3 DEF RowJob
  <2> QED
    BY <2>2, <2>3
<1>8. Alone' /\ Unrecorded' /\ EventsOfTheEnded'
  BY <1>1 DEF LoopInv, Alone, Unrecorded, EventsOfTheEnded
<1>9. \A j \in JobIds : Tracked(j)'
  <2>1. hired[Loop] = 0
    BY DEF LoopInv, Unrecorded
  <2> SUFFICES ASSUME NEW j \in JobIds, jobs[j].state \in {"planning", "running"}
               PROVE  /\ jobs[j].run \in RunIds
                      /\ runs'[jobs[j].run].job = j /\ runs'[jobs[j].run].state = "running"
    BY DEF Tracked
  <2>2. /\ jobs[j].run \in RunIds
        /\ runs[jobs[j].run].job = j /\ runs[jobs[j].run].state = "running"
    BY <2>1 DEF LoopInv, Tracked, JobIds
  <2> QED
    BY <1>2, <1>3, <2>2
<1>10. Final
  BY <1>2, <1>3 DEF Final, Finished
<1> QED
  BY <1>4, <1>5, <1>6, <1>7, <1>8, <1>9, <1>10 DEF LoopInv

LEMMA CheckRunLoop ==
    ASSUME LoopInv, TypeOK', CheckRun(Loop) PROVE LoopInv' /\ Final
<1> USE LoopTypes
<1>1. /\ UNCHANGED <<runCount, jobs, jobCount, hired>>
      /\ pc[Loop] = "check"
  BY DEF CheckRun
<1>2. PICK h \in todo[Loop] :
        \/ Executing(h.id) /\ Continue(Loop, h) /\ UNCHANGED runs
        \/ /\ runs' = [runs EXCEPT ![h.id].state = "cancelled"]
           /\ Continue(Loop, h)
        \/ /\ ~Executing(h.id)
           /\ head' = [head EXCEPT ![Loop] = h]
           /\ pc' = [pc EXCEPT ![Loop] = "start"]
           /\ UNCHANGED <<runs, todo>>
  BY DEF CheckRun
<1>3. CASE Continue(Loop, h) /\ (UNCHANGED runs
                                 \/ runs' = [runs EXCEPT ![h.id].state = "cancelled"])
  BY <1>1, <1>3, ContinueLoop
<1>4. CASE /\ ~Executing(h.id)
           /\ head' = [head EXCEPT ![Loop] = h]
           /\ pc' = [pc EXCEPT ![Loop] = "start"]
           /\ UNCHANGED <<runs, todo>>
  <2>1. h.id \in RunIds /\ runs[h.id].state # "running"
    BY DEF LoopInv, Held
  <2>2. \A r \in RunIds : runs[r].state = "running" => runs[r].sched # runs[h.id].sched
    BY <1>4, <2>1 DEF Executing, Rows
  <2>3. head'[Loop] = h /\ pc'[Loop] = "start"
    BY <1>4
  <2>4. Alone'
    BY <1>4, <2>2, <2>3 DEF Alone
  <2>5. Unborn' /\ Held' /\ OneRunning' /\ EventsOfTheEnded' /\ (\A r \in RunIds : RowJob(r)')
    BY <1>1, <1>4 DEF LoopInv, Unborn, Held, OneRunning, EventsOfTheEnded, RowJob
  <2>6. hired[Loop] = 0
    BY <1>1 DEF LoopInv, Unrecorded
  <2>7. Unrecorded' /\ (\A j \in JobIds : Tracked(j)')
    BY <1>1, <1>4, <2>3, <2>6 DEF LoopInv, Unrecorded, Tracked, JobIds
  <2> QED
    BY <1>4, <2>4, <2>5, <2>7 DEF LoopInv, Final
<1> QED
  BY <1>2, <1>3, <1>4

LEMMA StartJobLoop ==
    ASSUME LoopInv, TypeOK', StartJob(Loop) PROVE LoopInv' /\ Final
<1> USE LoopTypes
<1> DEFINE n == jobCount + 1
<1>1. n \in JobIds /\ jobs[n].state = "absent" /\ n # 0
  <2>1. jobCount \in 0..MaxJobs /\ MaxJobs \in Nat
    BY BoundsAreNaturals DEF LoopInv, TypeOK
  <2>2. n \in JobIds /\ n > jobCount /\ n # 0
    BY <2>1 DEF StartJob, JobIds
  <2> QED
    BY <2>2 DEF LoopInv, Unborn
<1>2. /\ jobs'[n] = [run |-> head[Loop].id, state |-> "planning", events |-> {}]
      /\ \A j \in JobIds \ {n} : jobs'[j] = jobs[j]
      /\ jobCount' = n
  BY <1>1 DEF StartJob
<1>3. /\ UNCHANGED <<runs, runCount, todo, head>>
      /\ pc[Loop] = "start" /\ pc'[Loop] = "record" /\ hired'[Loop] = n
  BY DEF StartJob
<1>4. head[Loop] \in todo[Loop] /\ head[Loop].id \in RunIds
  BY <1>3 DEF LoopInv, Alone
<1>5. \A r \in RunIds : runs[r].job # 0 => runs[r].job # n /\ runs[r].job \in JobIds
  BY <1>1 DEF LoopInv, RowJob, RunRow
<1>6. Unborn'
  <2>1. jobCount \in Nat
    BY BoundsAreNaturals DEF LoopInv, TypeOK
  <2>2. ASSUME NEW j \in JobIds, j > n PROVE jobs'[j].state = "absent"
    <3>1. j > jobCount /\ j # n
      BY <2>1, <2>2 DEF JobIds
    <3>2. jobs[j].state = "absent"
      BY <3>1 DEF LoopInv, Unborn
    <3> QED
      BY <1>2, <3>1, <3>2
  <2>3. UNCHANGED <<runs, runCount>>
    BY <1>3
  <2> QED
    BY <1>2, <2>2, <2>3 DEF LoopInv, Unborn
<1> HIDE DEF n
<1>7. Held' /\ OneRunning'
  BY <1>3 DEF LoopInv, Held, OneRunning
<1>8. Alone'
  BY <1>3 DEF LoopInv, Alone
<1>9. Unrecorded'
  BY <1>1, <1>2, <1>3, <1>5 DEF Unrecorded
<1>10. EventsOfTheEnded'
  BY <1>2 DEF LoopInv, EventsOfTheEnded, OneEnding
<1>11. \A r \in RunIds : RowJob(r)'
  BY <1>2, <1>3, <1>5 DEF LoopInv, RowJob
<1>12. \A j \in JobIds : Tracked(j)'
  <2> SUFFICES ASSUME NEW j \in JobIds, jobs'[j].state \in {"planning", "running"}
               PROVE  /\ jobs'[j].run \in RunIds
                      /\ \/ runs[jobs'[j].run].job = j /\ runs[jobs'[j].run].state = "running"
                         \/ hired'[Loop] = j /\ head[Loop].id = jobs'[j].run
    BY <1>3 DEF Tracked
  <2>1. CASE j = n
    BY <1>2, <1>3, <1>4, <2>1
  <2>2. CASE j # n
    <3>1. hired[Loop] = 0 /\ j # 0 /\ jobs'[j] = jobs[j]
      BY <1>2, <1>3, <2>2 DEF LoopInv, Unrecorded, JobIds
    <3> QED
      BY <3>1 DEF LoopInv, Tracked
  <2> QED
    BY <2>1, <2>2
<1>13. Final
  BY <1>3 DEF Final
<1> QED
  BY <1>6, <1>7, <1>8, <1>9, <1>10, <1>11, <1>12, <1>13 DEF LoopInv

LEMMA RecordStartLoop ==
    ASSUME LoopInv, TypeOK', RecordStart(Loop) PROVE LoopInv' /\ Final
<1> USE LoopTypes
<1> DEFINE h == head[Loop]
           n == hired[Loop]
<1>1. /\ pc[Loop] = "record" /\ UNCHANGED <<runCount, jobs, jobCount>>
      /\ hired'[Loop] = 0 /\ pc'[Loop] \in {"idle", "check"}
      /\ todo'[Loop] = todo[Loop] \ {h}
  BY DEF RecordStart, Continue
<1>2. /\ h \in todo[Loop] /\ h.id \in RunIds
      /\ runs[h.id].state \in {"queued", "cancelled"} /\ runs[h.id].job = 0
      /\ \A k \in todo[Loop] : k.id = h.id => k = h
      /\ \A r \in RunIds : runs[r].state = "running" => runs[r].sched # runs[h.id].sched
  BY <1>1 DEF LoopInv, Alone, Held
<1>3. /\ n # 0 /\ jobs[n].state # "absent" /\ jobs[n].run = h.id
      /\ \A r \in RunIds : runs[r].job # n
  BY <1>1 DEF LoopInv, Unrecorded
<1>4. /\ runs'[h.id].state = "running" /\ runs'[h.id].job = n
      /\ runs'[h.id].sched = runs[h.id].sched
      /\ \A r \in RunIds : r # h.id => runs'[r] = runs[r]
  BY <1>2 DEF RecordStart, RunRow
<1> HIDE DEF h, n
<1>5. Unborn'
  BY <1>1, <1>2, <1>4 DEF LoopInv, Unborn
<1>6. Held'
  BY <1>1, <1>2, <1>4 DEF LoopInv, Held
<1>7. Alone' /\ Unrecorded' /\ EventsOfTheEnded'
  BY <1>1 DEF LoopInv, Alone, Unrecorded, EventsOfTheEnded
<1>8. OneRunning'
  BY <1>2, <1>4 DEF LoopInv, OneRunning
<1>9. \A r \in RunIds : RowJob(r)'
  <2> SUFFICES ASSUME NEW r \in RunIds PROVE RowJob(r)'
    OBVIOUS
  <2>1. CASE r = h.id
    BY <1>1, <1>3, <1>4, <2>1 DEF RowJob, Finished
  <2>2. CASE r # h.id
    <3>1. RowJob(r) /\ runs'[r] = runs[r]
      BY <1>4, <2>2 DEF LoopInv
    <3> QED
      BY <1>1, <3>1 DEF RowJob
  <2> QED
    BY <2>1, <2>2
<1>10. \A j \in JobIds : Tracked(j)'
  <2> SUFFICES ASSUME NEW j \in JobIds, jobs[j].state \in {"planning", "running"}
               PROVE  /\ jobs[j].run \in RunIds
                      /\ runs'[jobs[j].run].job = j /\ runs'[jobs[j].run].state = "running"
    BY <1>1 DEF Tracked
  <2>1. CASE n = j
    BY <1>2, <1>3, <1>4, <2>1
  <2>2. CASE n # j
    BY <1>2, <1>4, <2>2 DEF LoopInv, Tracked, n
  <2> QED
    BY <2>1, <2>2
<1>11. Final
  BY <1>2, <1>4 DEF Final, Finished
<1> QED
  BY <1>5, <1>6, <1>7, <1>8, <1>9, <1>10, <1>11 DEF LoopInv

LEMMA DispatchingLoop ==
    ASSUME LoopInv, Dispatching(Loop) PROVE LoopInv' /\ Final
<1> USE LoopTypes
<1>1. TypeOK'
  BY DispatchingType DEF LoopInv
<1>2. CASE AtCapacity(Loop) \/ RefusedJob(Loop)
  <2>1. /\ UNCHANGED <<runCount, jobs, jobCount, hired>> /\ pc[Loop] = "start"
        /\ Continue(Loop, head[Loop])
        /\ \/ UNCHANGED runs
           \/ runs' = [runs EXCEPT ![head[Loop].id].state = "failed"]
    BY <1>2 DEF AtCapacity, RefusedJob
  <2>2. head[Loop] \in todo[Loop]
    BY <2>1 DEF LoopInv, Alone
  <2> QED
    BY <1>1, <2>1, <2>2, ContinueLoop
<1> QED
  BY <1>1, <1>2, ReadQueueLoop, CheckRunLoop, StartJobLoop, RecordStartLoop
     DEF Dispatching, Starting

LEMMA BeginsOrEndsLoop ==
    ASSUME LoopInv, TypeOK', NEW i \in JobIds, jobs[i].state \in {"planning", "running"},
           NEW state \in {"running", "ended"}, NEW events,
           jobs' = [jobs EXCEPT ![i] = [@ EXCEPT !.state = state, !.events = events]],
           events # {} => state = "ended", OneEnding(events),
           UNCHANGED <<runs, runCount, jobCount, pc, todo, head, hired>>
    PROVE  LoopInv' /\ Final
<1> USE LoopTypes
<1>1. /\ jobs'[i].run = jobs[i].run /\ jobs'[i].state = state /\ jobs'[i].events = events
      /\ \A j \in JobIds : j # i => jobs'[j] = jobs[j]
  BY DEF JobRow
<1>2. \A r \in RunIds : runs[r].job = i => runs[r].state = "running"
  <2> SUFFICES ASSUME NEW r \in RunIds, runs[r].job = i PROVE runs[r].state = "running"
    OBVIOUS
  <2>1. RowJob(r) /\ i # 0
    BY DEF LoopInv, JobIds
  <2> QED
    BY <2>1 DEF RowJob
<1>3. Held' /\ Alone' /\ OneRunning'
  BY DEF LoopInv, Held, Alone, OneRunning
<1>4. Unborn'
  BY <1>1 DEF LoopInv, Unborn
<1>5. Unrecorded'
  BY <1>1 DEF LoopInv, Unrecorded
<1>6. EventsOfTheEnded'
  BY <1>1 DEF LoopInv, EventsOfTheEnded
<1>7. \A r \in RunIds : RowJob(r)'
  <2> SUFFICES ASSUME NEW r \in RunIds PROVE RowJob(r)'
    OBVIOUS
  <2>1. runs[r].job # 0 => runs[r].job \in JobIds
    BY DEF RunRow
  <2> QED
    BY <1>1, <1>2, <2>1 DEF LoopInv, RowJob, Finished
<1>8. \A j \in JobIds : Tracked(j)'
  BY <1>1 DEF LoopInv, Tracked
<1>9. Final
  BY DEF Final
<1> QED
  BY <1>3, <1>4, <1>5, <1>6, <1>7, <1>8, <1>9 DEF LoopInv

\* An announced end settles the row of the job, if it still has one, and no other.
LEMMA JobTerminalLoop ==
    ASSUME LoopInv, TypeOK', NEW i \in JobIds, NEW event \in jobs[i].events,
           JobTerminal(i, event)
    PROVE  LoopInv' /\ Final
<1> USE LoopTypes
<1>1. UNCHANGED <<runCount, jobCount, pc, todo, head, hired>>
  BY DEF JobTerminal, dispatchVars
<1>2. jobs[i].state = "ended" /\ i # 0
  BY DEF LoopInv, EventsOfTheEnded, JobIds
<1>3. /\ jobs'[i].run = jobs[i].run /\ jobs'[i].state = "ended"
      /\ jobs'[i].events = jobs[i].events \ {event}
      /\ \A j \in JobIds : j # i => jobs'[j] = jobs[j]
  BY <1>2 DEF JobTerminal, JobRow
<1>4. \A r \in RunIds : runs[r].job = i => runs[r].state \notin {"absent", "queued"}
  BY <1>2 DEF LoopInv, RowJob
<1>5. \A r \in RunIds : runs[r].job # i => runs'[r] = runs[r]
  BY DEF JobTerminal
<1>6. ASSUME NEW r \in RunIds, runs[r].job = i
      PROVE  /\ runs'[r].sched = runs[r].sched
             /\ \/ /\ runs'[r].state = "queued" /\ runs'[r].job = 0
                   /\ event = "transient"
                \/ /\ runs'[r].state \in {"completed", "cancelled", "failed"}
                   /\ runs'[r].job = i
                   /\ event = "cancelled" => runs'[r].state = "cancelled"
  <2>1. runs'[r] = Settled(r, event)
    BY <1>6 DEF JobTerminal
  <2> QED
    BY <1>6, <2>1 DEF Settled, Retryable, Outcome, RunRow
<1>7. Unborn' /\ EventsOfTheEnded'
  <2>1. \A r \in RunIds : runs[r].state = "absent" => runs'[r] = runs[r]
    BY <1>4, <1>5
  <2>2. \A j \in JobIds : jobs[j].state = "absent" => jobs'[j] = jobs[j]
    BY <1>2, <1>3
  <2>3. Unborn'
    BY <1>1, <2>1, <2>2 DEF LoopInv, Unborn
  <2>4. EventsOfTheEnded'
    BY <1>2, <1>3 DEF LoopInv, EventsOfTheEnded, OneEnding
  <2> QED
    BY <2>3, <2>4
<1>8. Held'
  BY <1>1, <1>2, <1>5 DEF LoopInv, Held
<1>9. \A r \in RunIds : /\ runs'[r].sched = runs[r].sched
                        /\ runs'[r].state = "running" => runs'[r] = runs[r]
  BY <1>5, <1>6
<1>10. Alone' /\ OneRunning'
  BY <1>1, <1>9 DEF LoopInv, Alone, OneRunning, Held
<1>11. Unrecorded'
  BY <1>1, <1>3, <1>5, <1>6 DEF LoopInv, Unrecorded
<1>12. \A r \in RunIds : RowJob(r)'
  <2> SUFFICES ASSUME NEW r \in RunIds PROVE RowJob(r)'
    OBVIOUS
  <2>1. CASE runs[r].job = i
    <3>1. event # "cancelled" => jobs'[i].events \subseteq {"cancelled"}
      BY <1>3 DEF LoopInv, EventsOfTheEnded, OneEnding
    <3>2. jobs[i].run = r /\ jobs[i].state # "absent"
      BY <1>2, <2>1 DEF LoopInv, RowJob
    <3> QED
      BY <1>2, <1>3, <1>6, <2>1, <3>1, <3>2 DEF RowJob, Finished
  <2>2. CASE runs[r].job # i
    <3>1. runs[r].job # 0 => runs[r].job \in JobIds
      BY DEF RunRow
    <3> QED
      BY <1>3, <1>5, <2>2, <3>1 DEF LoopInv, RowJob
  <2> QED
    BY <2>1, <2>2
<1>13. \A j \in JobIds : Tracked(j)'
  BY <1>1, <1>3, <1>5 DEF LoopInv, Tracked
<1>14. Final
  <2> SUFFICES ASSUME NEW r \in RunIds, runs[r].state \in Finished
               PROVE  runs'[r].state \in Finished \cup {"cancelled"}
    BY DEF Final
  <2>1. CASE runs[r].job = i
    <3>1. event = "cancelled"
      BY <1>2, <2>1 DEF LoopInv, RowJob
    <3> QED
      BY <1>6, <2>1, <3>1
  <2>2. CASE runs[r].job # i
    BY <1>5, <2>2
  <2> QED
    BY <2>1, <2>2
<1> QED
  BY <1>7, <1>8, <1>10, <1>11, <1>12, <1>13, <1>14 DEF LoopInv

LEMMA WorkingLoop ==
    ASSUME LoopInv, NEW j \in JobIds, Working(j) PROVE LoopInv' /\ Final
<1> USE LoopTypes DEF dispatchVars
<1>1. TypeOK'
  BY WorkingType DEF LoopInv
<1>2. CASE JobBegins(j)
  <2>1. jobs[j].events = {}
    BY <1>2 DEF JobBegins, LoopInv, EventsOfTheEnded
  <2>2. jobs' = [jobs EXCEPT ![j] = [@ EXCEPT !.state = "running", !.events = {}]]
    BY <1>2, <2>1 DEF JobBegins, JobRow
  <2> QED
    <3>1. jobs[j].state = "planning"
          /\ UNCHANGED <<runs, runCount, jobCount, pc, todo, head, hired>>
      BY <1>2 DEF JobBegins
    <3>2. /\ ({} # {} => "running" = "ended") /\ OneEnding({})
          /\ "running" \in {"running", "ended"} /\ jobs[j].state \in {"planning", "running"}
      BY <3>1 DEF OneEnding
    <3> QED
      BY <1>1, <2>2, <3>1, <3>2, BeginsOrEndsLoop
<1>3. ASSUME NEW event \in Endings, NEW events \in {{event}, {event, "cancelled"}},
             JobEnds(j, events)
      PROVE  LoopInv' /\ Final
  <2>1. OneEnding(events)
    BY <1>3 DEF OneEnding
  <2>2. jobs[j].state \in {"planning", "running"}
    BY <1>3 DEF JobEnds
  <2>3. /\ jobs' = [jobs EXCEPT ![j] = [@ EXCEPT !.state = "ended", !.events = events]]
        /\ UNCHANGED <<runs, runCount, jobCount, pc, todo, head, hired>>
    BY <1>3 DEF JobEnds
  <2> QED
    <3>1. (events # {} => "ended" = "ended") /\ "ended" \in {"running", "ended"}
      OBVIOUS
    <3> QED
      BY <1>1, <2>1, <2>2, <2>3, <3>1, BeginsOrEndsLoop
<1>4. ASSUME NEW event \in jobs[j].events, JobTerminal(j, event) PROVE LoopInv' /\ Final
  BY <1>1, <1>4, JobTerminalLoop
<1> QED
  BY <1>2, <1>3, <1>4 DEF Working

LEMMA RestartLoop == ASSUME LoopInv, Restart PROVE LoopInv' /\ Final
<1> USE LoopTypes
<1>1. TypeOK'
  BY RestartType DEF LoopInv
<1>2. /\ UNCHANGED <<runCount, jobCount>> /\ pc'[Loop] = "idle" /\ todo'[Loop] = {}
      /\ hired'[Loop] = 0
  BY DEF Restart
<1>3. \A j \in JobIds : \/ jobs[j].state = "absent" /\ jobs'[j] = jobs[j]
                        \/ /\ jobs[j].state # "absent" /\ jobs'[j].run = jobs[j].run
                           /\ jobs'[j].state = "ended" /\ jobs'[j].events = {}
  BY DEF Restart, Abandoned, JobRow
<1>4. \A r \in RunIds : \/ runs[r].state # "running" /\ runs'[r] = runs[r]
                        \/ /\ runs[r].state = "running"
                           /\ \/ runs'[r].state = "queued" /\ runs'[r].job = 0
                              \/ runs'[r].state = "interrupted" /\ runs'[r].job = runs[r].job
  BY DEF Restart, Recovered, RunRow
<1>5. Unborn' /\ EventsOfTheEnded'
  BY <1>2, <1>3, <1>4 DEF LoopInv, Unborn, EventsOfTheEnded, OneEnding
<1>6. Held' /\ Alone' /\ Unrecorded'
  BY <1>2 DEF Held, Alone, Unrecorded
<1>7. OneRunning'
  BY <1>4 DEF OneRunning
<1>8. \A r \in RunIds : RowJob(r)'
  <2> SUFFICES ASSUME NEW r \in RunIds PROVE RowJob(r)'
    OBVIOUS
  <2>1. runs[r].job # 0 => runs[r].job \in JobIds
    BY DEF RunRow
  <2> QED
    BY <1>3, <1>4, <2>1 DEF LoopInv, RowJob
<1>9. \A j \in JobIds : Tracked(j)'
  BY <1>3 DEF Tracked
<1>10. Final
  BY <1>4 DEF Final, Finished
<1> QED
  BY <1>1, <1>5, <1>6, <1>7, <1>8, <1>9, <1>10 DEF LoopInv

LEMMA InitLoop == Init => LoopInv
<1> SUFFICES ASSUME Init PROVE LoopInv
  OBVIOUS
<1>1. TypeOK
  BY InitType
<1>2. /\ \A r \in RunIds : runs[r].state = "absent" /\ runs[r].job = 0
      /\ \A j \in JobIds : jobs[j].state = "absent" /\ jobs[j].events = {}
      /\ pc[Loop] = "idle" /\ todo[Loop] = {} /\ hired[Loop] = 0
  BY DEF Init, NoRun, NoJob, Threads
<1> QED
  BY <1>1, <1>2 DEF LoopInv, Unborn, OneEnding, RowJob, Held, Alone, Unrecorded, Tracked, OneRunning,
                    EventsOfTheEnded

\* No step of a scheduler without run_now breaks the invariant or takes up a
\* finished row.
LEMMA NextLoop ==
    ASSUME Callers = {}, LoopInv, [Next]_vars PROVE LoopInv' /\ Final
<1>1. Threads = {Loop}
  BY DEF Threads
<1>2. CASE UNCHANGED vars
  <2>1. Final
    BY <1>2 DEF vars, Final
  <2>2. LoopInv'
    <3>1. TypeOK'
      BY <1>2 DEF vars, LoopInv, TypeOK, Live
    <3>2. (\A r \in RunIds : RowJob(r)') /\ (\A j \in JobIds : Tracked(j)')
      BY <1>2 DEF vars, LoopInv, RowJob, Tracked
    <3>3. Unborn' /\ Held' /\ Alone' /\ Unrecorded' /\ OneRunning' /\ EventsOfTheEnded'
      BY <1>2 DEF vars, LoopInv, Unborn, Held, Alone, Unrecorded, OneRunning, EventsOfTheEnded
    <3> QED
      BY <3>1, <3>2, <3>3 DEF LoopInv
  <2> QED
    BY <2>1, <2>2
<1>3. CASE Next
  BY <1>1, <1>3, TickLoop, OwnerLoop, EnqueuingLoop, DispatchingLoop, WorkingLoop, BackoffLoop,
     RestartLoop DEF Next
<1> QED
  BY <1>2, <1>3

\* The ownership invariant holds in every state of a scheduler whose only
\* dispatcher is its loop.
THEOREM LoopInvariant == ASSUME Callers = {} PROVE Spec => []LoopInv
<1>1. Init => LoopInv
  BY InitLoop
<1>2. LoopInv /\ [Next]_vars => LoopInv'
  BY NextLoop
<1> QED
  BY <1>1, <1>2, PTL DEF Spec

\* Two live jobs of one schedule are one: both running, or one running and one
\* not recorded, is what Alone and OneRunning exclude.
LEMMA LoopInvNoOverlap == LoopInv => NoOverlap
<1> SUFFICES ASSUME LoopInv, NEW s \in Schedules, NEW j \in LiveJobsOf(s),
                    NEW k \in LiveJobsOf(s)
             PROVE  j = k
  BY DEF NoOverlap
<1> USE LoopTypes
<1>1. /\ j \in JobIds /\ jobs[j].state \in {"planning", "running"} /\ Tracked(j)
      /\ k \in JobIds /\ jobs[k].state \in {"planning", "running"} /\ Tracked(k)
      /\ runs[jobs[j].run].sched = s /\ runs[jobs[k].run].sched = s
  BY DEF LiveJobsOf, LiveJobs, LoopInv
<1>2. \A i \in {j, k} : hired[Loop] = i => pc[Loop] = "record"
  BY <1>1 DEF LoopInv, Unrecorded, JobIds
<1> QED
  BY <1>1, <1>2 DEF Tracked, LoopInv, OneRunning, Alone

\* "Runs never overlap for one schedule", as far as the loop alone is concerned:
\* through edits, retries, coalescing and restarts, _dispatch_queued never has
\* two jobs of a schedule alive.
THEOREM LoopNeverOverlaps == ASSUME Callers = {} PROVE Spec => []NoOverlap
  BY LoopInvariant, LoopInvNoOverlap, PTL

\* Every live scheduled job has a row that leads to it, so that its end can be
\* settled: none is orphaned.
THEOREM LoopTracksItsJobs == ASSUME Callers = {} PROVE Spec => []LiveJobIsTracked
<1>1. LoopInv => LiveJobIsTracked
  BY DEF LoopInv, Tracked, LiveJobIsTracked, LiveJobs, Threads
<1> QED
  BY <1>1, LoopInvariant, PTL

\* A completed, failed or interrupted occurrence is never taken up again.
THEOREM LoopFinishesOnce == ASSUME Callers = {} PROVE Spec => FinishedIsFinal
<1>1. LoopInv /\ [Next]_vars =>
        [\A r \in RunIds : runs[r].state \in Finished =>
                              runs'[r].state \in Finished \cup {"cancelled"}]_vars
  BY NextLoop DEF Final
<1> QED
  BY <1>1, LoopInvariant, PTL DEF Spec, FinishedIsFinal

-----------------------------------------------------------------------------
(* The retry budget, with any number of calling threads.                   *)

\* A queued row has an attempt left, and so has every snapshot of one.
AttemptInv ==
    /\ TypeOK
    /\ \A r \in RunIds : /\ runs[r].attempt <= MaxRetries + 1 + crashes
                         /\ runs[r].state = "queued" => runs[r].attempt <= MaxRetries + crashes
    /\ \A t \in Threads : /\ \A k \in todo[t] : k.attempt <= MaxRetries + crashes
                          /\ head[t].attempt <= MaxRetries + crashes

\* What a step other than a restart may do to the attempts of a row.
AttemptKept(r) ==
    \/ runs'[r].attempt = runs[r].attempt /\ (runs'[r].state = "queued" => runs[r].state = "queued")
    \/ runs'[r].attempt <= MaxRetries + crashes
    \/ runs'[r].attempt <= MaxRetries + 1 + crashes /\ runs'[r].state # "queued"

\* And to the snapshots of the queue.
SnapshotsKept ==
    \A t \in Threads :
        /\ \A k \in todo'[t] : \/ k \in todo[t]
                               \/ \E r \in RunIds : /\ runs[r].state = "queued"
                                                    /\ k.attempt = runs[r].attempt
        /\ head'[t] \in {head[t], NoSnapshot} \cup todo[t]

LEMMA CountsAreNaturals ==
    ASSUME TypeOK
    PROVE  /\ crashes \in Nat /\ MaxRetries \in Nat /\ runs \in [RunIds -> RunRow]
           /\ \A r \in RunIds : runs[r].attempt \in Nat
  BY BoundsAreNaturals, RetriesClamped DEF TypeOK, RunRow

LEMMA AttemptStep ==
    ASSUME AttemptInv, TypeOK', UNCHANGED crashes, SnapshotsKept,
           \A r \in RunIds : AttemptKept(r)
    PROVE  AttemptInv'
<1> USE CountsAreNaturals DEF AttemptInv
<1>1. ASSUME NEW r \in RunIds
      PROVE  /\ runs'[r].attempt <= MaxRetries + 1 + crashes
             /\ runs'[r].state = "queued" => runs'[r].attempt <= MaxRetries + crashes
  <2>1. runs'[r].attempt \in Nat
    BY DEF TypeOK, RunRow
  <2> QED
    BY <2>1 DEF AttemptKept
<1>2. ASSUME NEW t \in Threads
      PROVE  /\ \A k \in todo'[t] : k.attempt <= MaxRetries + crashes
             /\ head'[t].attempt <= MaxRetries + crashes
  BY DEF SnapshotsKept, NoSnapshot
<1> QED
  BY <1>1, <1>2

LEMMA RowsAlone ==
    ASSUME UNCHANGED runs PROVE \A r \in RunIds : AttemptKept(r)
  BY DEF AttemptKept

LEMMA QueueAlone == ASSUME UNCHANGED <<todo, head>> PROVE SnapshotsKept
  BY DEF SnapshotsKept

LEMMA NewRowAttempts ==
    ASSUME TypeOK, NEW row, row.attempt = 0, runs' = [runs EXCEPT ![runCount + 1] = row],
           runCount < MaxRuns
    PROVE  \A r \in RunIds : AttemptKept(r)
<1> USE CountsAreNaturals
<1>1. ASSUME NEW r \in RunIds
      PROVE  runs'[r] = runs[r] \/ runs'[r] = row
  OBVIOUS
<1>2. 0 <= MaxRetries + crashes
  OBVIOUS
<1> QED
  BY <1>1, <1>2 DEF AttemptKept

\* A row is left alone or cancelled.
LEMMA CancelledAttempts ==
    ASSUME TypeOK,
           \A r \in RunIds : runs'[r] = runs[r] \/ runs'[r] = [runs[r] EXCEPT !.state = "cancelled"]
    PROVE  \A r \in RunIds : AttemptKept(r)
<1> SUFFICES ASSUME NEW r \in RunIds PROVE AttemptKept(r)
  OBVIOUS
<1>1. runs[r] \in RunRow
  BY CountsAreNaturals
<1>2. [runs[r] EXCEPT !.state = "cancelled"].attempt = runs[r].attempt
  BY <1>1 DEF RunRow
<1>3. [runs[r] EXCEPT !.state = "cancelled"].state = "cancelled"
  BY <1>1 DEF RunRow
<1> QED
  BY <1>2, <1>3 DEF AttemptKept

LEMMA OwnerAttempts == ASSUME AttemptInv, Owner PROVE AttemptInv'
<1>1. TypeOK' /\ TypeOK
  BY OwnerType DEF AttemptInv
<1>2. ASSUME NEW s \in Schedules, NEW row, Revise(s, row) PROVE \A r \in RunIds : AttemptKept(r)
  BY <1>1, <1>2, CancelledAttempts DEF Revise
<1>3. ASSUME NEW s \in Schedules, Delete(s) PROVE \A r \in RunIds : AttemptKept(r)
  BY <1>1, <1>3, CancelledAttempts DEF Delete
<1>4. \A r \in RunIds : AttemptKept(r)
  BY <1>2, <1>3, RowsAlone DEF Owner, Create, Edit, Pause, Resume
<1>5. UNCHANGED <<todo, head, crashes>>
  BY DEF Owner, Create, Edit, Pause, Resume, Delete, Revise, dispatchVars, counters
<1> QED
  BY <1>1, <1>4, <1>5, QueueAlone, AttemptStep

LEMMA EnqueuingAttempts == ASSUME AttemptInv, Enqueuing PROVE AttemptInv'
<1> USE CountsAreNaturals
<1>1. TypeOK' /\ TypeOK
  BY EnqueuingType DEF AttemptInv
<1>2. UNCHANGED <<todo, head, crashes>>
  BY DEF Enqueuing, ReadDue, ReadPending, WriteRun, AdvanceSchedule, dispatchVars, counters
<1>3. CASE UNCHANGED runs
  BY <1>1, <1>2, <1>3, RowsAlone, QueueAlone, AttemptStep
<1>4. CASE Coalesce
  <2>1. \A r \in RunIds : AttemptKept(r)
    BY <1>1, <1>4 DEF Coalesce, AttemptKept, RunRow
  <2> QED
    BY <1>1, <1>2, <2>1, QueueAlone, AttemptStep
<1>5. CASE Enqueue
  <2>1. Occurrence.attempt = 0
    BY DEF Occurrence, NoRun
  <2>2. \A r \in RunIds : AttemptKept(r)
    BY <1>1, <1>5, <2>1, NewRowAttempts DEF Enqueue
  <2> QED
    BY <1>1, <1>2, <2>2, QueueAlone, AttemptStep
<1> QED
  BY <1>3, <1>4, <1>5 DEF Enqueuing, ReadDue, ReadPending, WriteRun, AdvanceSchedule

LEMMA RunNowAttempts == ASSUME AttemptInv, NEW t \in Callers, RunNow(t) PROVE AttemptInv'
<1> USE CountsAreNaturals
<1>1. TypeOK' /\ TypeOK
  BY RunNowType DEF AttemptInv
<1>2. UNCHANGED <<todo, head, crashes>>
  BY DEF RunNow, RunNowCheck, RunNowCreate, dispatchVars, counters
<1>3. \A r \in RunIds : AttemptKept(r)
  <2>1. CASE RunNowCreate(t)
    <3> DEFINE row == [NoRun EXCEPT !.state = "queued", !.sched = wanted[t].id,
                                    !.rev = wanted[t].rev]
    <3>1. row.attempt = 0
      BY DEF NoRun
    <3>2. runs' = [runs EXCEPT ![runCount + 1] = row] /\ runCount < MaxRuns
      BY <2>1 DEF RunNowCreate
    <3> HIDE DEF row
    <3> QED
      BY <1>1, <3>1, <3>2, NewRowAttempts
  <2> QED
    BY <2>1, RowsAlone DEF RunNow, RunNowCheck
<1> QED
  BY <1>1, <1>2, <1>3, QueueAlone, AttemptStep

\* Only the record of a start adds an attempt, to the one the thread read in the queue.
LEMMA DispatchingAttempts ==
    ASSUME AttemptInv, NEW t \in Threads, Dispatching(t) PROVE AttemptInv'
<1> USE CountsAreNaturals
<1>1. TypeOK' /\ TypeOK
  BY DispatchingType DEF AttemptInv
<1>2. UNCHANGED crashes
  BY DEF Dispatching, ReadQueue, Starting, CheckRun, StartJob, AtCapacity, RefusedJob, RecordStart,
         counters
<1>3. /\ todo \in [Threads -> SUBSET Snapshot]
      /\ head \in [Threads -> [id : {0} \cup RunIds, attempt : Nat]]
  BY <1>1 DEF TypeOK
<1>4. ASSUME NEW h, Continue(t, h) PROVE SnapshotsKept
  BY <1>3, <1>4 DEF Continue, SnapshotsKept
<1>5. CASE ReadQueue(t)
  <2>1. SnapshotsKept
    BY <1>3, <1>5 DEF ReadQueue, SnapshotsKept
  <2>2. UNCHANGED runs
    BY <1>5 DEF ReadQueue
  <2> QED
    BY <1>1, <1>2, <2>1, <2>2, RowsAlone, AttemptStep
<1>6. CASE CheckRun(t)
  <2>1. PICK h \in todo[t] :
          /\ runs' = runs \/ runs' = [runs EXCEPT ![h.id].state = "cancelled"]
          /\ Continue(t, h) \/ (head' = [head EXCEPT ![t] = h] /\ UNCHANGED todo)
    BY <1>6 DEF CheckRun
  <2>2. SnapshotsKept
    <3>1. CASE head' = [head EXCEPT ![t] = h] /\ UNCHANGED todo
      BY <1>3, <2>1, <3>1 DEF SnapshotsKept
    <3> QED
      BY <2>1, <3>1, <1>4
  <2>3. \A r \in RunIds : AttemptKept(r)
    BY <1>1, <2>1 DEF AttemptKept, RunRow
  <2> QED
    BY <1>1, <1>2, <2>2, <2>3, AttemptStep
<1>7. CASE StartJob(t) \/ AtCapacity(t)
  <2>1. UNCHANGED runs /\ SnapshotsKept
    BY <1>4, <1>7, QueueAlone DEF StartJob, AtCapacity
  <2> QED
    BY <1>1, <1>2, <2>1, RowsAlone, AttemptStep
<1>8. CASE RefusedJob(t)
  <2>1. SnapshotsKept
    BY <1>4, <1>8 DEF RefusedJob
  <2>2. \A r \in RunIds : AttemptKept(r)
    BY <1>1, <1>8 DEF RefusedJob, AttemptKept, RunRow
  <2> QED
    BY <1>1, <1>2, <2>1, <2>2, AttemptStep
<1>9. CASE RecordStart(t)
  <2>1. SnapshotsKept
    BY <1>4, <1>9 DEF RecordStart
  <2>2. head[t].attempt + 1 <= MaxRetries + 1 + crashes
    BY <1>3 DEF AttemptInv
  <2>3. ASSUME NEW r \in RunIds
        PROVE  \/ runs'[r] = runs[r]
               \/ runs'[r].attempt = head[t].attempt + 1 /\ runs'[r].state = "running"
    BY <1>1, <1>9 DEF RecordStart, RunRow
  <2>4. \A r \in RunIds : AttemptKept(r)
    BY <2>2, <2>3 DEF AttemptKept
  <2> QED
    BY <1>1, <1>2, <2>1, <2>4, AttemptStep
<1> QED
  BY <1>5, <1>6, <1>7, <1>8, <1>9 DEF Dispatching, Starting

LEMMA WorkingAttempts == ASSUME AttemptInv, NEW j \in JobIds, Working(j) PROVE AttemptInv'
<1> USE CountsAreNaturals
<1>1. TypeOK' /\ TypeOK
  BY WorkingType DEF AttemptInv
<1>2. UNCHANGED <<todo, head, crashes>>
  BY DEF Working, JobBegins, JobEnds, JobTerminal, dispatchVars, counters
<1>3. ASSUME NEW event, JobTerminal(j, event) PROVE \A r \in RunIds : AttemptKept(r)
  <2> SUFFICES ASSUME NEW r \in RunIds PROVE AttemptKept(r)
    OBVIOUS
  <2>1. runs'[r] = runs[r] \/ runs'[r] = Settled(r, event)
    BY <1>3 DEF JobTerminal
  <2>2. runs[r] \in RunRow
    BY <1>1
  <2>3. /\ Settled(r, event).attempt = runs[r].attempt
        /\ Settled(r, event).state = "queued" => runs[r].attempt <= MaxRetries
    BY <2>2 DEF Settled, Retryable, Outcome, RunRow
  <2>4. runs[r].attempt <= MaxRetries => runs[r].attempt <= MaxRetries + crashes
    BY <1>1
  <2> QED
    BY <1>1, <2>1, <2>3, <2>4 DEF AttemptInv, AttemptKept
<1>4. \A r \in RunIds : AttemptKept(r)
  BY <1>3, RowsAlone DEF Working, JobBegins, JobEnds
<1> QED
  BY <1>1, <1>2, <1>4, QueueAlone, AttemptStep

LEMMA RestartAttempts == ASSUME AttemptInv, Restart PROVE AttemptInv'
<1>1. TypeOK' /\ TypeOK
  BY RestartType DEF AttemptInv
<1>2. crashes' = crashes + 1
  BY DEF Restart
<1>3. ASSUME NEW r \in RunIds
      PROVE  /\ runs'[r].attempt <= MaxRetries + 1 + crashes'
             /\ runs'[r].state = "queued" => runs'[r].attempt <= MaxRetries + crashes'
  <2>1. /\ runs'[r].attempt = runs[r].attempt
        /\ runs[r].attempt \in Nat /\ runs[r].attempt <= MaxRetries + 1 + crashes
    BY <1>1, CountsAreNaturals DEF Restart, Recovered, RunRow, AttemptInv
  <2>2. crashes \in Nat /\ MaxRetries \in Nat
    BY <1>1, CountsAreNaturals
  <2>3. runs'[r].attempt \in Nat /\ runs'[r].attempt <= MaxRetries + 1 + crashes
    BY <2>1
  <2> QED
    BY <1>2, <2>2, <2>3
<1>4. \A t \in Threads : todo'[t] = {} /\ head'[t].attempt = 0
  BY DEF Restart, NoSnapshot
<1>5. crashes \in Nat /\ MaxRetries \in Nat
  BY <1>1, CountsAreNaturals
<1>6. 0 <= MaxRetries + crashes'
  BY <1>2, <1>5
<1> QED
  BY <1>1, <1>3, <1>4, <1>6 DEF AttemptInv

\* Of one occurrence there are never more attempts than its budget allows, and one for
\* every restart that requeued it: however the loop, the callers of run_now and the
\* ends of its jobs interleave.
THEOREM AttemptsStayBounded == Spec => []AttemptsBounded
<1>1. Init => AttemptInv
  <2> SUFFICES ASSUME Init PROVE AttemptInv
    OBVIOUS
  <2>1. TypeOK
    BY InitType
  <2>2. /\ \A r \in RunIds : runs[r].attempt = 0
        /\ \A t \in Threads : todo[t] = {} /\ head[t].attempt = 0
    BY DEF Init, NoRun, NoSnapshot
  <2> QED
    BY <2>1, <2>2, CountsAreNaturals DEF AttemptInv
<1>2. AttemptInv /\ [Next]_vars => AttemptInv'
  <2> SUFFICES ASSUME AttemptInv, [Next]_vars PROVE AttemptInv'
    OBVIOUS
  <2>1. CASE Tick
    <3>1. TypeOK' /\ UNCHANGED <<runs, todo, head, crashes>>
      BY <2>1, TickType DEF AttemptInv, Tick, dispatchVars, counters
    <3> QED
      BY <3>1, RowsAlone, QueueAlone, AttemptStep
  <2>2. ASSUME NEW r \in RunIds, BackoffElapses(r) PROVE AttemptInv'
    <3>1. TypeOK' /\ UNCHANGED <<todo, head, crashes>> /\ TypeOK
      BY <2>2, BackoffType DEF AttemptInv, BackoffElapses, dispatchVars, counters
    <3>2. \A q \in RunIds : AttemptKept(q)
      BY <2>2, <3>1, CountsAreNaturals DEF BackoffElapses, AttemptKept, RunRow
    <3> QED
      BY <3>1, <3>2, QueueAlone, AttemptStep
  <2>3. CASE UNCHANGED vars
    BY <2>3 DEF AttemptInv, TypeOK, Live, vars
  <2>4. CASE Next
    BY <2>1, <2>2, <2>4, OwnerAttempts, EnqueuingAttempts, RunNowAttempts, DispatchingAttempts,
       WorkingAttempts, RestartAttempts DEF Next
  <2> QED
    BY <2>3, <2>4
<1>3. AttemptInv => AttemptsBounded
  BY DEF AttemptInv, AttemptsBounded
<1> QED
  BY <1>1, <1>2, <1>3, PTL DEF Spec

-----------------------------------------------------------------------------
(* No wedge, when no job outruns the record of its start.                  *)

\* A thread about to record a start holds a job that is alive, and a running row has
\* a job whose end is still to come or to be delivered.
SettleInv ==
    /\ TypeOK
    /\ \A t \in Threads : /\ pc[t] = "record" => hired[t] # 0
                          /\ hired[t] # 0 => jobs[hired[t]].state \in {"planning", "running"}
    /\ \A r \in RunIds : runs[r].state = "running" =>
          /\ runs[r].job # 0
          /\ jobs[runs[r].job].state # "ended" \/ jobs[runs[r].job].events # {}

\* No row starts to run.
NoneStarts ==
    \A r \in RunIds : runs'[r].state = "running" =>
                          runs[r].state = "running" /\ runs'[r].job = runs[r].job

LEMMA NoneStartsStep ==
    ASSUME SettleInv, TypeOK', UNCHANGED <<jobs, hired>>, NoneStarts,
           \A t \in Threads : pc'[t] = "record" => pc[t] = "record"
    PROVE  SettleInv'
  BY DEF SettleInv, NoneStarts

LEMMA OwnerSettles == ASSUME SettleInv, Owner PROVE SettleInv'
<1>1. TypeOK' /\ TypeOK
  BY OwnerType DEF SettleInv
<1>2. NoneStarts
  <2>1. ASSUME NEW s \in Schedules, NEW row, Revise(s, row) PROVE NoneStarts
    BY <1>1, <2>1 DEF TypeOK, Revise, NoneStarts, RunRow
  <2>2. ASSUME NEW s \in Schedules, Delete(s) PROVE NoneStarts
    BY <1>1, <2>2 DEF TypeOK, Delete, NoneStarts, RunRow
  <2>3. ASSUME UNCHANGED runs PROVE NoneStarts
    BY <2>3 DEF NoneStarts
  <2> QED
    BY <2>1, <2>2, <2>3 DEF Owner, Create, Edit, Pause, Resume
<1>3. UNCHANGED <<jobs, hired, pc>>
  BY DEF Owner, Create, Edit, Pause, Resume, Delete, Revise, dispatchVars
<1> QED
  BY <1>1, <1>2, <1>3, NoneStartsStep

LEMMA EnqueuingSettles == ASSUME SettleInv, Enqueuing PROVE SettleInv'
<1>1. TypeOK' /\ TypeOK
  BY EnqueuingType DEF SettleInv
<1>2. NoneStarts
  <2>1. CASE UNCHANGED runs
    BY <2>1 DEF NoneStarts
  <2>2. CASE Coalesce
    BY <1>1, <2>2 DEF TypeOK, Coalesce, NoneStarts, RunRow
  <2>3. CASE Enqueue
    <3>1. Occurrence.state = "queued"
      BY DEF Occurrence, NoRun
    <3>2. \A r \in RunIds : runs'[r] = runs[r] \/ runs'[r] = Occurrence
      BY <1>1, <2>3 DEF Enqueue, TypeOK
    <3> QED
      BY <3>1, <3>2 DEF NoneStarts
  <2> QED
    BY <2>1, <2>2, <2>3 DEF Enqueuing, ReadDue, ReadPending, WriteRun, AdvanceSchedule
<1>3. UNCHANGED <<jobs, hired>>
  BY DEF Enqueuing, ReadDue, ReadPending, WriteRun, AdvanceSchedule, dispatchVars
<1>4. pc \in [Threads -> {"idle", "pending", "write", "advance", "create", "scan", "check",
                          "start", "record"}]
  BY <1>1 DEF TypeOK
<1>5. \A t \in Threads : pc'[t] = "record" => pc[t] = "record"
  BY <1>4 DEF Enqueuing, ReadDue, ReadPending, WriteRun, AdvanceSchedule
<1> QED
  BY <1>1, <1>2, <1>3, <1>5, NoneStartsStep

LEMMA RunNowSettles == ASSUME SettleInv, NEW t \in Callers, RunNow(t) PROVE SettleInv'
<1>1. TypeOK' /\ TypeOK
  BY RunNowType DEF SettleInv
<1>2. NoneStarts
  <2>1. CASE RunNowCreate(t)
    <3> DEFINE row == [NoRun EXCEPT !.state = "queued", !.sched = wanted[t].id,
                                    !.rev = wanted[t].rev]
    <3>1. row.state = "queued"
      BY DEF NoRun
    <3>2. runs' = [runs EXCEPT ![runCount + 1] = row]
      BY <2>1 DEF RunNowCreate
    <3> HIDE DEF row
    <3>3. \A r \in RunIds : runs'[r] = runs[r] \/ runs'[r] = row
      BY <1>1, <3>2 DEF TypeOK
    <3> QED
      BY <3>1, <3>3 DEF NoneStarts
  <2> QED
    BY <2>1 DEF NoneStarts, RunNow, RunNowCheck
<1>3. UNCHANGED <<jobs, hired>>
  BY DEF RunNow, RunNowCheck, RunNowCreate, dispatchVars
<1>4. pc \in [Threads -> {"idle", "pending", "write", "advance", "create", "scan", "check",
                          "start", "record"}]
  BY <1>1 DEF TypeOK
<1>5. \A k \in Threads : pc'[k] = "record" => pc[k] = "record"
  BY <1>4 DEF RunNow, RunNowCheck, RunNowCreate
<1> QED
  BY <1>1, <1>2, <1>3, <1>5, NoneStartsStep

LEMMA DispatchingSettles ==
    ASSUME SettleInv, NEW t \in Threads, Dispatching(t) PROVE SettleInv'
<1>1. TypeOK' /\ TypeOK
  BY DispatchingType DEF SettleInv
<1>2. /\ pc \in [Threads -> {"idle", "pending", "write", "advance", "create", "scan", "check",
                             "start", "record"}]
      /\ runs \in [RunIds -> RunRow] /\ jobs \in [JobIds -> JobRow]
      /\ hired \in [Threads -> {0} \cup JobIds]
      /\ jobCount \in Nat
  BY <1>1, BoundsAreNaturals DEF TypeOK
<1>3. ASSUME UNCHANGED runs PROVE NoneStarts
  BY <1>3 DEF NoneStarts
<1>4. ASSUME NEW h, NEW s \in {"cancelled", "failed"}, runs' = [runs EXCEPT ![h].state = s]
      PROVE  NoneStarts
  BY <1>2, <1>4 DEF NoneStarts, RunRow
<1>5. ASSUME NEW h, Continue(t, h)
      PROVE  \A k \in Threads : pc'[k] = "record" => pc[k] = "record"
  BY <1>2, <1>5 DEF Continue
<1>6. CASE ReadQueue(t)
  <2>1. UNCHANGED <<jobs, hired, runs>>
    BY <1>6 DEF ReadQueue
  <2>2. \A k \in Threads : pc'[k] = "record" => pc[k] = "record"
    BY <1>2, <1>6 DEF ReadQueue
  <2> QED
    BY <1>1, <1>3, <2>1, <2>2, NoneStartsStep
<1>7. CASE CheckRun(t)
  <2>1. PICK h \in todo[t] :
          /\ runs' = runs \/ runs' = [runs EXCEPT ![h.id].state = "cancelled"]
          /\ Continue(t, h) \/ pc' = [pc EXCEPT ![t] = "start"]
    BY <1>7 DEF CheckRun
  <2>2. \A k \in Threads : pc'[k] = "record" => pc[k] = "record"
    BY <1>2, <1>5, <2>1
  <2>3. UNCHANGED <<jobs, hired>>
    BY <1>7 DEF CheckRun
  <2> QED
    BY <1>1, <1>3, <1>4, <2>1, <2>2, <2>3, NoneStartsStep
<1>8. CASE AtCapacity(t) \/ RefusedJob(t)
  <2>1. NoneStarts /\ Continue(t, head[t]) /\ UNCHANGED <<jobs, hired>>
    BY <1>3, <1>4, <1>8 DEF AtCapacity, RefusedJob
  <2> QED
    BY <1>1, <1>5, <2>1, NoneStartsStep
<1>9. CASE StartJob(t)
  <2> DEFINE n == jobCount + 1
             fresh == [run |-> head[t].id, state |-> "planning", events |-> {}]
  <2>1. /\ jobs' = [jobs EXCEPT ![n] = fresh] /\ hired' = [hired EXCEPT ![t] = n]
        /\ pc' = [pc EXCEPT ![t] = "record"] /\ UNCHANGED runs
        /\ n \in JobIds /\ n # 0
    BY <1>2, <1>9, BoundsAreNaturals DEF StartJob, JobIds
  <2>2. fresh.state = "planning"
    OBVIOUS
  <2> HIDE DEF n, fresh
  <2>3. \A j \in JobIds : jobs'[j] = jobs[j] \/ jobs'[j] = fresh
    BY <1>2, <2>1
  <2>4. jobs'[n].state = "planning"
    BY <1>2, <2>1, <2>2
  <2>5. ASSUME NEW k \in Threads
        PROVE  /\ pc'[k] = "record" => hired'[k] # 0
               /\ hired'[k] # 0 => jobs'[hired'[k]].state \in {"planning", "running"}
    <3>1. CASE k = t
      <4>1. hired'[k] = n
        BY <1>2, <2>1, <3>1
      <4> QED
        BY <2>1, <2>4, <4>1
    <3>2. CASE k # t
      <4>1. hired'[k] = hired[k] /\ pc'[k] = pc[k] /\ hired[k] \in {0} \cup JobIds
        BY <1>2, <2>1, <3>2
      <4> QED
        BY <2>2, <2>3, <4>1 DEF SettleInv
    <3> QED
      BY <3>1, <3>2
  <2>6. ASSUME NEW r \in RunIds, runs'[r].state = "running"
        PROVE  /\ runs'[r].job # 0
               /\ jobs'[runs'[r].job].state # "ended" \/ jobs'[runs'[r].job].events # {}
    <3>1. runs[r].job \in JobIds
      BY <1>2, <2>1, <2>6 DEF SettleInv, RunRow
    <3> QED
      BY <2>1, <2>2, <2>3, <2>6, <3>1 DEF SettleInv
  <2> QED
    BY <1>1, <2>5, <2>6 DEF SettleInv
<1>10. CASE RecordStart(t)
  <2>1. /\ hired[t] # 0 /\ jobs[hired[t]].state \in {"planning", "running"}
        /\ UNCHANGED jobs /\ hired' = [hired EXCEPT ![t] = 0] /\ Continue(t, head[t])
    BY <1>10 DEF RecordStart, SettleInv
  <2>2. \A k \in Threads : pc'[k] = "record" => pc[k] = "record" /\ k # t
    BY <1>2, <2>1 DEF Continue
  <2>3. \A k \in Threads : hired'[k] = IF k = t THEN 0 ELSE hired[k]
    BY <1>2, <2>1
  <2>4. \A r \in RunIds : runs'[r] = runs[r] \/ runs'[r].job = hired[t]
    BY <1>2, <1>10 DEF RecordStart, RunRow
  <2> QED
    BY <1>1, <2>1, <2>2, <2>3, <2>4 DEF SettleInv
<1> QED
  BY <1>6, <1>7, <1>8, <1>9, <1>10 DEF Dispatching, Starting

\* A job's end finds no thread that has yet to record its start, and its announcement
\* leaves no row of it running.
LEMMA WorkingSettles ==
    ASSUME FastJobs = FALSE, SettleInv, NEW j \in JobIds, Working(j) PROVE SettleInv'
<1>1. TypeOK' /\ TypeOK
  BY WorkingType DEF SettleInv
<1>2. /\ runs \in [RunIds -> RunRow] /\ jobs \in [JobIds -> JobRow]
      /\ \A r \in RunIds : runs[r].job \in {0} \cup JobIds
      /\ \A t \in Threads : hired[t] \in {0} \cup JobIds
  BY <1>1 DEF TypeOK, RunRow
<1>3. UNCHANGED <<pc, hired>>
  BY DEF Working, JobBegins, JobEnds, JobTerminal, dispatchVars
<1>4. CASE JobBegins(j)
  <2>1. /\ UNCHANGED runs
        /\ \A k \in JobIds : \/ jobs'[k] = jobs[k]
                             \/ jobs'[k].state = "running" /\ jobs[k].state = "planning"
    BY <1>2, <1>4 DEF JobBegins, JobRow
  <2> QED
    BY <1>1, <1>2, <1>3, <2>1 DEF SettleInv
<1>5. ASSUME NEW events, events # {}, JobEnds(j, events) PROVE SettleInv'
  <2>1. /\ UNCHANGED runs
        /\ \A k \in JobIds : jobs'[k] = jobs[k] \/ jobs'[k].events # {}
        /\ \A k \in JobIds : k # j => jobs'[k] = jobs[k]
        /\ \A t \in Threads : hired[t] # j
    BY <1>2, <1>5 DEF JobEnds, JobRow
  <2> QED
    BY <1>1, <1>2, <1>3, <2>1 DEF SettleInv
<1>6. ASSUME NEW event, JobTerminal(j, event) PROVE SettleInv'
  <2>1. /\ \A k \in JobIds : k # j => jobs'[k] = jobs[k]
        /\ \A k \in JobIds : jobs'[k].state = jobs[k].state
    BY <1>2, <1>6 DEF JobTerminal, JobRow
  <2>2. ASSUME NEW r \in RunIds, runs'[r].state = "running"
        PROVE  runs'[r] = runs[r] /\ runs[r].job # j
    <3>1. runs[r] \in RunRow
      BY <1>2
    <3>2. Settled(r, event).state # "running"
      BY <3>1 DEF Settled, Outcome, RunRow
    <3> QED
      BY <1>6, <2>2, <3>2 DEF JobTerminal
  <2> QED
    BY <1>1, <1>2, <1>3, <2>1, <2>2 DEF SettleInv
<1> QED
  BY <1>4, <1>5, <1>6 DEF Working

LEMMA RestartSettles == ASSUME SettleInv, Restart PROVE SettleInv'
<1>1. TypeOK' /\ TypeOK
  BY RestartType DEF SettleInv
<1>2. ASSUME NEW r \in RunIds PROVE runs'[r].state # "running"
  <2>1. runs[r] \in RunRow
    BY <1>1 DEF TypeOK
  <2> QED
    BY <2>1 DEF Restart, Recovered, RunRow
<1>3. \A t \in Threads : hired'[t] = 0 /\ pc'[t] = "idle"
  BY DEF Restart
<1> QED
  BY <1>1, <1>2, <1>3 DEF SettleInv

LEMMA NextSettles ==
    ASSUME FastJobs = FALSE, SettleInv, [Next]_vars PROVE SettleInv'
<1>1. CASE Tick
  <2>1. TypeOK' /\ UNCHANGED <<runs, jobs, hired, pc>>
    BY <1>1, TickType DEF SettleInv, Tick, dispatchVars
  <2> QED
    BY <2>1 DEF SettleInv
<1>2. ASSUME NEW x \in RunIds, BackoffElapses(x) PROVE SettleInv'
  <2>1. TypeOK' /\ UNCHANGED <<jobs, hired, pc>> /\ TypeOK
    BY <1>2, BackoffType DEF SettleInv, BackoffElapses, dispatchVars
  <2>2. NoneStarts
    BY <1>2, <2>1 DEF BackoffElapses, NoneStarts, TypeOK, RunRow
  <2> QED
    BY <2>1, <2>2, NoneStartsStep
<1>3. CASE UNCHANGED vars
  BY <1>3 DEF SettleInv, TypeOK, Live, vars
<1>4. CASE Next
  BY <1>1, <1>2, <1>4, OwnerSettles, EnqueuingSettles, RunNowSettles, DispatchingSettles,
     WorkingSettles, RestartSettles DEF Next
<1> QED
  BY <1>3, <1>4

\* No run stays running for ever for want of an announcement, whatever the owner, the
\* callers of run_now and restarts do - provided start_job's worker does not end before
\* its start is recorded, the one order in which the announcement finds no row.
THEOREM RunsSettle == ASSUME FastJobs = FALSE PROVE Spec => []RunningWillSettle
<1>1. Init => SettleInv
  <2> SUFFICES ASSUME Init PROVE SettleInv
    OBVIOUS
  <2>1. TypeOK
    BY InitType
  <2>2. /\ \A r \in RunIds : runs[r].state = "absent"
        /\ \A t \in Threads : pc[t] = "idle" /\ hired[t] = 0
    BY DEF Init, NoRun
  <2> QED
    BY <2>1, <2>2 DEF SettleInv
<1>2. SettleInv /\ [Next]_vars => SettleInv'
  BY NextSettles
<1>3. SettleInv => RunningWillSettle
  BY DEF SettleInv, RunningWillSettle
<1> QED
  BY <1>1, <1>2, <1>3, PTL DEF Spec

-----------------------------------------------------------------------------
(* Catch-up loses an occurrence only with a row of an older revision, for every  *)
(* number of schedules, calling threads and restarts. The loop works on a        *)
(* snapshot of the schedule while the owner edits it, so the argument keeps two  *)
(* bounds on every row apart: what the row says against the schedule as it now   *)
(* is, and against the snapshot.                                                 *)


\* What a snapshot catches up to (Latest, of any snapshot of the tick).
Last(d) ==
    IF d.once THEN d.next
    ELSE IF stamp - d.next > CatchupScan THEN d.next + CatchupScan ELSE stamp

\* No edit since the snapshot.
Current(d) == sched[d.id].rev = d.rev

\* The instants a row speaks of are not after b.
AtMost(r, b) == runs[r].from <= b /\ runs[r].to <= b /\ runs[r].nominal <= b

\* How far a catch-up from the next occurrence may reach.
Reach(s) == IF sched[s].once THEN sched[s].next ELSE sched[s].next + CatchupScan

\* Rows are made in order, and what the dispatching threads hold was made.
Unmade == \A r \in RunIds : r > runCount => runs[r] = NoRun
HoldsMade(t) ==
    /\ \A k \in todo[t] : k.id \in 1..runCount
    /\ pc[t] \in {"start", "record"} => head[t].id \in 1..runCount

\* A schedule, and what is left of one that was never created.
Placed(s) ==
    /\ sched[s].once /\ sched[s].next # 0 => sched[s].next <= sched[s].at
    /\ sched[s].live = "none" => sched[s].rev = 0 /\ fired[s] = {}

\* What a caller of run_now read is not ahead of the schedule.
ReadBefore(t) == wanted[t].rev <= sched[wanted[t].id].rev

\* A row reaches at most as far as a catch-up from the next occurrence may.
RowReaches(r) ==
    LET s == runs[r].sched
    IN  /\ AtMost(r, now)
        /\ sched[s].next # 0 => runs[r].from <= sched[s].next /\ AtMost(r, Reach(s))
        /\ sched[s].once => AtMost(r, sched[s].at)

\* A row of the schedule's revision that is ahead of it covers what lies between,
\* and is not dropped.
RowStands(r) ==
    LET s == runs[r].sched
    IN  /\ runs[r].rev <= sched[s].rev
        /\ /\ runs[r].rev = sched[s].rev /\ runs[r].nominal # 0
           /\ sched[s].next # 0 /\ ~sched[s].once
           => \/ runs[r].nominal < sched[s].next
              \/ sched[s].next .. runs[r].nominal \subseteq Covers(r)
        /\ Dropped(r) /\ Live(s) => runs[r].rev # sched[s].rev

\* A snapshot against its schedule: the same while no edit has come, and otherwise
\* behind it, with nothing enqueued yet under the new revision.
DueFits(d) ==
    LET s == d.id
    IN  /\ d.next # 0 /\ d.next <= stamp /\ d.rev <= sched[s].rev /\ sched[s].live # "none"
        /\ Current(d) => Live(s) /\ sched[s].next = d.next /\ sched[s].once = d.once
        /\ ~Current(d) =>
              /\ sched[s].next # 0 => Last(d) <= sched[s].next
              /\ \A r \in RunIds : /\ runs[r].sched = s /\ runs[r].rev = sched[s].rev
                                   => runs[r].nominal = 0
        /\ sched[s].once => Last(d) <= sched[s].at /\ (~d.once => Last(d) < sched[s].at)

\* A snapshot against the rows of its schedule: none reaches beyond it.
DueCovers(d) ==
    \A r \in RunIds : runs[r].sched = d.id => runs[r].from <= d.next /\ AtMost(r, Last(d))

\* The loop between its two transactions.
TickFits ==
    /\ stamp <= now
    /\ \A d, e \in due : d.id = e.id => d = e
    /\ pc[Loop] \in {"write", "advance"} => cur \in due
    /\ pc[Loop] = "write" /\ pending.id # 0 =>
          /\ pending.id <= runCount
          /\ runs[pending.id].sched = cur.id /\ runs[pending.id].from = pending.from

\* An enqueued occurrence has a row.
HasRow(s) == \A o \in fired[s] : \E r \in 1..runCount : runs[r].sched = s /\ o \in Covers(r)

CatchInv ==
    /\ TypeOK /\ Unmade /\ TickFits
    /\ \A t \in Threads : HoldsMade(t) /\ ReadBefore(t)
    /\ \A s \in Schedules : Placed(s) /\ HasRow(s)
    /\ \A r \in RunIds : RowReaches(r) /\ RowStands(r)
    /\ \A d \in due : DueFits(d) /\ DueCovers(d)

-----------------------------------------------------------------------------
(* Numbers, and what a step leaves alone.                                  *)

LEMMA CatchTypes ==
    ASSUME TypeOK
    PROVE  /\ now \in Nat /\ stamp \in Nat /\ CatchupScan \in Nat /\ runCount \in Nat
           /\ runs \in [RunIds -> RunRow] /\ sched \in [Schedules -> SchedRow]
           /\ pc \in [Threads -> {"idle", "pending", "write", "advance", "create", "scan", "check",
                                  "start", "record"}]
           /\ Loop \in Threads /\ 1..runCount \subseteq RunIds
           /\ \A r \in RunIds : /\ {runs[r].from, runs[r].to, runs[r].nominal, runs[r].rev} \subseteq Nat
                                /\ runs[r].sched \in Schedules
           /\ \A s \in Schedules : /\ {sched[s].next, sched[s].at, sched[s].rev} \subseteq Nat
                                   /\ sched[s].once \in BOOLEAN
           /\ \A d \in due : d.id \in Schedules /\ {d.next, d.rev} \subseteq Nat /\ d.once \in BOOLEAN
<1> USE BoundsAreNaturals
<1>1. /\ now \in Nat /\ stamp \in Nat /\ CatchupScan \in Nat /\ runCount \in Nat
      /\ Instants \subseteq Nat /\ 0..(MaxRev + 1) \subseteq Nat /\ 1..runCount \subseteq RunIds
  <2>1. /\ now \in 1..MaxTime /\ stamp \in 0..MaxTime /\ runCount \in 0..MaxRuns
    BY DEF TypeOK
  <2>2. {MaxTime, MaxAhead, MaxRev, MaxRuns} \subseteq Nat /\ CatchupScan \in Nat
    OBVIOUS
  <2> QED
    BY ONLY <2>1, <2>2 DEF Instants, RunIds
<1>2. /\ runs \in [RunIds -> RunRow] /\ sched \in [Schedules -> SchedRow] /\ due \subseteq DueRow
      /\ pc \in [Threads -> {"idle", "pending", "write", "advance", "create", "scan", "check",
                             "start", "record"}]
  BY DEF TypeOK
<1>3. ASSUME NEW r \in RunIds
      PROVE  /\ {runs[r].from, runs[r].to, runs[r].nominal, runs[r].rev} \subseteq Nat
             /\ runs[r].sched \in Schedules
  BY <1>1, <1>2 DEF RunRow
<1>4. ASSUME NEW s \in Schedules
      PROVE  /\ {sched[s].next, sched[s].at, sched[s].rev} \subseteq Nat
             /\ sched[s].once \in BOOLEAN
  BY <1>1, <1>2 DEF SchedRow
<1>5. ASSUME NEW d \in due
      PROVE  d.id \in Schedules /\ {d.next, d.rev} \subseteq Nat /\ d.once \in BOOLEAN
  BY <1>1, <1>2 DEF DueRow
<1> QED
  BY <1>1, <1>2, <1>3, <1>4, <1>5 DEF Threads

\* A catch-up ends between the snapshot's occurrence and the tick, within the scan.
LEMMA LastBounds ==
    ASSUME TypeOK, NEW d \in due, d.next <= stamp
    PROVE  /\ Last(d) \in Nat /\ d.next <= Last(d) /\ Last(d) <= stamp
           /\ Last(d) <= d.next + CatchupScan
           /\ d.once => Last(d) = d.next
  BY CatchTypes DEF Last

\* The keys of a row are left alone, and it is dropped only for a stale one.
KeyKept(r) ==
    /\ runs'[r].sched = runs[r].sched /\ runs'[r].rev = runs[r].rev
    /\ runs'[r].nominal = runs[r].nominal
    /\ runs'[r].from = runs[r].from /\ runs'[r].to = runs[r].to
    /\ Dropped(r)' => Dropped(r) \/ Stale(r)

\* A step that keeps the keys of every row and lets the enqueuing be.
Quiet ==
    /\ \A r \in RunIds : KeyKept(r)
    /\ UNCHANGED <<sched, runCount, due, cur, stamp, pending, fired>>
    /\ pc'[Loop] \in {"write", "advance"} => pc'[Loop] = pc[Loop]
    /\ now' \in Nat /\ now <= now'

\* The schedules and the rows when no schedule changes.
LEMMA QuietRows ==
    ASSUME CatchInv, \A r \in RunIds : KeyKept(r), UNCHANGED <<sched, runCount, fired>>,
           now' \in Nat, now <= now'
    PROVE  /\ \A s \in Schedules : Placed(s)' /\ HasRow(s)'
           /\ \A r \in RunIds : RowReaches(r)' /\ RowStands(r)'
<1> USE CatchTypes DEF CatchInv
<1>1. TypeOK
  OBVIOUS
<1>2. ASSUME NEW s \in Schedules PROVE Placed(s)' /\ HasRow(s)'
  <2>1. Placed(s)'
    BY DEF Placed
  <2>2. \A r \in RunIds : Covers(r)' = Covers(r)
    BY DEF KeyKept, Covers
  <2>3. HasRow(s)'
    BY <1>1, <2>2 DEF KeyKept, HasRow
  <2> QED
    BY <2>1, <2>3
<1>3. ASSUME NEW r \in RunIds PROVE RowReaches(r)' /\ RowStands(r)'
  <2>1. KeyKept(r) /\ RowReaches(r) /\ RowStands(r)
    OBVIOUS
  <2>2. RowReaches(r)'
    BY <1>1, <2>1 DEF RowReaches, AtMost, Reach, KeyKept
  <2>3. Covers(r)' = Covers(r)
    BY <2>1 DEF KeyKept, Covers
  <2>4. RowStands(r)'
    BY <2>1, <2>3 DEF RowStands, KeyKept, Live, Stale
  <2> QED
    BY <2>2, <2>4
<1> QED
  BY <1>2, <1>3

LEMMA QuietCatch ==
    ASSUME CatchInv, Quiet, TypeOK', Unmade', \A t \in Threads : HoldsMade(t)',
           \A t \in Threads : ReadBefore(t)'
    PROVE  CatchInv'
<1> USE CatchTypes DEF CatchInv
<1>1. TypeOK
  OBVIOUS
<1>2. /\ \A s \in Schedules : Placed(s)' /\ HasRow(s)'
      /\ \A r \in RunIds : RowReaches(r)' /\ RowStands(r)'
  BY QuietRows DEF Quiet
<1>4. ASSUME NEW d \in due' PROVE DueFits(d)' /\ DueCovers(d)'
  <2>1. d \in due /\ Last(d)' = Last(d) /\ UNCHANGED <<sched, stamp>>
    BY DEF Quiet, Last
  <2>2. DueFits(d)'
    BY <2>1 DEF Quiet, KeyKept, DueFits, Current, Live
  <2>3. DueCovers(d)'
    BY <2>1 DEF Quiet, KeyKept, DueCovers, AtMost
  <2> QED
    BY <2>2, <2>3
<1>5. TickFits'
  <2>1. stamp' <= now' /\ \A d, e \in due' : d.id = e.id => d = e
    BY <1>1 DEF Quiet, TickFits
  <2>2. pc'[Loop] \in {"write", "advance"} => cur' \in due'
    BY DEF Quiet, TickFits
  <2>3. ASSUME pc'[Loop] = "write", pending'.id # 0
        PROVE  /\ pending'.id <= runCount'
               /\ runs'[pending'.id].sched = cur'.id /\ runs'[pending'.id].from = pending'.from
    <3>1. pending.id \in RunIds
      BY <1>1, <2>3 DEF TypeOK, Quiet
    <3> QED
      BY <2>3, <3>1 DEF Quiet, KeyKept, TickFits
  <2> QED
    BY <2>1, <2>2, <2>3 DEF TickFits
<1> QED
  BY <1>2, <1>4, <1>5

-----------------------------------------------------------------------------
(* The quiet steps: the clock, the dispatching threads, the workers.       *)

\* Rows that do not exist stay so when only rows that do are touched.
LEMMA UnmadeStays ==
    ASSUME Unmade, UNCHANGED runCount, \A r \in RunIds : r > runCount => runs'[r] = runs[r]
    PROVE  Unmade'
  BY DEF Unmade

LEMMA RowsQuiet == ASSUME UNCHANGED <<runs, sched>> PROVE \A r \in RunIds : KeyKept(r)
  BY DEF KeyKept, Dropped

LEMMA TickCatch == ASSUME CatchInv, Tick PROVE CatchInv'
<1>1. TypeOK' /\ TypeOK
  BY TickType DEF CatchInv
<1>2. now' \in Nat /\ now <= now'
  BY <1>1, CatchTypes DEF Tick
<1>3. UNCHANGED <<sched, runs, runCount, pc, loopVars, dispatchVars, wanted, fired>>
  BY DEF Tick
<1>4. Quiet
  BY <1>2, <1>3, RowsQuiet DEF Quiet, loopVars
<1>5. Unmade' /\ \A t \in Threads : HoldsMade(t)' /\ ReadBefore(t)'
  BY <1>3 DEF CatchInv, Unmade, HoldsMade, ReadBefore, dispatchVars
<1> QED
  BY <1>1, <1>4, <1>5, QuietCatch

\* A dispatching thread works on rows of the queue it read, and cancels only stale ones.
LEMMA DispatchingCatch ==
    ASSUME CatchInv, NEW t \in Threads, Dispatching(t) PROVE CatchInv'
<1>1. TypeOK' /\ TypeOK
  BY DispatchingType DEF CatchInv
<1> USE <1>1, CatchTypes
<1>2. UNCHANGED <<now, sched, runCount, loopVars, wanted, fired>>
  BY DEF Dispatching, ReadQueue, Starting, CheckRun, StartJob, AtCapacity, RefusedJob, RecordStart
<1>3. /\ todo \in [Threads -> SUBSET Snapshot]
      /\ head \in [Threads -> [id : {0} \cup RunIds, attempt : Nat]]
  BY DEF TypeOK
<1>4. Unmade /\ \A k \in Threads : HoldsMade(k)
  BY DEF CatchInv
<1>5. ASSUME \A r \in RunIds : KeyKept(r), Unmade', \A k \in Threads : HoldsMade(k)',
             pc'[Loop] \in {"write", "advance"} => pc'[Loop] = pc[Loop]
      PROVE  CatchInv'
  <2>1. Quiet
    BY <1>2, <1>5 DEF Quiet, loopVars
  <2>2. \A k \in Threads : ReadBefore(k)'
    BY <1>2 DEF CatchInv, ReadBefore
  <2> QED
    BY <1>5, <2>1, <2>2, QuietCatch
<1>6. ASSUME NEW h, Continue(t, h)
      PROVE  /\ \A k \in Threads : HoldsMade(k)'
             /\ pc'[Loop] \in {"write", "advance"} => pc'[Loop] = pc[Loop]
  BY <1>2, <1>3, <1>4, <1>6 DEF Continue, HoldsMade
<1>7. CASE ReadQueue(t)
  <2>1. UNCHANGED runs /\ \A r \in RunIds : KeyKept(r)
    BY <1>2, <1>7, RowsQuiet DEF ReadQueue
  <2>2. \A r \in RunIds : runs[r].state = "queued" => r \in 1..runCount
    BY <1>4 DEF Unmade, NoRun, RunIds
  <2>3. \A k \in todo'[t] : k.id \in 1..runCount
    BY <1>3, <1>7, <2>2 DEF ReadQueue
  <2>4. /\ \A k \in Threads : k # t => todo'[k] = todo[k] /\ pc'[k] = pc[k]
        /\ pc'[t] \in {"idle", "check"} /\ UNCHANGED head
    BY <1>3, <1>7 DEF ReadQueue
  <2>5. \A k \in Threads : HoldsMade(k)'
    BY <1>2, <1>4, <2>3, <2>4 DEF HoldsMade
  <2> QED
    BY <1>2, <1>4, <1>5, <2>1, <2>4, <2>5, UnmadeStays
<1>8. CASE CheckRun(t)
  <2>1. PICK h \in todo[t] :
          /\ runs' = runs \/ (runs' = [runs EXCEPT ![h.id].state = "cancelled"] /\ Stale(h.id))
          /\ \/ Continue(t, h)
             \/ /\ head' = [head EXCEPT ![t] = h] /\ UNCHANGED todo
                /\ pc' = [pc EXCEPT ![t] = "start"]
    BY <1>8 DEF CheckRun
  <2>2. h.id \in 1..runCount
    BY <1>4 DEF HoldsMade
  <2>3. \A r \in RunIds : KeyKept(r)
    BY <2>1 DEF KeyKept, Dropped, RunRow
  <2>4. \A r \in RunIds : r > runCount => runs'[r] = runs[r]
    BY <2>1, <2>2
  <2>5. /\ \A k \in Threads : HoldsMade(k)'
        /\ pc'[Loop] \in {"write", "advance"} => pc'[Loop] = pc[Loop]
    <3>1. CASE head' = [head EXCEPT ![t] = h] /\ UNCHANGED todo /\ pc' = [pc EXCEPT ![t] = "start"]
      BY <1>2, <1>3, <1>4, <2>2, <3>1 DEF HoldsMade
    <3> QED
      BY <1>6, <2>1, <3>1
  <2> QED
    BY <1>2, <1>4, <1>5, <2>3, <2>4, <2>5, UnmadeStays
<1>9. CASE StartJob(t)
  <2>1. UNCHANGED runs /\ \A r \in RunIds : KeyKept(r)
    BY <1>2, <1>9, RowsQuiet DEF StartJob
  <2>2. /\ UNCHANGED <<todo, head>> /\ pc[t] = "start" /\ pc' = [pc EXCEPT ![t] = "record"]
    BY <1>9 DEF StartJob
  <2>3. \A k \in Threads : HoldsMade(k)'
    BY <1>2, <1>4, <2>2 DEF HoldsMade
  <2> QED
    BY <1>2, <1>4, <1>5, <2>1, <2>2, <2>3, UnmadeStays
<1>10. CASE AtCapacity(t)
  <2>1. UNCHANGED runs /\ \A r \in RunIds : KeyKept(r)
    BY <1>2, <1>10, RowsQuiet DEF AtCapacity
  <2> QED
    BY <1>2, <1>4, <1>5, <1>6, <1>10, <2>1, UnmadeStays DEF AtCapacity
<1>11. CASE RefusedJob(t) \/ RecordStart(t)
  <2>1. pc[t] \in {"start", "record"} /\ Continue(t, head[t])
    BY <1>11 DEF RefusedJob, RecordStart
  <2>2. head[t].id \in 1..runCount
    BY <1>4, <2>1 DEF HoldsMade
  <2>3. \A r \in RunIds : r # head[t].id => runs'[r] = runs[r]
    BY <1>11 DEF RefusedJob, RecordStart
  <2>4. ASSUME NEW r \in RunIds PROVE KeyKept(r)
    <3>1. runs[r] \in RunRow
      OBVIOUS
    <3>2. CASE RefusedJob(t)
      BY <3>1, <3>2 DEF RefusedJob, KeyKept, Dropped, RunRow
    <3>3. CASE RecordStart(t)
      BY <3>1, <3>3 DEF RecordStart, KeyKept, Dropped, RunRow
    <3> QED
      BY <1>11, <3>2, <3>3
  <2>5. \A r \in RunIds : r > runCount => runs'[r] = runs[r]
    BY <2>2, <2>3
  <2> QED
    BY <1>2, <1>4, <1>5, <1>6, <2>1, <2>4, <2>5, UnmadeStays
<1> QED
  BY <1>7, <1>8, <1>9, <1>10, <1>11 DEF Dispatching, Starting

\* The end of a job settles rows that have a job: none of them is dropped by it.
LEMMA WorkingCatch == ASSUME CatchInv, NEW j \in JobIds, Working(j) PROVE CatchInv'
<1>1. TypeOK' /\ TypeOK
  BY WorkingType DEF CatchInv
<1> USE <1>1, CatchTypes
<1>2. UNCHANGED <<now, sched, runCount, loopVars, wanted, fired, pc, todo, head>>
  BY DEF Working, JobBegins, JobEnds, JobTerminal, dispatchVars
<1>3. Unmade
  BY DEF CatchInv
<1>4. j # 0
  BY DEF JobIds
<1>5. ASSUME NEW r \in RunIds
      PROVE  KeyKept(r) /\ (runs[r].job = 0 => runs'[r] = runs[r])
  <2>1. runs[r] \in RunRow
    OBVIOUS
  <2>2. CASE UNCHANGED runs
    BY <1>2, <2>2 DEF KeyKept, Dropped
  <2>3. ASSUME NEW event, JobTerminal(j, event)
        PROVE  KeyKept(r) /\ (runs[r].job = 0 => runs'[r] = runs[r])
    <3>1. runs'[r] = IF runs[r].job = j THEN Settled(r, event) ELSE runs[r]
      BY <2>3 DEF JobTerminal
    <3> QED
      BY <1>4, <2>1, <3>1 DEF Settled, Outcome, KeyKept, Dropped, RunRow
  <2> QED
    BY <2>2, <2>3 DEF Working, JobBegins, JobEnds
<1>6. Unmade'
  <2>1. \A r \in RunIds : r > runCount => runs'[r] = runs[r]
    BY <1>3, <1>5 DEF Unmade, NoRun
  <2> QED
    BY <1>2, <1>3, <2>1, UnmadeStays
<1>7. Quiet
  BY <1>2, <1>5 DEF Quiet, loopVars
<1>8. \A t \in Threads : HoldsMade(t)' /\ ReadBefore(t)'
  BY <1>2 DEF CatchInv, HoldsMade, ReadBefore
<1> QED
  BY <1>6, <1>7, <1>8, QuietCatch

LEMMA BackoffCatch == ASSUME CatchInv, NEW x \in RunIds, BackoffElapses(x) PROVE CatchInv'
<1>1. TypeOK' /\ TypeOK
  BY BackoffType DEF CatchInv
<1> USE <1>1, CatchTypes
<1>2. UNCHANGED <<now, sched, runCount, loopVars, wanted, fired, pc, todo, head>>
  BY DEF BackoffElapses, dispatchVars
<1>3. Unmade /\ runs[x].backoff
  BY DEF CatchInv, BackoffElapses
<1>4. ASSUME NEW r \in RunIds PROVE KeyKept(r)
  <2>1. runs[r] \in RunRow
    OBVIOUS
  <2> QED
    BY <2>1 DEF BackoffElapses, KeyKept, Dropped, RunRow
<1>5. Unmade'
  <2>1. \A r \in RunIds : r > runCount => ~runs[r].backoff
    BY <1>3 DEF Unmade, NoRun
  <2>2. \A r \in RunIds : r # x => runs'[r] = runs[r]
    BY DEF BackoffElapses
  <2> QED
    BY <1>2, <1>3, <2>1, <2>2, UnmadeStays
<1>6. Quiet
  BY <1>2, <1>4 DEF Quiet, loopVars
<1>7. \A t \in Threads : HoldsMade(t)' /\ ReadBefore(t)'
  BY <1>2 DEF CatchInv, HoldsMade, ReadBefore
<1> QED
  BY <1>5, <1>6, <1>7, QuietCatch

LEMMA RestartCatch == ASSUME CatchInv, Restart PROVE CatchInv'
<1>1. TypeOK' /\ TypeOK
  BY RestartType DEF CatchInv
<1> USE <1>1, CatchTypes
<1>2. /\ UNCHANGED <<now, sched, runCount, wanted, fired>> /\ due' = {} /\ stamp' = 0
      /\ pc'[Loop] = "idle" /\ \A t \in Threads : todo'[t] = {} /\ pc'[t] = "idle"
  BY DEF Restart
<1>3. ASSUME NEW r \in RunIds
      PROVE  KeyKept(r) /\ (runs[r].state = "absent" => runs'[r] = runs[r])
  <2>1. runs[r] \in RunRow
    OBVIOUS
  <2> QED
    BY <2>1 DEF Restart, Recovered, KeyKept, Dropped, RunRow
<1>4. Unmade'
  <2>1. NoRun.state = "absent"
    BY DEF NoRun
  <2> QED
    BY <1>2, <1>3, <2>1 DEF CatchInv, Unmade
<1>5. /\ \A s \in Schedules : Placed(s)' /\ HasRow(s)'
      /\ \A r \in RunIds : RowReaches(r)' /\ RowStands(r)'
  BY <1>2, <1>3, QuietRows
<1>6. TickFits'
  BY <1>2 DEF TickFits
<1>7. \A t \in Threads : HoldsMade(t)' /\ ReadBefore(t)'
  BY <1>2 DEF CatchInv, HoldsMade, ReadBefore
<1> QED
  BY <1>2, <1>4, <1>5, <1>6, <1>7 DEF CatchInv

-----------------------------------------------------------------------------
(* The owner: a schedule is created, revised or deleted.                   *)

\* What the owner's steps have in common: the revision moves on; the next occurrence,
\* if there is one, is after now, or it is the instant of a one-time trigger that is
\* kept; the rows keep their keys, and those of other schedules everything.
NewRevision(s) ==
    /\ sched'[s].rev = sched[s].rev + 1 /\ sched'[s].live # "none"
    /\ \/ sched'[s].next = 0
       \/ sched'[s].next > now
       \/ sched'[s].once /\ sched[s].once /\ sched'[s].next = sched[s].at
    /\ sched'[s].once => sched'[s].at > now \/ (sched[s].once /\ sched'[s].at = sched[s].at)
    /\ sched'[s].once /\ sched'[s].next # 0 => sched'[s].next <= sched'[s].at
    /\ \A x \in Schedules : /\ x # s => sched'[x] = sched[x]
                            /\ fired'[x] \subseteq fired[x]
    /\ \A r \in RunIds :
          /\ runs'[r].sched = runs[r].sched /\ runs'[r].rev = runs[r].rev
          /\ runs'[r].nominal = runs[r].nominal
          /\ runs'[r].from = runs[r].from /\ runs'[r].to = runs[r].to
          /\ runs[r].sched # s \/ runs[r].state # "queued" => runs'[r] = runs[r]
    /\ UNCHANGED <<now, runCount, pc, due, cur, stamp, pending, todo, head, wanted>>

LEMMA SchedRowTypes ==
    ASSUME NEW row \in SchedRow
    PROVE  row.next \in Nat /\ row.at \in Nat /\ row.rev \in Nat /\ row.once \in BOOLEAN
<1>1. Instants \subseteq Nat /\ 0..(MaxRev + 1) \subseteq Nat
  BY DEF Instants
<1> QED
  BY <1>1 DEF SchedRow

LEMMA NewRevisionCatch ==
    ASSUME CatchInv, TypeOK', NEW s \in Schedules, NewRevision(s)
    PROVE  CatchInv'
<1> USE CatchTypes DEF CatchInv
<1>1. TypeOK
  OBVIOUS
<1>0. /\ sched'[s].next \in Nat /\ sched'[s].at \in Nat /\ sched'[s].rev \in Nat
      /\ sched'[s].once \in BOOLEAN
  BY SchedRowTypes DEF TypeOK
<1>2. /\ \A r \in RunIds : Covers(r)' = Covers(r)
      /\ \A d \in due : Last(d)' = Last(d)
  BY DEF NewRevision, Covers, Last
<1>3. ASSUME NEW x \in Schedules PROVE Placed(x)' /\ HasRow(x)'
  <2>1. Placed(x)'
    BY DEF NewRevision, Placed
  <2>2. HasRow(x)'
    BY <1>1, <1>2 DEF NewRevision, HasRow
  <2> QED
    BY <2>1, <2>2
<1>4. ASSUME NEW r \in RunIds PROVE RowReaches(r)' /\ RowStands(r)'
  <2>1. /\ RowReaches(r) /\ RowStands(r)
        /\ runs'[r].sched = runs[r].sched /\ runs'[r].rev = runs[r].rev
        /\ runs'[r].nominal = runs[r].nominal
        /\ runs'[r].from = runs[r].from /\ runs'[r].to = runs[r].to
        /\ now' = now
    BY DEF NewRevision
  <2>2. CASE runs[r].sched # s
    <3>1. sched'[runs[r].sched] = sched[runs[r].sched] /\ runs'[r] = runs[r]
      BY <1>1, <2>2 DEF NewRevision
    <3>2. RowReaches(r)'
      BY <2>1, <3>1 DEF RowReaches, AtMost, Reach
    <3>3. RowStands(r)'
      BY <1>2, <2>1, <3>1 DEF RowStands, Dropped, Live
    <3> QED
      BY <3>2, <3>3
  <2>3. CASE runs[r].sched = s
    <3>1. /\ AtMost(r, now) /\ (sched[s].once => AtMost(r, sched[s].at))
      BY <2>1, <2>3 DEF RowReaches, AtMost
    <3>2. ASSUME NEW a \in Nat, NEW b \in Nat, a <= b, AtMost(r, a)
          PROVE  AtMost(r, b)
      BY <1>1, <3>2 DEF AtMost
    <3>3. sched'[s].once => AtMost(r, sched'[s].at)
      BY <1>0, <1>1, <3>1, <3>2 DEF NewRevision
    <3>4. sched'[s].next # 0 => AtMost(r, sched'[s].next)
      BY <1>0, <1>1, <3>1, <3>2 DEF NewRevision
    <3>5. Reach(s)' \in Nat /\ sched'[s].next <= Reach(s)'
      BY <1>0, <1>1 DEF Reach
    <3>6. sched'[s].next # 0 => AtMost(r, Reach(s)')
      BY <1>0, <3>2, <3>4, <3>5
    <3>7. RowReaches(r)'
      BY <2>1, <2>3, <3>1, <3>3, <3>4, <3>6 DEF RowReaches, AtMost
    <3>8. RowStands(r)'
      BY <1>1, <2>1, <2>3 DEF NewRevision, RowStands
    <3> QED
      BY <3>7, <3>8
  <2> QED
    BY <2>2, <2>3
<1>5. ASSUME NEW d \in due' PROVE DueFits(d)' /\ DueCovers(d)'
  <2>1. /\ d \in due /\ DueFits(d) /\ DueCovers(d) /\ stamp' = stamp /\ Last(d)' = Last(d)
        /\ stamp <= now
    BY <1>2 DEF NewRevision, TickFits
  <2>2. DueCovers(d)'
    BY <2>1 DEF NewRevision, DueCovers, AtMost
  <2>3. CASE d.id # s
    <3>1. sched'[d.id] = sched[d.id] /\ (Current(d)' <=> Current(d))
      BY <1>1, <2>1, <2>3 DEF NewRevision, Current
    <3>2. \A r \in RunIds : /\ runs'[r].sched = runs[r].sched /\ runs'[r].rev = runs[r].rev
                            /\ runs'[r].nominal = runs[r].nominal
      BY DEF NewRevision
    <3>3. ASSUME ~Current(d), NEW r \in RunIds, runs'[r].sched = d.id,
                 runs'[r].rev = sched'[d.id].rev
          PROVE  runs'[r].nominal = 0
      BY <2>1, <3>1, <3>2, <3>3 DEF DueFits
    <3> QED
      BY <2>1, <2>2, <3>1, <3>3 DEF DueFits, Live
  <2>4. CASE d.id = s
    <3>1. Last(d) \in Nat /\ Last(d) <= now
      BY <1>1, <2>1, LastBounds DEF DueFits
    <3>2. ASSUME NEW r \in RunIds, runs'[r].sched = s PROVE runs'[r].rev # sched'[s].rev
      BY <1>1, <3>2 DEF NewRevision, RowStands
    <3>3. ~Current(d)'
      BY <1>1, <2>1, <2>4 DEF NewRevision, Current, DueFits
    <3>4. sched'[s].next # 0 => Last(d) <= sched'[s].next
      BY <1>0, <1>1, <2>1, <2>4, <3>1 DEF NewRevision, DueFits
    <3>5. sched'[s].once => Last(d) <= sched'[s].at /\ (~d.once => Last(d) < sched'[s].at)
      BY <1>0, <1>1, <2>1, <2>4, <3>1 DEF NewRevision, DueFits
    <3>7. sched'[s].live # "none"
      BY DEF NewRevision
    <3>6. d.rev <= sched'[s].rev
      BY <1>1, <2>1, <2>4 DEF NewRevision, DueFits
    <3> QED
      BY <2>1, <2>2, <2>4, <3>2, <3>3, <3>4, <3>5, <3>6, <3>7 DEF DueFits
  <2> QED
    BY <2>2, <2>3, <2>4
<1>6. TickFits'
  <2>1. pending.id # 0 => pending.id \in RunIds
    BY <1>1 DEF TypeOK
  <2> QED
    BY <2>1 DEF NewRevision, TickFits
<1>7. ASSUME NEW t \in Threads PROVE HoldsMade(t)' /\ ReadBefore(t)'
  <2>1. wanted[t].id \in Schedules /\ wanted[t].rev \in Nat
    BY <1>1, BoundsAreNaturals DEF TypeOK
  <2> QED
    BY <1>1, <2>1 DEF NewRevision, HoldsMade, ReadBefore
<1>8. Unmade'
  <2>1. NoRun.state = "absent"
    BY DEF NoRun
  <2> QED
    BY <2>1 DEF NewRevision, Unmade
<1> QED
  BY <1>3, <1>4, <1>5, <1>6, <1>7, <1>8

\* The rows after a revision or a deletion: the queued ones of the schedule are cancelled.
LEMMA CancelKeepsKeys ==
    ASSUME TypeOK, NEW s \in Schedules,
           \A r \in RunIds :
               \/ runs'[r] = runs[r]
               \/ /\ runs[r].sched = s /\ runs[r].state = "queued"
                  /\ runs'[r] = [runs[r] EXCEPT !.state = "cancelled"]
    PROVE  \A r \in RunIds :
               /\ runs'[r].sched = runs[r].sched /\ runs'[r].rev = runs[r].rev
               /\ runs'[r].nominal = runs[r].nominal
               /\ runs'[r].from = runs[r].from /\ runs'[r].to = runs[r].to
               /\ runs[r].sched # s \/ runs[r].state # "queued" => runs'[r] = runs[r]
<1> SUFFICES ASSUME NEW r \in RunIds
             PROVE  /\ runs'[r].sched = runs[r].sched /\ runs'[r].rev = runs[r].rev
                    /\ runs'[r].nominal = runs[r].nominal
                    /\ runs'[r].from = runs[r].from /\ runs'[r].to = runs[r].to
                    /\ runs[r].sched # s \/ runs[r].state # "queued" => runs'[r] = runs[r]
  OBVIOUS
<1>1. runs[r] \in RunRow
  BY CatchTypes
<1> QED
  BY <1>1 DEF RunRow

\* The instant a trigger fires next is after now, or that of a one-time trigger.
LEMMA FirstIsAhead ==
    ASSUME TypeOK, NEW once \in BOOLEAN, NEW at \in Nat
    PROVE  FirstAfter(once, at, now) > now \/ (once /\ FirstAfter(once, at, now) = at)
  BY CatchTypes DEF FirstAfter

LEMMA OwnerCatch == ASSUME CatchInv, Owner PROVE CatchInv'
<1>1. TypeOK' /\ TypeOK
  BY OwnerType DEF CatchInv
<1> USE <1>1, CatchTypes
<1>2. ASSUME NEW s \in Schedules, NEW row \in SchedRow, Revise(s, row),
             row.live = sched[s].live,
             \/ row.next = 0
             \/ row.next > now
             \/ row.once /\ sched[s].once /\ row.next = sched[s].at,
             row.once => row.at > now \/ (sched[s].once /\ row.at = sched[s].at),
             row.once /\ row.next # 0 => row.next <= row.at
      PROVE  CatchInv'
  <2> DEFINE new == [row EXCEPT !.rev = sched[s].rev + 1]
  <2>1. /\ new.rev = sched[s].rev + 1 /\ new.live = row.live /\ new.next = row.next
        /\ new.once = row.once /\ new.at = row.at
    BY <1>2 DEF SchedRow
  <2>2. sched' = [sched EXCEPT ![s] = new] /\ fired' = [fired EXCEPT ![s] = {}]
    BY <1>2 DEF Revise
  <2> HIDE DEF new
  <2>3. sched'[s] = new /\ \A x \in Schedules : x # s => sched'[x] = sched[x]
    BY <2>2
  <2>4. \A x \in Schedules : fired'[x] \subseteq fired[x]
    BY <2>2 DEF TypeOK
  <2>5. \A r \in RunIds :
            /\ runs'[r].sched = runs[r].sched /\ runs'[r].rev = runs[r].rev
            /\ runs'[r].nominal = runs[r].nominal
            /\ runs'[r].from = runs[r].from /\ runs'[r].to = runs[r].to
            /\ runs[r].sched # s \/ runs[r].state # "queued" => runs'[r] = runs[r]
    <3>1. \A r \in RunIds :
              \/ runs'[r] = runs[r]
              \/ /\ runs[r].sched = s /\ runs[r].state = "queued"
                 /\ runs'[r] = [runs[r] EXCEPT !.state = "cancelled"]
      BY <1>2 DEF Revise
    <3> QED
      BY <1>2, <3>1, CancelKeepsKeys
  <2>6. UNCHANGED <<now, runCount, pc, due, cur, stamp, pending, todo, head, wanted>>
    BY <1>2 DEF Revise, loopVars, dispatchVars
  <2>7. row.live # "none"
    BY <1>2 DEF Revise, Live
  <2>8. NewRevision(s)
    BY <1>2, <2>1, <2>3, <2>4, <2>5, <2>6, <2>7 DEF NewRevision
  <2> QED
    BY <1>2, <2>8, NewRevisionCatch
<1>3. ASSUME NEW s \in Schedules, NEW once \in BOOLEAN, NEW at \in now + 1 .. now + MaxAhead,
             Create(s, once, at)
      PROVE  CatchInv'
  <2>1. at \in Nat /\ at > now
    BY BoundsAreNaturals
  <2>2. sched[s].live = "none" /\ sched[s].rev = 0
    BY <1>3 DEF Create, CatchInv, Placed
  <2>3. sched'[s] = [live |-> "live", enabled |-> TRUE, once |-> once, at |-> at, next |-> at,
                   rev |-> 1]
    BY <1>3 DEF Create
  <2>4. UNCHANGED <<now, runs, runCount, pc, due, cur, stamp, pending, todo, head, wanted, fired>>
    BY <1>3 DEF Create, loopVars, dispatchVars
  <2>5. \A x \in Schedules : x # s => sched'[x] = sched[x]
    BY <1>3 DEF Create
  <2>6. NewRevision(s)
    BY <2>1, <2>2, <2>3, <2>4, <2>5 DEF NewRevision
  <2> QED
    BY <1>3, <2>6, NewRevisionCatch
<1>4. ASSUME NEW s \in Schedules, NEW enabled \in BOOLEAN, NEW once \in BOOLEAN, NEW at \in Instants,
             at > now \/ (once = sched[s].once /\ at = sched[s].at), Edit(s, enabled, once, at)
      PROVE  CatchInv'
  <2> DEFINE first == FirstAfter(once, at, now)
             row == [sched[s] EXCEPT !.enabled = enabled, !.once = once, !.at = first,
                                     !.next = IF enabled THEN first ELSE 0]
  <2>1. Revise(s, row)
    BY <1>4 DEF Edit
  <2>2. at \in Nat /\ first \in Instants /\ sched[s] \in SchedRow /\ 0 \in Instants
    BY <1>4, BoundsAreNaturals DEF FirstAfter, Instants, TypeOK
  <2>3. first > now \/ (once /\ sched[s].once /\ first = sched[s].at)
    BY <1>4, <2>2, FirstIsAhead DEF FirstAfter
  <2> HIDE DEF first
  <2>4. /\ row \in SchedRow /\ row.live = sched[s].live /\ row.once = once /\ row.at = first
        /\ row.next = IF enabled THEN first ELSE 0
    BY <1>4, <2>2 DEF SchedRow
  <2>5. first \in Nat
    BY <2>2 DEF Instants
  <2> HIDE DEF row
  <2> QED
    BY <1>2, <1>4, <2>1, <2>3, <2>4, <2>5
<1>5. ASSUME NEW s \in Schedules, Pause(s) PROVE CatchInv'
  <2> DEFINE row == [sched[s] EXCEPT !.enabled = FALSE, !.next = 0]
  <2>1. Revise(s, row)
    BY <1>5 DEF Pause
  <2>2. sched[s] \in SchedRow /\ 0 \in Instants
    BY BoundsAreNaturals DEF Instants
  <2>3. /\ row \in SchedRow /\ row.live = sched[s].live /\ row.once = sched[s].once
        /\ row.at = sched[s].at /\ row.next = 0
    BY <2>2 DEF SchedRow
  <2> HIDE DEF row
  <2> QED
    BY <1>2, <1>5, <2>1, <2>3
<1>6. ASSUME NEW s \in Schedules, Resume(s) PROVE CatchInv'
  <2> DEFINE first == FirstAfter(sched[s].once, sched[s].at, now)
             row == [sched[s] EXCEPT !.enabled = TRUE, !.next = first]
  <2>1. Revise(s, row)
    BY <1>6 DEF Resume
  <2>2. first \in Instants /\ sched[s] \in SchedRow
    <3>1. sched[s].at \in Instants /\ now \in 1..MaxTime
      BY DEF TypeOK, SchedRow
    <3> QED
      BY <3>1, BoundsAreNaturals DEF FirstAfter, Instants
  <2>3. first > now \/ (sched[s].once /\ first = sched[s].at)
    BY FirstIsAhead
  <2>4. sched[s].once => first = sched[s].at
    BY DEF FirstAfter
  <2> HIDE DEF first
  <2>5. /\ row \in SchedRow /\ row.live = sched[s].live /\ row.once = sched[s].once
        /\ row.at = sched[s].at /\ row.next = first
    BY <2>2 DEF SchedRow
  <2> HIDE DEF row
  <2> QED
    BY <1>2, <1>6, <2>1, <2>3, <2>4, <2>5
<1>7. ASSUME NEW s \in Schedules, Delete(s) PROVE CatchInv'
  <2> DEFINE new == [sched[s] EXCEPT !.live = "deleted", !.enabled = FALSE, !.next = 0,
                                     !.rev = sched[s].rev + 1]
  <2>1. sched[s] \in SchedRow /\ sched' = [sched EXCEPT ![s] = new]
    BY <1>7 DEF Delete
  <2>2. /\ new.live = "deleted" /\ new.next = 0 /\ new.rev = sched[s].rev + 1
        /\ new.once = sched[s].once /\ new.at = sched[s].at
    BY <2>1 DEF SchedRow
  <2> HIDE DEF new
  <2>3. sched'[s] = new /\ \A x \in Schedules : x # s => sched'[x] = sched[x]
    BY <2>1
  <2>4. \A r \in RunIds :
            /\ runs'[r].sched = runs[r].sched /\ runs'[r].rev = runs[r].rev
            /\ runs'[r].nominal = runs[r].nominal
            /\ runs'[r].from = runs[r].from /\ runs'[r].to = runs[r].to
            /\ runs[r].sched # s \/ runs[r].state # "queued" => runs'[r] = runs[r]
    <3>1. \A r \in RunIds :
              \/ runs'[r] = runs[r]
              \/ /\ runs[r].sched = s /\ runs[r].state = "queued"
                 /\ runs'[r] = [runs[r] EXCEPT !.state = "cancelled"]
      BY <1>7 DEF Delete
    <3> QED
      BY <1>7, <3>1, CancelKeepsKeys
  <2>5. UNCHANGED <<now, runCount, pc, due, cur, stamp, pending, todo, head, wanted, fired>>
    BY <1>7 DEF Delete, loopVars, dispatchVars
  <2>6. NewRevision(s)
    BY <2>2, <2>3, <2>4, <2>5 DEF NewRevision
  <2> QED
    BY <1>7, <2>6, NewRevisionCatch
<1>8. now + 1 .. now + MaxAhead \subseteq Instants /\ \A a \in now + 1 .. now + MaxAhead : a > now
  BY BoundsAreNaturals DEF Instants, TypeOK
<1>9. \A s \in Schedules : sched[s].at \in Instants /\ sched[s].once \in BOOLEAN
  BY DEF TypeOK, SchedRow
<1> QED
  BY <1>3, <1>4, <1>5, <1>6, <1>7, <1>8, <1>9 DEF Owner

-----------------------------------------------------------------------------
(* The loop enqueues.                                                      *)

\* The tick's snapshot starts out equal to the schedules, and no row is beyond it.
LEMMA ReadDueCatch == ASSUME CatchInv, TypeOK', ReadDue PROVE CatchInv'
<1> USE CatchTypes DEF CatchInv
<1>1. TypeOK
  OBVIOUS
<1>2. /\ UNCHANGED <<now, sched, runs, runCount, cur, pending, todo, head, wanted, fired>>
      /\ stamp' = now /\ pc[Loop] = "idle"
      /\ pc'[Loop] \in {"scan", "pending"} /\ \A t \in Threads : t # Loop => pc'[t] = pc[t]
  BY <1>1 DEF ReadDue, dispatchVars
<1>3. /\ \A s \in Schedules : Placed(s)' /\ HasRow(s)'
      /\ \A r \in RunIds : RowReaches(r)' /\ RowStands(r)'
  BY <1>1, <1>2, RowsQuiet, QuietRows
<1>4. \A t \in Threads : HoldsMade(t)' /\ ReadBefore(t)'
  BY <1>2 DEF HoldsMade, ReadBefore
<1>5. ASSUME NEW d \in due'
      PROVE  /\ d.id \in Schedules /\ Live(d.id)
             /\ d = [id |-> d.id, once |-> sched[d.id].once, next |-> sched[d.id].next,
                     rev |-> sched[d.id].rev]
             /\ d.next # 0 /\ d.next <= now
  BY DEF ReadDue
<1>6. ASSUME NEW d \in due' PROVE DueFits(d)' /\ DueCovers(d)'
  <2>1. /\ d.id \in Schedules /\ Live(d.id) /\ d.once = sched[d.id].once
        /\ d.next = sched[d.id].next /\ d.rev = sched[d.id].rev /\ d.next # 0 /\ d.next <= now
    BY <1>5
  <2>2. /\ d.next \in Nat /\ d.once \in BOOLEAN /\ Placed(d.id) /\ sched[d.id].at \in Nat
        /\ d.rev \in Nat
    BY <1>1, <2>1
  <2>3. Last(d)' = IF d.once THEN d.next
                   ELSE IF now - d.next > CatchupScan THEN d.next + CatchupScan ELSE now
    BY <1>2 DEF Last
  <2>4. sched[d.id].once => Last(d)' <= sched[d.id].at
    BY <2>1, <2>2, <2>3 DEF Placed
  <2>5. DueFits(d)'
    BY <1>2, <2>1, <2>2, <2>4 DEF DueFits, Current, Live
  <2>6. ASSUME NEW r \in RunIds, runs[r].sched = d.id
        PROVE  runs[r].from <= d.next /\ AtMost(r, Last(d)')
    <3>1. /\ AtMost(r, now) /\ runs[r].from <= d.next
          /\ AtMost(r, IF d.once THEN d.next ELSE d.next + CatchupScan)
      BY <2>1, <2>6 DEF RowReaches, Reach
    <3> QED
      BY <1>1, <2>2, <2>3, <3>1 DEF AtMost
  <2>7. DueCovers(d)'
    BY <1>2, <2>6 DEF DueCovers, AtMost
  <2> QED
    BY <2>5, <2>7
<1>7. TickFits'
  <2>1. \A d, e \in due' : d.id = e.id => d = e
    BY <1>5
  <2> QED
    BY <1>1, <1>2, <2>1 DEF TickFits
<1>8. Unmade'
  BY <1>2 DEF Unmade
<1> QED
  BY <1>3, <1>4, <1>6, <1>7, <1>8

LEMMA ReadPendingCatch == ASSUME CatchInv, TypeOK', ReadPending PROVE CatchInv'
<1> USE CatchTypes DEF CatchInv
<1>1. TypeOK
  OBVIOUS
<1>2. /\ UNCHANGED <<now, sched, runs, runCount, due, stamp, todo, head, wanted, fired>>
      /\ pc'[Loop] = "write" /\ \A t \in Threads : t # Loop => pc'[t] = pc[t]
  BY <1>1 DEF ReadPending, dispatchVars
<1>3. /\ \A s \in Schedules : Placed(s)' /\ HasRow(s)'
      /\ \A r \in RunIds : RowReaches(r)' /\ RowStands(r)'
  BY <1>1, <1>2, RowsQuiet, QuietRows
<1>4. \A t \in Threads : HoldsMade(t)' /\ ReadBefore(t)'
  BY <1>2 DEF HoldsMade, ReadBefore
<1>5. \A d \in due' : DueFits(d)' /\ DueCovers(d)'
  BY <1>2 DEF DueFits, DueCovers, Current, Last, AtMost, Live
<1>6. TickFits'
  <2>1. PICK d \in due :
          /\ cur' = d
          /\ \/ pending' = NoRow
             \/ \E r \in Rows(d.id, {"queued"}) : pending' = [id |-> r, from |-> runs[r].from]
    BY DEF ReadPending
  <2>2. \A r \in RunIds : runs[r].state = "queued" => r <= runCount
    BY <1>1 DEF Unmade, NoRun, RunIds
  <2>3. pending'.id # 0 =>
            /\ pending'.id <= runCount
            /\ runs[pending'.id].sched = d.id /\ runs[pending'.id].from = pending'.from
    BY <2>1, <2>2 DEF Rows, NoRow
  <2> QED
    BY <1>2, <2>1, <2>3 DEF TickFits
<1>7. Unmade'
  BY <1>2 DEF Unmade
<1> QED
  BY <1>3, <1>4, <1>5, <1>6, <1>7

\* The schedule moves to the occurrence after the catch-up: beyond every row.
LEMMA AdvanceCatch == ASSUME CatchInv, TypeOK', AdvanceSchedule PROVE CatchInv'
<1> USE CatchTypes DEF CatchInv
<1>1. TypeOK
  OBVIOUS
<1>2. /\ UNCHANGED <<now, runs, runCount, stamp, todo, head, wanted, fired>>
      /\ due' = due \ {cur} /\ pc[Loop] = "advance" /\ cur \in due
      /\ pc'[Loop] \in {"scan", "pending"} /\ \A t \in Threads : t # Loop => pc'[t] = pc[t]
  BY <1>1 DEF AdvanceSchedule, TickFits, dispatchVars
<1> DEFINE s == cur.id
<1>3. /\ s \in Schedules /\ DueFits(cur) /\ DueCovers(cur) /\ cur.next <= stamp
      /\ Last(cur) \in Nat /\ cur.next <= Last(cur) /\ cur.next \in Nat /\ cur.once \in BOOLEAN
  BY <1>1, <1>2, LastBounds DEF DueFits
<1>4. /\ sched'[s].once = sched[s].once /\ sched'[s].at = sched[s].at
      /\ sched'[s].rev = sched[s].rev /\ sched'[s].live = sched[s].live
      /\ sched'[s].next = sched[s].next \/ sched'[s].next = (IF cur.once THEN 0 ELSE Last(cur) + 1)
      /\ \A x \in Schedules : x # s => sched'[x] = sched[x]
  BY <1>1, <1>3 DEF AdvanceSchedule, FollowUp, Latest, Last, SchedRow
<1> HIDE DEF s
<1>5. ASSUME NEW x \in Schedules PROVE Placed(x)' /\ HasRow(x)'
  <2>1. HasRow(x)'
    BY <1>2 DEF HasRow, Covers
  <2>2. sched[s].once /\ ~cur.once => Last(cur) + 1 <= sched[s].at
    BY <1>1, <1>3 DEF DueFits, s
  <2>3. Placed(x)'
    BY <1>2, <1>3, <1>4, <2>2 DEF Placed
  <2> QED
    BY <2>1, <2>3
<1>6. ASSUME NEW r \in RunIds PROVE RowReaches(r)' /\ RowStands(r)'
  <2>1. /\ RowReaches(r) /\ RowStands(r) /\ Covers(r)' = Covers(r)
        /\ (Dropped(r)' <=> Dropped(r))
    BY <1>2 DEF Covers, Dropped
  <2>2. CASE runs[r].sched # s \/ sched'[s].next = sched[s].next
    <3>1. /\ runs[r].sched \in Schedules /\ runs' = runs /\ now' = now
          /\ sched'[runs[r].sched].next = sched[runs[r].sched].next
          /\ sched'[runs[r].sched].once = sched[runs[r].sched].once
          /\ sched'[runs[r].sched].at = sched[runs[r].sched].at
          /\ sched'[runs[r].sched].rev = sched[runs[r].sched].rev
          /\ sched'[runs[r].sched].live = sched[runs[r].sched].live
      BY <1>1, <1>2, <1>4, <2>2
    <3>2. RowReaches(r)'
      BY <2>1, <3>1 DEF RowReaches, AtMost, Reach
    <3>3. RowStands(r)'
      BY <2>1, <3>1 DEF RowStands, Live
    <3> QED
      BY <3>2, <3>3
  <2>3. CASE runs[r].sched = s /\ sched'[s].next = (IF cur.once THEN 0 ELSE Last(cur) + 1)
    <3>1. /\ runs[r].from <= Last(cur) /\ runs[r].to <= Last(cur) /\ runs[r].nominal <= Last(cur)
      BY <1>3, <2>3 DEF DueCovers, AtMost, s
    <3>2. /\ runs[r].from \in Nat /\ runs[r].to \in Nat /\ runs[r].nominal \in Nat
      BY <1>1
    <3>3. sched'[s].next # 0 =>
              /\ runs[r].from <= sched'[s].next /\ runs[r].to <= sched'[s].next
              /\ runs[r].nominal < sched'[s].next
              /\ sched'[s].next \in Nat
      BY <1>3, <2>3, <3>1, <3>2
    <3>4. RowReaches(r)'
      <4>1. AtMost(r, now) /\ (sched[s].once => AtMost(r, sched[s].at))
        BY <2>1, <2>3 DEF RowReaches
      <4>2. sched'[s].next # 0 =>
                \A b \in {sched'[s].next, sched'[s].next + CatchupScan} :
                    runs[r].from <= b /\ runs[r].to <= b /\ runs[r].nominal <= b
        BY <1>1, <3>2, <3>3
      <4>3. sched'[s].once = sched[s].once /\ sched'[s].at = sched[s].at /\ runs' = runs /\ now' = now
        BY <1>2, <1>4
      <4> QED
        BY <2>3, <4>1, <4>2, <4>3 DEF RowReaches, AtMost, Reach
    <3>5. RowStands(r)'
      <4>1. /\ runs[r].rev <= sched[s].rev
            /\ Dropped(r) /\ sched[s].live = "live" => runs[r].rev # sched[s].rev
        BY <2>1, <2>3 DEF RowStands, Live
      <4>2. /\ sched'[s].rev = sched[s].rev /\ sched'[s].live = sched[s].live /\ runs' = runs
        BY <1>2, <1>4
      <4>3. sched'[s].next # 0 => runs[r].nominal < sched'[s].next
        BY <3>3
      <4> QED
        BY <2>1, <2>3, <4>1, <4>2, <4>3 DEF RowStands, Live
    <3> QED
      BY <3>4, <3>5
  <2> QED
    BY <1>4, <2>2, <2>3
<1>7. ASSUME NEW d \in due' PROVE DueFits(d)' /\ DueCovers(d)'
  <2>1. /\ d \in due /\ d.id # s /\ d.id \in Schedules /\ DueFits(d) /\ DueCovers(d)
        /\ Last(d)' = Last(d)
    BY <1>1, <1>2 DEF TickFits, Last, s
  <2>2. sched'[d.id] = sched[d.id]
    BY <1>4, <2>1
  <2>3. DueFits(d)'
    BY <1>2, <2>1, <2>2 DEF DueFits, Current, Live
  <2>4. DueCovers(d)'
    BY <1>2, <2>1 DEF DueCovers, AtMost
  <2> QED
    BY <2>3, <2>4
<1>8. TickFits'
  BY <1>2 DEF TickFits
<1>9. \A t \in Threads : HoldsMade(t)' /\ ReadBefore(t)'
  <2>1. \A t \in Threads : wanted[t].id \in Schedules
    BY <1>1 DEF TypeOK
  <2> QED
    BY <1>2, <1>4, <2>1 DEF HoldsMade, ReadBefore
<1>10. Unmade'
  BY <1>2 DEF Unmade
<1> QED
  BY <1>5, <1>6, <1>7, <1>8, <1>9, <1>10

-----------------------------------------------------------------------------
(* A row is made or extended.                                              *)

\* What a catch-up covers is in reach of the schedule, edited since or not.
LEMMA SnapshotReach ==
    ASSUME CatchInv, NEW d \in due
    PROVE  /\ Last(d) <= now
           /\ sched[d.id].next # 0 => d.next <= sched[d.id].next /\ Last(d) <= Reach(d.id)
           /\ sched[d.id].once => Last(d) <= sched[d.id].at
<1>1. TypeOK /\ stamp <= now /\ DueFits(d)
  BY DEF CatchInv, TickFits
<1>2. /\ Last(d) \in Nat /\ d.next <= Last(d) /\ Last(d) <= stamp /\ Last(d) <= d.next + CatchupScan
      /\ d.once => Last(d) = d.next
  BY <1>1, LastBounds DEF DueFits
<1>3. /\ now \in Nat /\ stamp \in Nat /\ CatchupScan \in Nat /\ d.next \in Nat
      /\ d.id \in Schedules /\ sched[d.id].next \in Nat
  BY <1>1, CatchTypes
<1>4. sched[d.id].next # 0 => d.next <= sched[d.id].next /\ Last(d) <= Reach(d.id)
  <2>1. CASE Current(d)
    BY <1>1, <1>2, <1>3, <2>1 DEF DueFits, Reach
  <2>2. CASE ~Current(d)
    BY <1>1, <1>2, <1>3, <2>2 DEF DueFits, Reach
  <2> QED
    BY <2>1, <2>2
<1> QED
  BY <1>1, <1>2, <1>3, <1>4 DEF DueFits

\* One row is written: the others and the schedules are as they were.
LEMMA OneRowCatch ==
    ASSUME CatchInv, TypeOK', Unmade', TickFits',
           NEW p \in RunIds, \A r \in RunIds : r # p => runs'[r] = runs[r],
           UNCHANGED <<now, sched, stamp, due>>,
           RowReaches(p)', RowStands(p)',
           \A d \in due : runs'[p].sched = d.id =>
               /\ runs'[p].from <= d.next /\ runs'[p].from <= Last(d)
               /\ runs'[p].to <= Last(d) /\ runs'[p].nominal <= Last(d)
               /\ Current(d) \/ runs'[p].rev # sched[d.id].rev \/ runs'[p].nominal = 0,
           \A s \in Schedules : Placed(s)' /\ HasRow(s)',
           \A t \in Threads : HoldsMade(t)' /\ ReadBefore(t)'
    PROVE  CatchInv'
<1> USE DEF CatchInv
<1>1. ASSUME NEW r \in RunIds, r # p PROVE RowReaches(r)' /\ RowStands(r)'
  BY <1>1 DEF RowReaches, RowStands, AtMost, Reach, Covers, Dropped, Live
<1>2. ASSUME NEW d \in due PROVE DueFits(d)' /\ DueCovers(d)'
  <2>1. Last(d)' = Last(d) /\ (Current(d)' <=> Current(d)) /\ DueFits(d) /\ DueCovers(d)
    BY DEF Last, Current
  <2>2. ASSUME ~Current(d), NEW r \in RunIds, runs'[r].sched = d.id,
               runs'[r].rev = sched[d.id].rev
        PROVE  runs'[r].nominal = 0
    BY <2>1, <2>2 DEF DueFits
  <2>3. DueFits(d)'
    BY <2>1, <2>2 DEF DueFits, Live
  <2>4. ASSUME NEW r \in RunIds, runs'[r].sched = d.id
        PROVE  /\ runs'[r].from <= d.next /\ runs'[r].from <= Last(d)
               /\ runs'[r].to <= Last(d) /\ runs'[r].nominal <= Last(d)
    BY <2>1, <2>4 DEF DueCovers, AtMost
  <2>5. DueCovers(d)'
    BY <2>1, <2>4 DEF DueCovers, AtMost
  <2> QED
    BY <2>3, <2>5
<1> QED
  BY <1>1, <1>2

\* A row of run_now stands for no occurrence.
LEMMA RunNowCatch == ASSUME CatchInv, NEW t \in Callers, RunNow(t) PROVE CatchInv'
<1>1. TypeOK' /\ TypeOK
  BY RunNowType DEF CatchInv
<1> USE <1>1, CatchTypes
<1>2. t # Loop /\ t \in Threads
  BY ThreadsDistinct DEF Threads
<1>3. ASSUME NEW s \in Schedules, RunNowCheck(t, s) PROVE CatchInv'
  <2>1. /\ UNCHANGED <<now, sched, runs, runCount, due, cur, stamp, pending, todo, head, fired>>
        /\ wanted' = [wanted EXCEPT ![t] = [id |-> s, rev |-> sched[s].rev]]
        /\ pc' = [pc EXCEPT ![t] = "create"]
    BY <1>3 DEF RunNowCheck, loopVars, dispatchVars
  <2>2. Quiet
    BY <1>2, <2>1, RowsQuiet DEF Quiet
  <2>3. Unmade' /\ \A k \in Threads : HoldsMade(k)'
    BY <2>1 DEF CatchInv, Unmade, HoldsMade
  <2>4. ASSUME NEW k \in Threads PROVE ReadBefore(k)'
    <3>1. wanted'[k] = IF k = t THEN [id |-> s, rev |-> sched[s].rev] ELSE wanted[k]
      BY <2>1 DEF TypeOK
    <3>2. ReadBefore(k) /\ sched[s].rev <= sched[s].rev
      BY DEF CatchInv
    <3> QED
      BY <2>1, <3>1, <3>2 DEF ReadBefore
  <2> QED
    BY <2>2, <2>3, <2>4, QuietCatch
<1>4. CASE RunNowCreate(t)
  <2>0. PICK p \in RunIds : p = runCount + 1
    BY <1>4, BoundsAreNaturals DEF RunNowCreate, RunIds, TypeOK
  <2> DEFINE row == [NoRun EXCEPT !.state = "queued", !.sched = wanted[t].id, !.rev = wanted[t].rev]
  <2>1. /\ row.sched = wanted[t].id /\ row.rev = wanted[t].rev /\ row.state = "queued"
        /\ row.from = 0 /\ row.to = 0 /\ row.nominal = 0
    BY DEF NoRun
  <2>2. /\ runCount' = p /\ p \in RunIds /\ runs' = [runs EXCEPT ![p] = row]
        /\ UNCHANGED <<now, sched, due, cur, stamp, pending, todo, head, wanted, fired>>
        /\ pc' = [pc EXCEPT ![t] = "scan"]
    BY <1>4, <2>0 DEF RunNowCreate, loopVars, dispatchVars
  <2> HIDE DEF row
  <2>3. /\ runs'[p].sched = wanted[t].id /\ runs'[p].rev = wanted[t].rev /\ runs'[p].state = "queued"
        /\ runs'[p].from = 0 /\ runs'[p].to = 0 /\ runs'[p].nominal = 0
        /\ \A r \in RunIds : r # p => runs'[r] = runs[r]
    BY <2>1, <2>2
  <2>4. wanted[t].id \in Schedules /\ wanted[t].rev <= sched[wanted[t].id].rev
    BY <1>2 DEF CatchInv, ReadBefore, TypeOK
  <2>5. RowReaches(p)'
    <3>1. /\ now \in Nat /\ sched[wanted[t].id].next \in Nat /\ sched[wanted[t].id].at \in Nat
          /\ CatchupScan \in Nat
      BY <2>4
    <3> QED
      BY ONLY <2>2, <2>3, <3>1 DEF RowReaches, AtMost, Reach
  <2>6. RowStands(p)'
    BY ONLY <2>2, <2>3, <2>4 DEF RowStands, Dropped
  <2>7. ASSUME NEW d \in due
        PROVE  0 <= d.next /\ 0 <= Last(d)
    <3>1. d.next \in Nat /\ d.next <= stamp
      BY DEF CatchInv, DueFits
    <3> QED
      BY <3>1, LastBounds
  <2>8. Unmade /\ TickFits /\ (\A s \in Schedules : Placed(s) /\ HasRow(s))
        /\ \A k \in Threads : HoldsMade(k) /\ ReadBefore(k)
    BY DEF CatchInv
  <2>9. /\ \A r \in RunIds : r > p => r > runCount /\ r # p
        /\ 1..runCount \subseteq 1..p /\ p \notin 1..runCount /\ 1..runCount \subseteq RunIds
        /\ \A r \in RunIds : r <= runCount => r <= p /\ r # p
    BY <2>0 DEF RunIds
  <2>10. Unmade'
    BY ONLY <2>2, <2>3, <2>8, <2>9 DEF Unmade
  <2>11. TickFits'
    <3>1. /\ pending.id # 0 => pending.id \in RunIds
          /\ pc'[Loop] = pc[Loop]
      BY <1>2, <2>2 DEF TypeOK
    <3> QED
      BY ONLY <2>2, <2>3, <2>8, <2>9, <3>1 DEF TickFits
  <2>12. ASSUME NEW s \in Schedules PROVE Placed(s)' /\ HasRow(s)'
    <3>1. \A r \in 1..runCount : runs'[r] = runs[r] /\ r \in 1..p
      BY ONLY <2>3, <2>9
    <3>2. HasRow(s)'
      BY ONLY <2>2, <2>8, <3>1, s \in Schedules DEF HasRow, Covers
    <3>3. Placed(s)'
      BY ONLY <2>2, <2>8, s \in Schedules DEF Placed
    <3> QED
      BY <3>2, <3>3
  <2>13. ASSUME NEW k \in Threads PROVE HoldsMade(k)' /\ ReadBefore(k)'
    <3>1. pc'[k] = pc[k] \/ pc'[k] = "scan"
      BY <2>2
    <3>2. HoldsMade(k)'
      BY ONLY <2>2, <2>8, <2>9, <3>1, k \in Threads DEF HoldsMade
    <3>3. ReadBefore(k)'
      BY ONLY <2>2, <2>8, k \in Threads DEF ReadBefore
    <3> QED
      BY <3>2, <3>3
  <2>14. CatchInv /\ TypeOK'
    OBVIOUS
  <2> QED
    BY ONLY <2>2, <2>3, <2>5, <2>6, <2>7, <2>10, <2>11, <2>12, <2>13, <2>14, OneRowCatch
<1> QED
  BY <1>3, <1>4 DEF RunNow

\* A row of the snapshot's schedule comes to cover the snapshot's occurrences: what the
\* history gains has a row, and the row is in reach of the schedule.
LEMMA CoveringCatch ==
    ASSUME CatchInv, TypeOK', pc[Loop] = "write", NEW p \in RunIds,
           \A r \in RunIds : r # p => runs'[r] = runs[r],
           runs'[p].sched = cur.id, runs'[p].from <= cur.next,
           runs'[p].to <= Last(cur), runs'[p].nominal <= Last(cur),
           cur.next .. Last(cur) \subseteq Covers(p)',
           RowStands(p)', p <= runCount',
           Current(cur) \/ runs'[p].rev # sched[cur.id].rev \/ runs'[p].nominal = 0,
           p <= runCount => runs'[p].sched = runs[p].sched /\ Covers(p) \subseteq Covers(p)',
           runCount' \in {runCount, p}, runCount <= runCount',
           UNCHANGED <<now, sched, due, cur, stamp, pending, todo, head, wanted>>,
           pc' = [pc EXCEPT ![Loop] = "advance"],
           fired' \in {fired, [fired EXCEPT ![cur.id] = @ \cup (cur.next .. Last(cur))]}
    PROVE  CatchInv'
<1>1. /\ TypeOK /\ Unmade /\ TickFits /\ cur \in due /\ DueFits(cur)
      /\ \A s \in Schedules : Placed(s) /\ HasRow(s)
      /\ \A t \in Threads : HoldsMade(t) /\ ReadBefore(t)
  BY DEF CatchInv, TickFits
<1>2. /\ now \in Nat /\ runCount \in Nat /\ CatchupScan \in Nat /\ Last(cur) \in Nat /\ cur.next \in Nat
      /\ cur.next <= Last(cur) /\ cur.id \in Schedules
      /\ fired \in [Schedules -> SUBSET Instants]
      /\ {runs'[p].from, runs'[p].to, runs'[p].nominal} \subseteq Nat
      /\ {sched[cur.id].next, sched[cur.id].at} \subseteq Nat
      /\ 1..runCount \subseteq RunIds
  <2>1. runs'[p] \in RunRow /\ Instants \subseteq Nat
    BY BoundsAreNaturals DEF TypeOK, Instants
  <2>2. {runs'[p].from, runs'[p].to, runs'[p].nominal} \subseteq Nat
    BY <2>1 DEF RunRow
  <2>3. fired \in [Schedules -> SUBSET Instants]
    BY <1>1 DEF TypeOK
  <2> QED
    BY <1>1, <2>2, <2>3, CatchTypes, LastBounds DEF DueFits
<1>3. /\ Last(cur) <= now
      /\ sched[cur.id].next # 0 => cur.next <= sched[cur.id].next /\ Last(cur) <= Reach(cur.id)
      /\ sched[cur.id].once => Last(cur) <= sched[cur.id].at
  BY <1>1, SnapshotReach
<1>4. RowReaches(p)'
  <2>1. runs'[p].from <= now /\ runs'[p].to <= now /\ runs'[p].nominal <= now
    BY <1>2, <1>3
  <2>2. sched[cur.id].next # 0 =>
            /\ runs'[p].from <= sched[cur.id].next /\ runs'[p].from <= Reach(cur.id)
            /\ runs'[p].to <= Reach(cur.id) /\ runs'[p].nominal <= Reach(cur.id)
    <3>1. Reach(cur.id) \in Nat
      BY <1>2 DEF Reach
    <3> QED
      BY <1>2, <1>3, <3>1
  <2>3. sched[cur.id].once =>
            /\ runs'[p].from <= sched[cur.id].at /\ runs'[p].to <= sched[cur.id].at
            /\ runs'[p].nominal <= sched[cur.id].at
    BY <1>2, <1>3
  <2> QED
    BY <2>1, <2>2, <2>3 DEF RowReaches, AtMost, Reach
<1>5. ASSUME NEW d \in due, runs'[p].sched = d.id
      PROVE  /\ runs'[p].from <= d.next /\ runs'[p].from <= Last(d)
             /\ runs'[p].to <= Last(d) /\ runs'[p].nominal <= Last(d)
             /\ Current(d) \/ runs'[p].rev # sched[d.id].rev \/ runs'[p].nominal = 0
  <2>1. d = cur
    BY <1>1, <1>5 DEF TickFits
  <2> QED
    BY <1>2, <2>1
<1>6. Unmade'
  BY <1>1, <1>2 DEF Unmade, RunIds
<1>7. TickFits'
  BY <1>1, <1>2, CatchTypes DEF TickFits
<1>8. ASSUME NEW s \in Schedules PROVE Placed(s)' /\ HasRow(s)'
  <2>1. Placed(s)'
    <3>1. CASE s = cur.id
      BY <1>1, <3>1 DEF Placed, DueFits
    <3>2. CASE s # cur.id
      <4>1. fired'[s] = fired[s]
        BY <1>2, <3>2
      <4> QED
        BY <1>1, <4>1 DEF Placed
    <3> QED
      BY <3>1, <3>2
  <2>2. ASSUME NEW o \in fired'[s]
        PROVE  \E r \in 1..runCount' : runs'[r].sched = s /\ o \in Covers(r)'
    <3>1. CASE o \in fired[s]
      <4>1. PICK r \in 1..runCount : runs[r].sched = s /\ o \in Covers(r)
        BY <1>1, <3>1 DEF HasRow
      <4>2. r \in 1..runCount' /\ r \in RunIds
        BY <1>2, <4>1
      <4>3. CASE r = p
        BY <4>1, <4>2, <4>3
      <4>4. CASE r # p
        <5>1. runs'[r] = runs[r]
          BY <4>2, <4>4
        <5>2. Covers(r)' = Covers(r)
          BY <5>1 DEF Covers
        <5> QED
          BY <4>1, <4>2, <5>1, <5>2
      <4> QED
        BY <4>3, <4>4
    <3>2. CASE o \notin fired[s]
      <4>1. s = cur.id /\ o \in cur.next .. Last(cur)
        BY <1>2, <2>2, <3>2
      <4>2. p \in 1..runCount'
        BY <1>2 DEF RunIds
      <4> QED
        BY <4>1, <4>2
    <3> QED
      BY <3>1, <3>2
  <2> QED
    BY <2>1, <2>2 DEF HasRow
<1>9. ASSUME NEW t \in Threads PROVE HoldsMade(t)' /\ ReadBefore(t)'
  <2>1. pc'[t] = pc[t] \/ pc'[t] = "advance"
    BY <1>1, CatchTypes
  <2>2. 1..runCount \subseteq 1..runCount'
    BY <1>2
  <2>3. HoldsMade(t)'
    BY <1>1, <2>1, <2>2 DEF HoldsMade
  <2>4. ReadBefore(t)'
    BY <1>1 DEF ReadBefore
  <2> QED
    BY <2>3, <2>4
<1> QED
  BY <1>4, <1>5, <1>6, <1>7, <1>8, <1>9, OneRowCatch

\* The three ways an occurrence is enqueued: folded into the oldest queued row, as a
\* row of its own, or found there already under the unique key.
LEMMA WriteRunCatch == ASSUME CatchInv, TypeOK', WriteRun PROVE CatchInv'
<1>1. /\ TypeOK /\ Unmade /\ TickFits /\ cur \in due /\ DueFits(cur) /\ DueCovers(cur)
      /\ \A r \in RunIds : RowStands(r)
  BY DEF CatchInv, TickFits, WriteRun
<1>2. /\ pc[Loop] = "write" /\ pc' = [pc EXCEPT ![Loop] = "advance"]
      /\ UNCHANGED <<now, sched, due, cur, stamp, pending, todo, head, wanted>>
  BY DEF WriteRun, loopVars, dispatchVars
<1>3. Latest = Last(cur)
  BY DEF Latest, Last
<1>4. fired' \in {fired, [fired EXCEPT ![cur.id] = @ \cup (cur.next .. Last(cur))]}
  BY <1>3 DEF WriteRun
<1>5. /\ Last(cur) \in Nat /\ cur.next <= Last(cur) /\ cur.next \in Nat /\ cur.next # 0
      /\ cur.id \in Schedules /\ cur.rev \in Nat /\ cur.rev <= sched[cur.id].rev /\ runCount \in Nat
      /\ sched[cur.id].once \in BOOLEAN /\ cur.once \in BOOLEAN
      /\ cur.once => Last(cur) = cur.next
  BY <1>1, CatchTypes, LastBounds DEF DueFits
<1>6. ASSUME pending.id # 0, Coalesce PROVE CatchInv'
  <2>1. PICK p \in RunIds : p = pending.id
    BY <1>1, <1>6 DEF TypeOK
  <2> DEFINE row == [runs[p] EXCEPT !.from = IF pending.from = 0 THEN cur.next ELSE pending.from,
                                    !.to = Last(cur)]
  <2>2. /\ runs[p] \in RunRow /\ p <= runCount /\ runs[p].sched = cur.id
        /\ runs[p].from = pending.from /\ runs[p].from <= cur.next /\ runs[p].to <= Last(cur)
        /\ runs[p].nominal <= Last(cur)
        /\ {runs[p].from, runs[p].to, runs[p].nominal} \subseteq Nat
    BY <1>1, <1>2, <1>6, <2>1, CatchTypes DEF TickFits, DueCovers, AtMost
  <2>3. /\ row.from = (IF pending.from = 0 THEN cur.next ELSE pending.from) /\ row.to = Last(cur)
        /\ row.nominal = runs[p].nominal /\ row.sched = runs[p].sched /\ row.rev = runs[p].rev
        /\ row.state = runs[p].state /\ row.job = runs[p].job
    BY <2>2 DEF RunRow
  <2>4. runs' = [runs EXCEPT ![p] = row] /\ runCount' = runCount
    BY <1>3, <1>6, <2>1 DEF Coalesce
  <2> HIDE DEF row
  <2>5. runs'[p] = row /\ \A r \in RunIds : r # p => runs'[r] = runs[r]
    BY <1>1, <2>4, CatchTypes
  <2>6. /\ runs'[p].from <= cur.next /\ runs'[p].from # 0 /\ runs'[p].from \in Nat
        /\ runs[p].from # 0 => runs'[p].from = runs[p].from
    BY <1>5, <2>2, <2>3, <2>5
  <2>7. Covers(p)' = {runs[p].nominal} \cup (runs'[p].from .. Last(cur))
    BY <2>3, <2>5, <2>6 DEF Covers
  <2>8. Covers(p) \subseteq Covers(p)' /\ cur.next .. Last(cur) \subseteq Covers(p)'
    BY <1>5, <2>2, <2>6, <2>7 DEF Covers
  <2>9. RowStands(p)'
    <3>1. RowStands(p) /\ (Dropped(p)' <=> Dropped(p))
      BY <1>1, <2>3, <2>5 DEF Dropped
    <3> QED
      BY <1>2, <2>3, <2>5, <2>8, <3>1 DEF RowStands, Live
  <2>10. Current(cur) \/ runs'[p].rev # sched[cur.id].rev \/ runs'[p].nominal = 0
    BY <1>1, <2>2, <2>3, <2>5 DEF DueFits
  <2> QED
    BY <1>2, <1>4, <1>5, <2>2, <2>3, <2>4, <2>5, <2>6, <2>8, <2>9, <2>10, CoveringCatch
<1>7. ASSUME Enqueue PROVE CatchInv'
  <2>1. PICK p \in RunIds : p = runCount + 1
    BY <1>1, <1>7, BoundsAreNaturals DEF Enqueue, RunIds, TypeOK
  <2>2. runs' = [runs EXCEPT ![p] = Occurrence] /\ runCount' = p
    BY <1>7, <2>1 DEF Enqueue
  <2>3. /\ Occurrence.sched = cur.id /\ Occurrence.rev = cur.rev /\ Occurrence.nominal = Last(cur)
        /\ Occurrence.state = "queued"
        /\ Occurrence.from = IF Last(cur) > cur.next THEN cur.next ELSE 0
        /\ Occurrence.to = IF Last(cur) > cur.next THEN Last(cur) ELSE 0
    BY <1>3 DEF Occurrence, NoRun
  <2>4. runs'[p] = Occurrence /\ \A r \in RunIds : r # p => runs'[r] = runs[r]
    BY <1>1, <2>2, CatchTypes
  <2>5. /\ runs'[p].sched = cur.id /\ runs'[p].from <= cur.next /\ runs'[p].to <= Last(cur)
        /\ runs'[p].nominal <= Last(cur)
    BY <1>5, <2>3, <2>4
  <2>6. cur.next .. Last(cur) \subseteq Covers(p)'
    BY <1>5, <2>3, <2>4 DEF Covers
  <2>7. Current(cur) \/ runs'[p].rev # sched[cur.id].rev \/ runs'[p].nominal = 0
    BY <2>3, <2>4 DEF Current
  <2>8. RowStands(p)'
    <3>1. /\ sched' = sched /\ runs'[p].sched = cur.id /\ runs'[p].rev = cur.rev
          /\ runs'[p].nominal = Last(cur) /\ runs'[p].state = "queued"
      BY <1>2, <2>3, <2>4
    <3>2. cur.rev = sched[cur.id].rev => sched[cur.id].next = cur.next
      BY <1>1 DEF DueFits, Current
    <3> QED
      BY <1>5, <2>6, <3>1, <3>2 DEF RowStands, Dropped
  <2>9. /\ runCount' \in {runCount, p} /\ runCount <= runCount' /\ p <= runCount'
        /\ ~(p <= runCount)
    BY <1>5, <2>1, <2>2
  <2> QED
    BY <1>2, <1>4, <2>4, <2>5, <2>6, <2>7, <2>8, <2>9, CoveringCatch
<1>8. ASSUME Duplicate, UNCHANGED <<runs, runCount>> PROVE CatchInv'
  <2>1. PICK p \in RunIds : /\ runs[p].state # "absent" /\ runs[p].nominal = Last(cur)
                            /\ runs[p].sched = cur.id /\ runs[p].rev = cur.rev
    BY <1>3, <1>8 DEF Duplicate
  <2>2. p <= runCount
    <3>1. NoRun.state = "absent"
      BY DEF NoRun
    <3> QED
      BY <1>1, <1>5, <2>1, <3>1 DEF Unmade, RunIds
  <2>3. runs[p].from <= cur.next /\ runs[p].to <= Last(cur)
    BY <1>1, <2>1 DEF DueCovers, AtMost
  <2>4. RowStands(p)' /\ Covers(p)' = Covers(p)
    BY <1>1, <1>2, <1>8 DEF RowStands, Covers, Dropped, Live
  <2>5. CASE Current(cur)
    <3>1. sched[cur.id].next = cur.next /\ sched[cur.id].once = cur.once
      BY <1>1, <2>5 DEF DueFits
    <3>2. Last(cur) \in Covers(p)
      BY <2>1 DEF Covers
    <3>3. cur.next .. Last(cur) \subseteq Covers(p)
      <4>1. CASE cur.once
        BY <1>5, <3>2, <4>1
      <4>2. CASE ~cur.once
        BY <1>1, <1>5, <2>1, <2>5, <3>1, <4>2 DEF RowStands, Current
      <4> QED
        BY <4>1, <4>2
    <3> QED
      BY <1>2, <1>4, <1>5, <1>8, <2>1, <2>2, <2>3, <2>4, <2>5, <3>3, CoveringCatch
  <2>6. CASE ~Current(cur)
    <3>1. fired' = fired
      BY <2>6 DEF WriteRun, Current
    <3>2. pc'[Loop] = "advance" /\ \A t \in Threads : t # Loop => pc'[t] = pc[t]
      BY <1>1, <1>2, CatchTypes
    <3>3. /\ \A s \in Schedules : Placed(s)' /\ HasRow(s)'
          /\ \A r \in RunIds : RowReaches(r)' /\ RowStands(r)'
      BY <1>1, <1>2, <1>8, <3>1, RowsQuiet, QuietRows, CatchTypes
    <3>4. \A t \in Threads : HoldsMade(t)' /\ ReadBefore(t)'
      BY <1>2, <1>8, <3>2 DEF CatchInv, HoldsMade, ReadBefore
    <3>5. \A d \in due' : DueFits(d)' /\ DueCovers(d)'
      BY <1>2, <1>8 DEF CatchInv, DueFits, DueCovers, Current, Last, AtMost, Live
    <3>6. TickFits' /\ Unmade'
      BY <1>1, <1>2, <1>8, <3>2 DEF TickFits, Unmade
    <3> QED
      BY <3>3, <3>4, <3>5, <3>6 DEF CatchInv
  <2> QED
    BY <2>5, <2>6
<1> QED
  BY <1>6, <1>7, <1>8 DEF WriteRun

-----------------------------------------------------------------------------
(* Every step, and the theorem.                                            *)

LEMMA InitCatch == Init => CatchInv
<1> SUFFICES ASSUME Init PROVE CatchInv
  OBVIOUS
<1>1. TypeOK
  BY InitType
<1>2. /\ \A r \in RunIds : runs[r] = NoRun
      /\ \A s \in Schedules : /\ sched[s].live = "none" /\ sched[s].rev = 0 /\ sched[s].next = 0
                              /\ ~sched[s].once /\ fired[s] = {}
      /\ due = {} /\ stamp = 0 /\ now = 1
      /\ \A t \in Threads : todo[t] = {} /\ pc[t] = "idle" /\ wanted[t].rev = 0
  BY DEF Init
<1>3. /\ NoRun.from = 0 /\ NoRun.to = 0 /\ NoRun.nominal = 0 /\ NoRun.rev = 0
      /\ NoRun.sched \in Schedules /\ NoRun.state = "absent"
  BY SomeSchedule DEF NoRun, AnySchedule
<1>4. ASSUME NEW r \in RunIds PROVE RowReaches(r) /\ RowStands(r)
  BY <1>2, <1>3 DEF RowReaches, RowStands, AtMost, Dropped
<1>5. ASSUME NEW s \in Schedules PROVE Placed(s) /\ HasRow(s)
  BY <1>2 DEF Placed, HasRow
<1>6. ASSUME NEW t \in Threads PROVE HoldsMade(t) /\ ReadBefore(t)
  <2>1. wanted[t].id \in Schedules
    BY <1>1 DEF TypeOK
  <2> QED
    BY <1>2, <2>1 DEF HoldsMade, ReadBefore
<1>7. Unmade /\ TickFits
  BY <1>2 DEF Unmade, TickFits, Threads
<1> QED
  BY <1>1, <1>2, <1>4, <1>5, <1>6, <1>7 DEF CatchInv

LEMMA NextCatch == ASSUME CatchInv, [Next]_vars PROVE CatchInv'
<1>1. CASE UNCHANGED vars
  <2>1. TypeOK' /\ UNCHANGED <<now, sched, runs, runCount, pc, due, cur, stamp, pending, todo, head,
                              wanted, fired>>
    BY <1>1 DEF CatchInv, TypeOK, Live, vars
  <2>2. Quiet
    BY <2>1, RowsQuiet, CatchTypes DEF CatchInv, Quiet
  <2>3. Unmade' /\ \A t \in Threads : HoldsMade(t)' /\ ReadBefore(t)'
    BY <2>1 DEF CatchInv, Unmade, HoldsMade, ReadBefore
  <2> QED
    BY <2>1, <2>2, <2>3, QuietCatch
<1>2. ASSUME Enqueuing PROVE CatchInv'
  <2>1. TypeOK'
    BY <1>2, EnqueuingType DEF CatchInv
  <2> QED
    BY <1>2, <2>1, ReadDueCatch, ReadPendingCatch, WriteRunCatch, AdvanceCatch DEF Enqueuing
<1>3. CASE Next
  BY <1>2, <1>3, TickCatch, OwnerCatch, DispatchingCatch, RunNowCatch, WorkingCatch, BackoffCatch,
     RestartCatch DEF Next
<1> QED
  BY <1>1, <1>3

\* The catch-up invariant holds in every state, whoever calls run_now and whatever dies.
THEOREM CatchInvariant == Spec => []CatchInv
<1>1. CatchInv /\ [Next]_vars => CatchInv'
  BY NextCatch
<1> QED
  BY <1>1, InitCatch, PTL DEF Spec

\* Catch-up loses nothing that an edit does not withdraw: an occurrence enqueued under
\* the schedule's revision is covered by a row, and that row is dropped before it
\* starts only when it is one of an older revision that the occurrence was folded into.
THEOREM CatchupLosesOnlyWithStaleRow == Spec => []OccurrenceLostOnlyWithStaleRow
<1>1. CatchInv => OccurrenceLostOnlyWithStaleRow
  <2> SUFFICES ASSUME CatchInv, NEW s \in Schedules, Live(s), NEW o \in fired[s]
               PROVE  \E r \in RunIds : /\ runs[r].sched = s /\ o \in Covers(r)
                                        /\ Dropped(r) => runs[r].rev # sched[s].rev
    BY DEF OccurrenceLostOnlyWithStaleRow
  <2>1. PICK r \in 1..runCount : runs[r].sched = s /\ o \in Covers(r)
    BY DEF CatchInv, HasRow
  <2>2. r \in RunIds /\ RowStands(r)
    BY CatchTypes DEF CatchInv
  <2> QED
    BY <2>1, <2>2 DEF RowStands
<1> QED
  BY <1>1, CatchInvariant, PTL
=============================================================================
