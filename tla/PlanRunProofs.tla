---------------------------- MODULE PlanRunProofs ----------------------------
(***************************************************************************)
(* Proofs about one job's plan, for any number of steering calls and tool  *)
(* calls and any limits: types and the plan's size, that a step runs on    *)
(* finished work, that a key is executed once, that an uncertain effect    *)
(* stays so, and that a crash in a call is visible.                        *)
(***************************************************************************)
EXTENDS PlanRun, SequenceTheorems, TLAPS

StepRec == [st : StepStates, deps : SUBSET Rows, attempt : 0..(RetryBudget + 1),
            ord : Nat, eff : {"none", "unknown"}]

RowRec == [st : StepStates \cup {"absent", "awaiting_confirm", "interrupted"},
           eff : {"none", "unknown"}]

DraftRec == [pc : {"idle", "append", "save", "over"}, deps : SUBSET Rows, ord : Nat,
             at : {0} \cup Rows]

-----------------------------------------------------------------------------
(* How the plan changes.                                                   *)

\* A function on an initial interval is a sequence.
LEMMA IntervalIsSeq ==
    ASSUME NEW S, NEW n \in Nat, NEW f \in [1..n -> S]
    PROVE  /\ f \in Seq(S) /\ Len(f) = n /\ DOMAIN f = 1..n
  BY SeqDef

\* The plan's domain, and what one entry is.
LEMMA PlanDomain ==
    ASSUME TypeOK
    PROVE  /\ steps \in Seq(StepRec)
           /\ Len(steps) \in Nat \ {0}
           /\ DOMAIN steps = 1..Len(steps)
           /\ DOMAIN steps \subseteq Rows
           /\ \A i \in DOMAIN steps : steps[i] \in StepRec
<1>1. steps \in Seq(StepRec) /\ 0 < Len(steps) /\ Len(steps) \in Rows
  BY DEF TypeOK, StepRec
<1>2. Len(steps) \in Nat /\ DOMAIN steps = 1..Len(steps)
  BY <1>1, LenProperties
<1>3. \A i \in DOMAIN steps : steps[i] \in StepRec
  BY <1>1, <1>2, ElementOfSeq
<1>4. DOMAIN steps \subseteq Rows
  BY <1>1, <1>2, PlanBounds DEF Rows
<1> QED
  BY <1>1, <1>2, <1>3, <1>4

\* One entry is replaced: the others and the length stay.
LEMMA PlanUpdate ==
    ASSUME TypeOK, NEW i \in DOMAIN steps, NEW e \in StepRec,
           steps' = [steps EXCEPT ![i] = e]
    PROVE  /\ steps' \in Seq(StepRec) /\ Len(steps') = Len(steps)
           /\ DOMAIN steps' = DOMAIN steps
           /\ steps'[i] = e
           /\ \A k \in DOMAIN steps : k # i => steps'[k] = steps[k]
<1>1. steps \in Seq(StepRec) /\ DOMAIN steps = 1..Len(steps)
  BY PlanDomain
<1>2. /\ [steps EXCEPT ![i] = e] \in Seq(StepRec)
      /\ Len([steps EXCEPT ![i] = e]) = Len(steps)
  BY <1>1, ExceptSeq
<1> QED
  BY <1>1, <1>2

\* Entries are appended: those that were there stay.
LEMMA PlanGrows ==
    ASSUME TypeOK, NEW e \in StepRec
    PROVE  /\ Append(steps, e) \in Seq(StepRec)
           /\ Len(Append(steps, e)) = Len(steps) + 1
           /\ DOMAIN Append(steps, e) = 1..(Len(steps) + 1)
           /\ \A k \in DOMAIN steps : Append(steps, e)[k] = steps[k]
           /\ Append(steps, e)[Len(steps) + 1] = e
<1>1. steps \in Seq(StepRec) /\ DOMAIN steps = 1..Len(steps) /\ Len(steps) \in Nat
  BY PlanDomain
<1> QED
  BY <1>1

-----------------------------------------------------------------------------
(* The invariant of the plan.                                              *)

Busy == {"exec", "tool", "called", "unsure", "verified", "repairing"}

\* The worker's step has begun an attempt and is not settled.
Attempted ==
    wpc \in Busy => /\ cur \in DOMAIN steps
                    /\ steps[cur].attempt > 0
                    /\ steps[cur].st = IF wpc = "verified" THEN "verifying" ELSE "running"

\* No other step is under way, and none where the worker chooses or has left.
OneAtATime ==
    \A i \in DOMAIN steps :
        steps[i].st \in {"running", "verifying"} => i = cur /\ wpc \notin {"top", "left"}

\* The registry lock: one steering call at a time is between its check and its save.
LockHeld ==
    \A s, t \in Steerers : /\ draft[s].pc \in {"append", "save"}
                           /\ draft[t].pc \in {"append", "save"}
                           => s = t

\* The room a repair and a steering call under way still take.
RepairRoom == IF wpc = "repairing" THEN 2 ELSE 0
SteeringRoom == IF \E s \in Steerers : draft[s].pc = "append" THEN 1 ELSE 0
Growth == Len(steps) + RepairRoom + SteeringRoom <= Limit + 2

Drafted == \A s \in Steerers : draft[s].pc = "save" => draft[s].at \in DOMAIN steps

\* Where the loop was left, every step it knew of is settled; where the job is done,
\* none of them failed.
Settled(states) ==
    left \in DOMAIN steps /\ \A i \in 1..left : steps[i].st \in states
LeftSettled == wpc = "left" => Settled({"completed", "failed", "cancelled"})
DoneSettled == job = "done" => wpc = "ended" /\ Settled({"completed", "cancelled"})

PlanInv ==
    /\ TypeOK /\ LockHeld /\ Growth /\ Drafted
    /\ Attempted /\ OneAtATime /\ DependenciesFirst
    /\ LeftSettled /\ DoneSettled

LEMMA PlanInit == Init => PlanInv
<1> SUFFICES ASSUME Init PROVE PlanInv
  OBVIOUS
<1> USE PlanBounds
<1>1. PICK n \in 1..InitialSteps :
        /\ steps = [i \in 1..n |-> Step({d \in {i - 1} : d > 0}, i - 1)]
        /\ stored = [i \in Rows |-> IF i <= n THEN [st |-> "queued", eff |-> "none"] ELSE NoRow]
  BY DEF Init
<1>2. n \in Nat /\ n \in Rows /\ n <= Limit /\ 0 < n
  BY DEF Rows
<1>3. \A i \in 1..n : Step({d \in {i - 1} : d > 0}, i - 1) \in StepRec
  <2> TAKE i \in 1..n
  <2>1. {d \in {i - 1} : d > 0} \in SUBSET Rows /\ i - 1 \in Nat
    BY <1>2 DEF Rows
  <2>2. 0 \in 0..(RetryBudget + 1)
    OBVIOUS
  <2> QED
    BY <2>1, <2>2 DEF Step, StepRec, StepStates
<1>4. steps \in [1..n -> StepRec]
  BY <1>1, <1>3
<1>5. steps \in Seq(StepRec) /\ Len(steps) = n /\ DOMAIN steps = 1..n
  BY <1>2, <1>4, IntervalIsSeq
<1>6. \A i \in DOMAIN steps : steps[i].st = "queued" /\ steps[i].attempt = 0
  BY <1>1, <1>5 DEF Step
<1>7. stored \in [Rows -> RowRec]
  BY <1>1 DEF RowRec, NoRow, StepStates
<1>8. TypeOK
  <2>1. draft \in [Steerers -> DraftRec]
    BY DEF Init, Draft, DraftRec
  <2>2. call \in [id : CallIds \cup {"none"}, mutation : BOOLEAN]
    BY DEF Init, NoCall
  <2>3. 0 < Len(steps) /\ Len(steps) \in Rows /\ cur \in 0..Len(steps) /\ calls \in 0..MaxCalls
    BY <1>2, <1>5 DEF Init
  <2>4. ledger \in [Keys -> ClaimStates] /\ ran \in [Keys -> Nat]
    BY DEF Init, ClaimStates
  <2> QED
    BY <1>5, <1>7, <2>1, <2>2, <2>3, <2>4
       DEF Init, TypeOK, StepRec, RowRec, DraftRec, WorkerLabels
<1>9. wpc = "top" /\ job = "active" /\ \A s \in Steerers : draft[s].pc = "idle"
  BY DEF Init, Draft
<1> QED
  BY <1>2, <1>5, <1>6, <1>8, <1>9
     DEF PlanInv, LockHeld, Growth, RepairRoom, SteeringRoom, Drafted, Attempted, Busy,
         OneAtATime, DependenciesFirst, LeftSettled, DoneSettled

-----------------------------------------------------------------------------
(* Steps that leave the plan alone.                                        *)

\* The thread moves, the plan and the steering calls do not.
LEMMA PlanRests ==
    ASSUME PlanInv, TypeOK', UNCHANGED <<steps, cur, left, draft>>,
           wpc' \in Busy => wpc \in Busy /\ (wpc' = "verified" <=> wpc = "verified"),
           wpc' \in {"top", "left"} => wpc' = wpc,
           wpc' = "repairing" => wpc = "repairing" \/ Len(steps) + 2 <= Limit,
           job' = "done" => job = "done" /\ wpc' = wpc
    PROVE  PlanInv'
<1> USE PlanBounds
<1>1. LockHeld' /\ Drafted'
  BY DEF PlanInv, LockHeld, Drafted
<1>2. Growth'
  <2>1. SteeringRoom' = SteeringRoom /\ SteeringRoom \in {0, 1}
    BY DEF SteeringRoom
  <2>2. Len(steps') = Len(steps) /\ Len(steps) \in Nat /\ Limit \in Nat
    BY PlanDomain DEF PlanInv
  <2>3. \/ RepairRoom' = RepairRoom
        \/ RepairRoom' = 0
        \/ RepairRoom' = 2 /\ Len(steps) + 2 <= Limit
    BY DEF RepairRoom
  <2>4. Len(steps) + RepairRoom + SteeringRoom <= Limit + 2 /\ RepairRoom \in {0, 2}
    BY DEF PlanInv, Growth, RepairRoom
  <2> QED
    BY <2>1, <2>2, <2>3, <2>4 DEF Growth
<1>3. Attempted' /\ OneAtATime'
  BY DEF PlanInv, Attempted, OneAtATime, Busy
<1>4. DependenciesFirst'
  BY DEF PlanInv, DependenciesFirst, With
<1>5. LeftSettled' /\ DoneSettled'
  BY DEF PlanInv, LeftSettled, DoneSettled, Settled
<1> QED
  BY <1>1, <1>2, <1>3, <1>4, <1>5 DEF PlanInv

LEMMA ControlStep ==
    ASSUME PlanInv, LoopCancelled \/ RecordCrash \/ Cancel PROVE PlanInv'
<1>1. TypeOK'
  BY DEF PlanInv, TypeOK, LoopCancelled, RecordCrash, Cancel, planVars, effectVars, WorkerLabels
<1>2. UNCHANGED <<steps, cur, left, draft>>
  BY DEF LoopCancelled, RecordCrash, Cancel, planVars
<1>3. /\ wpc' = wpc \/ wpc' = "ended"
      /\ job' = "done" => job = "done" /\ wpc' = wpc
  BY DEF PlanInv, DoneSettled, LoopCancelled, RecordCrash, Cancel
<1> QED
  BY <1>1, <1>2, <1>3, PlanRests DEF PlanInv, Attempted, Busy

\* A call of the runner changes nothing but the row, the call and the ledger.
LEMMA CallTypes ==
    ASSUME TypeOK, UNCHANGED <<steps, job, cancel, cur, base, left, draft>>,
           stored' \in [Rows -> RowRec], wpc' \in WorkerLabels,
           call' \in [id : CallIds \cup {"none"}, mutation : BOOLEAN],
           calls' \in 0..MaxCalls,
           ledger' \in [Keys -> ClaimStates], ran' \in [Keys -> Nat]
    PROVE  TypeOK'
  BY DEF TypeOK, RowRec

LEMMA UnsureType == ASSUME TypeOK, Unsure(cur) PROVE stored' \in [Rows -> RowRec]
  BY DEF TypeOK, Unsure, RowRec

\* One entry of a table is set, or counted up; a key outside of it changes nothing.
LEMMA TableSet ==
    ASSUME NEW K, NEW S, NEW f \in [K -> S], NEW x, NEW v \in S
    PROVE  [f EXCEPT ![x] = v] \in [K -> S]
  OBVIOUS

LEMMA TableCount ==
    ASSUME NEW K, NEW f \in [K -> Nat], NEW x
    PROVE  [f EXCEPT ![x] = f[x] + 1] \in [K -> Nat]
<1>1. CASE x \in K
  <2>1. f[x] + 1 \in Nat
    BY <1>1
  <2> QED
    BY <2>1
<1>2. CASE x \notin K
  BY <1>2
<1> QED
  BY <1>1, <1>2

LEMMA CallStep == ASSUME PlanInv, Calling PROVE PlanInv'
<1> USE PlanBounds
<1>0. /\ TypeOK /\ stored \in [Rows -> RowRec] /\ wpc \in WorkerLabels
      /\ call \in [id : CallIds \cup {"none"}, mutation : BOOLEAN]
      /\ NoCall \in [id : CallIds \cup {"none"}, mutation : BOOLEAN]
      /\ calls \in 0..MaxCalls
      /\ ledger \in [Keys -> ClaimStates] /\ ran \in [Keys -> Nat]
  BY DEF PlanInv, TypeOK, RowRec, NoCall
<1>1. ASSUME NEW id \in CallIds, NEW mutation \in BOOLEAN, Claim(id, mutation) PROVE PlanInv'
  <2>1. /\ wpc = "exec" /\ wpc' = "tool" /\ UNCHANGED <<steps, stored, job, cancel, cur, base>>
        /\ UNCHANGED <<left, draft, ran>>
    BY <1>1 DEF Claim, planVars
  <2>2. /\ call' \in [id : CallIds \cup {"none"}, mutation : BOOLEAN]
        /\ ledger' \in [Keys -> ClaimStates] /\ calls' \in 0..MaxCalls
    <3>1. call' \in [id : CallIds \cup {"none"}, mutation : BOOLEAN]
      BY <1>1 DEF Claim
    <3>2. ledger' \in [Keys -> ClaimStates]
      <4>1. ledger' = [ledger EXCEPT ![<<cur, id>>] = "in_progress"] /\ "in_progress" \in ClaimStates
        BY <1>1 DEF Claim, ClaimStates
      <4> QED
        BY <1>0, <4>1, TableSet
    <3>3. calls' \in 0..MaxCalls
      <4>1. calls' = calls + 1 /\ calls < MaxCalls
        BY <1>1 DEF Claim
      <4> QED
        BY <1>0, <4>1
    <3> QED
      BY <3>1, <3>2, <3>3
  <2>3. TypeOK'
    BY <1>0, <2>1, <2>2, CallTypes DEF WorkerLabels
  <2> QED
    BY <2>1, <2>3, PlanRests DEF Busy, PlanInv, DoneSettled
<1>2. ASSUME NEW id \in CallIds, ClaimUncertain(id) PROVE PlanInv'
  <2>1. /\ UNCHANGED <<steps, job, cancel, wpc, cur, base, left, draft>>
        /\ UNCHANGED <<call, calls, ledger, ran>> /\ Unsure(cur)
    BY <1>2 DEF ClaimUncertain, effectVars
  <2>2. TypeOK'
    <3>1. stored' \in [Rows -> RowRec]
      BY <1>0, <2>1, UnsureType
    <3> QED
      BY <1>0, <2>1, <3>1, CallTypes
  <2> QED
    BY <2>1, <2>2, PlanRests
<1>3. CASE RunTool
  <2>1. /\ wpc = "tool" /\ wpc' = "called"
        /\ UNCHANGED <<steps, stored, job, cancel, cur, base, left, draft, call, calls, ledger>>
    BY <1>3 DEF RunTool, planVars
  <2>2. ran' \in [Keys -> Nat]
    <3>1. ran' = [ran EXCEPT ![Key] = ran[Key] + 1]
      BY <1>3 DEF RunTool
    <3> QED
      BY <1>0, <3>1, TableCount
  <2>3. TypeOK'
    BY <1>0, <2>1, <2>2, CallTypes DEF WorkerLabels
  <2> QED
    BY <2>1, <2>3, PlanRests DEF Busy, PlanInv, DoneSettled
<1>4. CASE MarkUnsure
  <2>1. /\ wpc = "unsure" /\ wpc' = "exec" /\ Unsure(cur) /\ call' = NoCall
        /\ UNCHANGED <<steps, job, cancel, cur, base, left, draft, calls, ledger, ran>>
    BY <1>4 DEF MarkUnsure
  <2>2. TypeOK'
    <3>1. stored' \in [Rows -> RowRec]
      BY <1>0, <2>1, UnsureType
    <3> QED
      BY <1>0, <2>1, <3>1, CallTypes DEF WorkerLabels
  <2> QED
    BY <2>1, <2>2, PlanRests DEF Busy, PlanInv, DoneSettled
<1>5. ASSUME NEW ok \in BOOLEAN, Settle(ok) PROVE PlanInv'
  <2>1. /\ wpc = "called" /\ wpc' \in {"unsure", "exec"}
        /\ call' = call \/ call' = NoCall
        /\ UNCHANGED <<steps, stored, job, cancel, cur, base, left, draft, calls, ran>>
    BY <1>5 DEF Settle, planVars
  <2>2. ledger' \in [Keys -> ClaimStates]
    BY <1>0, <1>5 DEF Settle, Disposition, ClaimStates
  <2>3. TypeOK'
    BY <1>0, <2>1, <2>2, CallTypes DEF WorkerLabels
  <2> QED
    BY <2>1, <2>3, PlanRests DEF Busy, PlanInv, DoneSettled
<1> QED
  BY <1>1, <1>2, <1>3, <1>4, <1>5 DEF Calling

-----------------------------------------------------------------------------
(* Steps that change the worker's step.                                    *)

LEMMA RowType ==
    ASSUME TypeOK, NEW i \in DOMAIN steps', steps'[i] \in StepRec
    PROVE  [stored EXCEPT ![i] = Row(i, steps')] \in [Rows -> RowRec]
<1>1. Row(i, steps') \in RowRec
  BY DEF Row, StepRec, RowRec
<1>2. stored \in [Rows -> RowRec]
  BY DEF TypeOK, RowRec
<1> QED
  BY <1>1, <1>2, TableSet

LEMMA SaveType ==
    ASSUME TypeOK, NEW i \in DOMAIN steps', steps'[i] \in StepRec, NEW next,
           Save(i, steps', next)
    PROVE  stored' \in [Rows -> RowRec] /\ wpc' \in {next, "crashed"}
<1>1. CASE Clash(i, steps')
  BY <1>1 DEF Save, TypeOK, RowRec
<1>2. CASE ~Clash(i, steps')
  BY <1>2, RowType DEF Save
<1> QED
  BY <1>1, <1>2

\* The entry of the worker's step changes, its row is saved.
LEMMA EntryMoves ==
    ASSUME PlanInv, NEW i \in DOMAIN steps, NEW e \in StepRec,
           steps' = [steps EXCEPT ![i] = e],
           NEW next \in {"exec", "verified", "top"}, Save(i, steps', next), cur' = i,
           UNCHANGED <<job, cancel, base, effectVars, left, draft>>,
           wpc \in {"top", "exec", "verified"},
           steps[i].st # "completed", e.deps = steps[i].deps,
           e.attempt > 0 => steps[i].deps \subseteq With("completed"),
           next = "exec" => e.attempt > 0 /\ e.st = "running",
           next = "verified" => e.attempt > 0 /\ e.st = "verifying",
           next = "top" => e.st \notin {"running", "verifying"},
           \A k \in DOMAIN steps : steps[k].st \in {"running", "verifying"} => k = i
    PROVE  PlanInv'
<1> USE PlanBounds
<1>1. /\ steps' \in Seq(StepRec) /\ Len(steps') = Len(steps)
      /\ DOMAIN steps' = DOMAIN steps
      /\ steps'[i] = e
      /\ \A k \in DOMAIN steps : k # i => steps'[k] = steps[k]
  BY PlanUpdate DEF PlanInv
<1>2. stored' \in [Rows -> RowRec] /\ wpc' \in {next, "crashed"}
  BY <1>1, SaveType DEF PlanInv
<1>3. DOMAIN steps = 1..Len(steps) /\ Len(steps) \in Nat
  BY PlanDomain DEF PlanInv
<1>4. TypeOK'
  <2>1. cur' \in 0..Len(steps')
    BY <1>1, <1>3
  <2>2. wpc' \in WorkerLabels
    BY <1>2 DEF WorkerLabels
  <2> QED
    BY <1>1, <1>2, <2>1, <2>2 DEF PlanInv, TypeOK, StepRec, RowRec, effectVars
<1>5. LockHeld' /\ Drafted'
  BY <1>1 DEF PlanInv, LockHeld, Drafted
<1>6. Growth'
  <2>1. RepairRoom = 0 /\ RepairRoom' = 0 /\ SteeringRoom' = SteeringRoom
    BY <1>2 DEF RepairRoom, SteeringRoom
  <2> QED
    BY <1>1, <2>1 DEF PlanInv, Growth
<1>7. Attempted' /\ OneAtATime'
  <2>1. wpc' = next \/ wpc' = "crashed"
    BY <1>2
  <2> QED
    BY <1>1, <2>1 DEF Attempted, OneAtATime, Busy
<1>8. DependenciesFirst'
  <2>1. With("completed") \subseteq With("completed")'
    BY <1>1 DEF With
  <2>2. \A k \in DOMAIN steps' : steps'[k].deps = steps[k].deps
    BY <1>1
  <2>3. \A k \in DOMAIN steps' : steps'[k].attempt > 0 => steps[k].deps \subseteq With("completed")
    BY <1>1 DEF PlanInv, DependenciesFirst
  <2> QED
    BY <1>1, <2>1, <2>2, <2>3 DEF DependenciesFirst
<1>9. LeftSettled' /\ DoneSettled'
  BY <1>2 DEF PlanInv, LeftSettled, DoneSettled
<1> QED
  BY <1>4, <1>5, <1>6, <1>7, <1>8, <1>9 DEF PlanInv

LEMMA Picked == ASSUME PlanInv, PickStep PROVE PlanInv'
<1> USE PlanBounds
<1>1. PICK i \in DOMAIN steps :
        /\ First({k \in DOMAIN steps : Ready(k)}, i)
        /\ cur' = i
        /\ Attempt(i, 1)
        /\ Save(i, steps', "exec")
  BY DEF PickStep
<1> DEFINE e == [steps[i] EXCEPT !.st = "running", !.attempt = 1]
<1>2. wpc = "top" /\ UNCHANGED <<job, cancel, base, effectVars, left, draft>>
  BY DEF PickStep
<1>3. steps[i] \in StepRec
  BY PlanDomain DEF PlanInv
<1>4. /\ e \in StepRec /\ e.deps = steps[i].deps /\ e.attempt = 1 /\ e.st = "running"
  <2>1. 1 \in 0..(RetryBudget + 1)
    OBVIOUS
  <2> QED
    BY <1>3, <2>1 DEF StepRec, StepStates
<1>5. steps[i].st = "queued" /\ steps[i].deps \subseteq With("completed")
  BY <1>1 DEF First, Ready
<1>6. \A k \in DOMAIN steps : steps[k].st \notin {"running", "verifying"}
  BY <1>2 DEF PlanInv, OneAtATime
<1>7. steps' = [steps EXCEPT ![i] = e]
  BY <1>1 DEF Attempt
<1>8. /\ Save(i, steps', "exec") /\ cur' = i /\ steps[i].st # "completed" /\ e.attempt > 0
      /\ \A k \in DOMAIN steps : steps[k].st \in {"running", "verifying"} => k = i
  BY <1>1, <1>4, <1>5, <1>6
<1> HIDE DEF e
<1> QED
  BY <1>2, <1>4, <1>5, <1>7, <1>8, EntryMoves

\* What the worker's step is while it is under way.
LEMMA Under ==
    ASSUME PlanInv, wpc \in Busy
    PROVE  /\ cur \in DOMAIN steps /\ steps[cur] \in StepRec
           /\ steps[cur].attempt > 0 /\ steps[cur].deps \subseteq With("completed")
           /\ steps[cur].st \in {"running", "verifying"}
           /\ \A k \in DOMAIN steps : steps[k].st \in {"running", "verifying"} => k = cur
<1>1. cur \in DOMAIN steps /\ steps[cur].attempt > 0 /\ steps[cur].st \in {"running", "verifying"}
  BY DEF PlanInv, Attempted
<1>2. steps[cur] \in StepRec
  BY <1>1, PlanDomain DEF PlanInv
<1>3. steps[cur].deps \subseteq With("completed")
  BY <1>1 DEF PlanInv, DependenciesFirst
<1>4. \A k \in DOMAIN steps : steps[k].st \in {"running", "verifying"} => k = cur
  BY DEF PlanInv, OneAtATime
<1> QED
  BY <1>1, <1>2, <1>3, <1>4

\* The step's state changes.
LEMMA StateMoves ==
    ASSUME PlanInv, wpc \in {"exec", "verified"}, NEW st \in StepStates,
           NEW next \in {"verified", "top"}, SetStep(cur, st), Save(cur, steps', next),
           UNCHANGED <<job, cancel, cur, base, effectVars, left, draft>>,
           next = "verified" => st = "verifying",
           next = "top" => st \notin {"running", "verifying"}
    PROVE  PlanInv'
<1> DEFINE e == [steps[cur] EXCEPT !.st = st]
<1>1. /\ cur \in DOMAIN steps /\ steps[cur] \in StepRec
      /\ steps[cur].attempt > 0 /\ steps[cur].deps \subseteq With("completed")
      /\ steps[cur].st \in {"running", "verifying"}
      /\ \A k \in DOMAIN steps : steps[k].st \in {"running", "verifying"} => k = cur
  BY Under DEF Busy
<1>2. e \in StepRec /\ e.deps = steps[cur].deps /\ e.attempt = steps[cur].attempt /\ e.st = st
  BY <1>1 DEF StepRec
<1>3. steps' = [steps EXCEPT ![cur] = e]
  BY DEF SetStep
<1> HIDE DEF e
<1> QED
  BY <1>1, <1>2, <1>3, EntryMoves

LEMMA SettleStep == ASSUME PlanInv, Verify \/ Complete PROVE PlanInv'
<1>1. CASE Verify
  BY <1>1, StateMoves DEF Verify, StepStates
<1>2. CASE Complete
  BY <1>2, StateMoves DEF Complete, StepStates
<1> QED
  BY <1>1, <1>2

LEMMA RetryStep ==
    ASSUME PlanInv, NEW retryable, NEW unknown, Retry(retryable, unknown) PROVE PlanInv'
<1> USE PlanBounds
<1> DEFINE e == [steps[cur] EXCEPT !.st = "running", !.attempt = steps[cur].attempt + 1]
<1>1. /\ cur \in DOMAIN steps /\ steps[cur] \in StepRec
      /\ steps[cur].attempt > 0 /\ steps[cur].deps \subseteq With("completed")
      /\ steps[cur].st \in {"running", "verifying"}
      /\ \A k \in DOMAIN steps : steps[k].st \in {"running", "verifying"} => k = cur
  BY Under DEF Retry, Busy
<1>2. /\ steps[cur].attempt \in Nat /\ steps[cur].attempt <= RetryBudget
  BY <1>1 DEF Retry, MayRetry, StepRec
<1>3. steps[cur].attempt + 1 \in 0..(RetryBudget + 1) /\ steps[cur].attempt + 1 > 0
  BY <1>2
<1>4. /\ e \in StepRec /\ e.deps = steps[cur].deps
      /\ e.attempt = steps[cur].attempt + 1 /\ e.st = "running"
  BY <1>1, <1>3 DEF StepRec, StepStates
<1>5. steps' = [steps EXCEPT ![cur] = e] /\ Save(cur, steps', "exec") /\ wpc = "exec"
  BY DEF Retry, Attempt
<1>6. UNCHANGED <<job, cancel, cur, base, effectVars, left, draft>>
  BY DEF Retry
<1> HIDE DEF e
<1> QED
  BY <1>1, <1>3, <1>4, <1>5, <1>6, EntryMoves

LEMMA FailStep ==
    ASSUME PlanInv, NEW retryable, NEW unknown, NEW rejected,
           StepFails(retryable, unknown, rejected)
    PROVE  PlanInv'
<1> USE PlanBounds
<1>1. CASE rejected /\ Len(steps) + 2 <= Limit
  <2>1. /\ wpc = "exec" /\ wpc' = "repairing" /\ base' = Len(steps)
        /\ UNCHANGED <<planVars, job, cancel, cur, effectVars, left, draft>>
    BY <1>1 DEF StepFails
  <2>2. base' \in Nat
    BY <2>1, PlanDomain DEF PlanInv
  <2>3. TypeOK'
    BY <2>1, <2>2 DEF PlanInv, TypeOK, planVars, effectVars, WorkerLabels
  <2> QED
    BY <1>1, <2>1, <2>3, PlanRests DEF planVars, PlanInv, DoneSettled, Busy
<1>2. CASE ~(rejected /\ Len(steps) + 2 <= Limit)
  BY <1>2, StateMoves DEF StepFails, GiveUp, StepStates
<1> QED
  BY <1>1, <1>2

-----------------------------------------------------------------------------
(* The loop's end, steering and a restart.                                 *)

LEMMA LeaveStep == ASSUME PlanInv, LeaveLoop PROVE PlanInv'
<1> USE PlanBounds
<1>1. /\ wpc = "top" /\ With("queued") = {} /\ wpc' = "left" /\ left' = Len(steps)
      /\ UNCHANGED <<planVars, job, cancel, cur, base, effectVars, draft>>
  BY DEF LeaveLoop
<1>2. /\ Len(steps) \in Nat \ {0} /\ DOMAIN steps = 1..Len(steps) /\ Len(steps) \in Rows
      /\ \A i \in DOMAIN steps : steps[i] \in StepRec
  BY PlanDomain DEF PlanInv, TypeOK
<1>3. TypeOK'
  BY <1>1, <1>2 DEF PlanInv, TypeOK, planVars, effectVars, WorkerLabels
<1>4. LockHeld' /\ Growth' /\ Drafted'
  BY <1>1 DEF PlanInv, LockHeld, Growth, RepairRoom, SteeringRoom, Drafted, planVars
<1>5. Attempted' /\ OneAtATime' /\ DependenciesFirst'
  BY <1>1 DEF PlanInv, Attempted, OneAtATime, DependenciesFirst, Busy, With, planVars
<1>6. LeftSettled'
  <2>1. \A i \in DOMAIN steps : steps[i].st \in {"completed", "failed", "cancelled"}
    BY <1>1, <1>2 DEF PlanInv, OneAtATime, With, StepRec, StepStates
  <2> QED
    BY <1>1, <1>2, <2>1 DEF LeftSettled, Settled, planVars
<1>7. DoneSettled'
  BY <1>1 DEF PlanInv, DoneSettled
<1> QED
  BY <1>3, <1>4, <1>5, <1>6, <1>7 DEF PlanInv

LEMMA RecordStep == ASSUME PlanInv, Record PROVE PlanInv'
<1>1. /\ wpc = "left" /\ wpc' = "ended"
      /\ job' = IF cancel THEN job ELSE IF Succeeded THEN "done" ELSE "failed"
      /\ UNCHANGED <<planVars, cancel, cur, base, effectVars, left, draft>>
  BY DEF Record
<1>2. TypeOK'
  BY <1>1 DEF PlanInv, TypeOK, planVars, effectVars, WorkerLabels
<1>3. LockHeld' /\ Growth' /\ Drafted'
  BY <1>1 DEF PlanInv, LockHeld, Growth, RepairRoom, SteeringRoom, Drafted, planVars
<1>4. Attempted' /\ OneAtATime' /\ DependenciesFirst' /\ LeftSettled'
  BY <1>1 DEF PlanInv, Attempted, OneAtATime, DependenciesFirst, Busy, With, LeftSettled, planVars
<1>5. DoneSettled'
  <2>1. CASE job' = "done"
    <3>1. With("failed") = {}
      BY <1>1, <2>1 DEF Succeeded, PlanInv, DoneSettled
    <3>2. left \in DOMAIN steps /\ \A i \in 1..left : steps[i].st \in {"completed", "failed", "cancelled"}
      BY <1>1 DEF PlanInv, LeftSettled, Settled
    <3>3. 1..left \subseteq DOMAIN steps
      BY <3>2, PlanDomain DEF PlanInv
    <3>4. \A i \in 1..left : steps[i].st \in {"completed", "cancelled"}
      BY <3>1, <3>2, <3>3 DEF With
    <3> QED
      BY <1>1, <3>2, <3>4 DEF DoneSettled, Settled, planVars
  <2>2. CASE job' # "done"
    BY <2>2 DEF DoneSettled
  <2> QED
    BY <2>1, <2>2
<1> QED
  BY <1>2, <1>3, <1>4, <1>5 DEF PlanInv

LEMMA RestartStep == ASSUME PlanInv, Restart PROVE PlanInv'
<1>1. /\ job' = IF job = "active" THEN "interrupted" ELSE job
      /\ wpc' = "ended" /\ call' = NoCall
      /\ draft' = [s \in Steerers |-> Draft("over")]
      /\ UNCHANGED <<steps, cancel, cur, base, calls, ledger, ran, left>>
  BY DEF Restart
<1>2. stored' \in [Rows -> RowRec]
  <2>1. stored \in [Rows -> RowRec]
    BY DEF PlanInv, TypeOK, RowRec
  <2>2. \A i \in Rows : [st |-> "interrupted", eff |-> Recovered(stored[i])] \in RowRec
    BY <2>1 DEF Recovered, RowRec
  <2> QED
    BY <2>1, <2>2 DEF Restart
<1>3. draft' \in [Steerers -> DraftRec]
  BY <1>1 DEF Draft, DraftRec
<1>4. TypeOK'
  BY <1>1, <1>2, <1>3 DEF PlanInv, TypeOK, RowRec, DraftRec, WorkerLabels, NoCall
<1>5. \A s \in Steerers : draft'[s].pc = "over"
  BY <1>1 DEF Draft
<1>6. LockHeld' /\ Drafted'
  BY <1>5 DEF LockHeld, Drafted
<1>7. Growth'
  <2>1. RepairRoom' = 0 /\ SteeringRoom' = 0
    BY <1>1, <1>5 DEF RepairRoom, SteeringRoom
  <2>2. RepairRoom \in {0, 2} /\ SteeringRoom \in {0, 1} /\ Len(steps) \in Nat
    BY PlanDomain DEF RepairRoom, SteeringRoom, PlanInv
  <2> QED
    BY <1>1, <2>1, <2>2, PlanBounds DEF PlanInv, Growth
<1>8. Attempted' /\ OneAtATime' /\ DependenciesFirst'
  BY <1>1 DEF PlanInv, Attempted, OneAtATime, DependenciesFirst, Busy, With
<1>9. LeftSettled' /\ DoneSettled'
  BY <1>1 DEF PlanInv, LeftSettled, DoneSettled, Settled
<1> QED
  BY <1>4, <1>6, <1>7, <1>8, <1>9 DEF PlanInv

LEMMA SteerStep == ASSUME PlanInv, NEW s \in Steerers, Steer(s) PROVE PlanInv'
<1> USE PlanBounds
<1> DEFINE d == [pc |-> "append", deps |-> With("running") \cup With("completed"),
                 ord |-> Len(steps), at |-> 0]
<1>1. /\ LockFree /\ Len(steps) < Limit
      /\ draft' = [draft EXCEPT ![s] = d]
      /\ UNCHANGED <<planVars, job, cancel, wpc, cur, base, effectVars, left>>
  BY DEF Steer
<1>2. Len(steps) \in Nat /\ DOMAIN steps \subseteq Rows
  BY PlanDomain DEF PlanInv
<1>3. d \in DraftRec
  <2>1. With("running") \cup With("completed") \subseteq Rows
    BY <1>2 DEF With
  <2> QED
    BY <1>2, <2>1 DEF DraftRec
<1>4. draft \in [Steerers -> DraftRec]
  BY DEF PlanInv, TypeOK, DraftRec
<1>5. draft' \in [Steerers -> DraftRec]
  BY <1>1, <1>3, <1>4, TableSet
<1>6. TypeOK'
  BY <1>1, <1>5 DEF PlanInv, TypeOK, DraftRec, planVars, effectVars
<1>7. \A t \in Steerers : t # s => draft'[t].pc \notin {"append", "save"}
  BY <1>1, <1>4 DEF LockFree
<1>8. draft'[s].pc = "append"
  BY <1>1, <1>4
<1>9. LockHeld' /\ Drafted'
  BY <1>7, <1>8 DEF LockHeld, Drafted
<1>10. Growth'
  <2>1. RepairRoom' = RepairRoom /\ RepairRoom \in {0, 2} /\ SteeringRoom' \in {0, 1}
    BY <1>1 DEF RepairRoom, SteeringRoom
  <2>2. Len(steps') = Len(steps)
    BY <1>1 DEF planVars
  <2> QED
    BY <1>1, <1>2, <2>1, <2>2 DEF Growth
<1>11. Attempted' /\ OneAtATime' /\ DependenciesFirst' /\ LeftSettled' /\ DoneSettled'
  BY <1>1 DEF PlanInv, Attempted, OneAtATime, DependenciesFirst, Busy, With, LeftSettled,
              DoneSettled, Settled, planVars
<1> QED
  BY <1>6, <1>9, <1>10, <1>11 DEF PlanInv

LEMMA SteerSaveStep == ASSUME PlanInv, NEW s \in Steerers, SteerSaves(s) PROVE PlanInv'
<1> DEFINE i == draft[s].at
<1>1. /\ draft[s].pc = "save"
      /\ stored' = IF Clash(i, steps) THEN stored ELSE [stored EXCEPT ![i] = Row(i, steps)]
      /\ draft' = [draft EXCEPT ![s] = Draft("over")]
      /\ UNCHANGED <<steps, job, cancel, wpc, cur, base, effectVars, left>>
  BY DEF SteerSaves
<1>2. i \in DOMAIN steps
  BY <1>1 DEF PlanInv, Drafted
<1>3. stored' \in [Rows -> RowRec]
  <2>1. stored \in [Rows -> RowRec] /\ Row(i, steps) \in RowRec
    BY <1>2, PlanDomain DEF PlanInv, TypeOK, RowRec, Row, StepRec
  <2> QED
    BY <1>1, <2>1, TableSet
<1>4. draft \in [Steerers -> DraftRec] /\ Draft("over") \in DraftRec
  BY DEF PlanInv, TypeOK, DraftRec, Draft
<1>5. draft' \in [Steerers -> DraftRec]
  BY <1>1, <1>4, TableSet
<1>6. TypeOK'
  BY <1>1, <1>3, <1>5 DEF PlanInv, TypeOK, RowRec, DraftRec, effectVars
<1>7. draft'[s].pc = "over" /\ \A t \in Steerers : t # s => draft'[t] = draft[t]
  BY <1>1, <1>4 DEF Draft
<1>8. LockHeld' /\ Drafted'
  BY <1>1, <1>7 DEF PlanInv, LockHeld, Drafted
<1>9. Growth'
  <2>1. RepairRoom' = RepairRoom /\ SteeringRoom' = SteeringRoom
    BY <1>1, <1>7 DEF RepairRoom, SteeringRoom
  <2> QED
    BY <1>1, <2>1 DEF PlanInv, Growth
<1>10. Attempted' /\ OneAtATime' /\ DependenciesFirst' /\ LeftSettled' /\ DoneSettled'
  BY <1>1 DEF PlanInv, Attempted, OneAtATime, DependenciesFirst, Busy, With, LeftSettled,
              DoneSettled, Settled
<1> QED
  BY <1>6, <1>8, <1>9, <1>10 DEF PlanInv


LEMMA SteerAppendStep == ASSUME PlanInv, NEW s \in Steerers, SteerAppends(s) PROVE PlanInv'
<1> USE PlanBounds
<1> DEFINE e == Step(draft[s].deps, draft[s].ord)
           n == Len(steps)
           d == IF n + 1 > Limit THEN Draft("over")
                ELSE [draft[s] EXCEPT !.pc = "save", !.at = n + 1]
<1>1. /\ draft[s].pc = "append"
      /\ steps' = Append(steps, e)
      /\ draft' = [draft EXCEPT ![s] = d]
      /\ UNCHANGED <<stored, job, cancel, wpc, cur, base, effectVars, left>>
  BY DEF SteerAppends
<1>2. draft \in [Steerers -> DraftRec] /\ draft[s] \in DraftRec
  BY DEF PlanInv, TypeOK, DraftRec
<1>3. n \in Nat /\ DOMAIN steps = 1..n
  BY PlanDomain DEF PlanInv
<1>4. e \in StepRec /\ e.st = "queued" /\ e.attempt = 0
  <2>1. 0 \in 0..(RetryBudget + 1)
    OBVIOUS
  <2> QED
    BY <1>2, <2>1 DEF Step, StepRec, StepStates, DraftRec
<1>5. /\ steps' \in Seq(StepRec) /\ Len(steps') = n + 1 /\ DOMAIN steps' = 1..(n + 1)
      /\ \A k \in DOMAIN steps : steps'[k] = steps[k]
      /\ steps'[n + 1] = e
  <2> HIDE DEF e
  <2> QED
    BY <1>1, <1>4, PlanGrows DEF PlanInv
<1>6. \A t \in Steerers : t # s => draft[t].pc \notin {"append", "save"}
  BY <1>1 DEF PlanInv, LockHeld
<1>7. n + 1 + RepairRoom <= Limit + 2 /\ RepairRoom \in {0, 2} /\ RepairRoom' = RepairRoom
  <2>1. SteeringRoom = 1
    BY <1>1 DEF SteeringRoom
  <2> QED
    BY <1>1, <1>3, <2>1 DEF PlanInv, Growth, RepairRoom
<1>8. n + 1 \in Rows
  BY <1>3, <1>7 DEF Rows
<1>9. d \in DraftRec
  BY <1>2, <1>8 DEF DraftRec, Draft
<1>10. draft' \in [Steerers -> DraftRec]
  <2> HIDE DEF d
  <2> QED
    BY <1>1, <1>2, <1>9, TableSet
<1>11. TypeOK'
  <2>1. cur' \in 0..Len(steps')
    BY <1>1, <1>3, <1>5 DEF PlanInv, TypeOK
  <2>2. 0 < Len(steps') /\ Len(steps') \in Rows
    BY <1>3, <1>5, <1>8
  <2> QED
    BY <1>1, <1>5, <1>10, <2>1, <2>2 DEF PlanInv, TypeOK, StepRec, DraftRec, effectVars
<1>12. /\ draft'[s] = d /\ d.pc \in {"over", "save"} /\ (d.pc = "save" => d.at = n + 1)
       /\ \A t \in Steerers : t # s => draft'[t] = draft[t]
  BY <1>1, <1>2 DEF Draft, DraftRec
<1>13. LockHeld' /\ Drafted'
  <2>1. \A t \in Steerers : draft'[t].pc \in {"append", "save"} => t = s
    BY <1>6, <1>12
  <2>2. n + 1 \in DOMAIN steps'
    BY <1>3, <1>5
  <2> HIDE DEF d
  <2>3. draft'[s].pc = "save" => draft'[s].at \in DOMAIN steps'
    BY <1>12, <2>2
  <2> QED
    BY <2>1, <2>3 DEF LockHeld, Drafted
<1>14. Growth'
  <2>1. SteeringRoom' = 0
    BY <1>6, <1>12 DEF SteeringRoom
  <2> QED
    BY <1>3, <1>5, <1>7, <2>1 DEF Growth
<1>15. Attempted' /\ OneAtATime' /\ DependenciesFirst'
  <2>1. \A k \in DOMAIN steps' : \/ k \in DOMAIN steps /\ steps'[k] = steps[k]
                                 \/ k = n + 1 /\ steps'[k] = e
    BY <1>3, <1>5
  <2>2. With("completed") \subseteq With("completed")' /\ DOMAIN steps \subseteq DOMAIN steps'
    BY <1>3, <1>5 DEF With
  <2> HIDE DEF e
  <2>3. Attempted'
    BY <1>1, <1>5, <2>2 DEF PlanInv, Attempted, Busy
  <2>4. OneAtATime'
    BY <1>1, <1>4, <2>1 DEF PlanInv, OneAtATime
  <2>5. DependenciesFirst'
    BY <1>4, <2>1, <2>2 DEF PlanInv, DependenciesFirst
  <2> QED
    BY <2>3, <2>4, <2>5
<1>16. LeftSettled' /\ DoneSettled'
  <2>1. \A states : Settled(states) => Settled(states)'
    BY <1>1, <1>3, <1>5 DEF Settled
  <2> QED
    BY <1>1, <2>1 DEF PlanInv, LeftSettled, DoneSettled
<1> QED
  BY <1>11, <1>13, <1>14, <1>15, <1>16 DEF PlanInv

LEMMA BlockedStep == ASSUME PlanInv, FailBlocked PROVE PlanInv'
<1> USE PlanBounds
<1>1. PICK reached, clashes, saved :
        /\ reached \subseteq With("queued")
        /\ clashes = {} => reached = With("queued")
        /\ steps' = [i \in DOMAIN steps |->
                        IF i \in reached THEN [steps[i] EXCEPT !.st = "failed"] ELSE steps[i]]
        /\ saved \subseteq With("queued")
        /\ saved \subseteq reached
        /\ stored' = [i \in Rows |-> IF i \in saved THEN Row(i, steps') ELSE stored[i]]
        /\ wpc' = IF clashes = {} THEN "left" ELSE "crashed"
  <2> DEFINE twice(i) == \E k \in With("queued") : k < i /\ steps[k].ord = steps[i].ord
             C == {i \in With("queued") : stored[i].st = "absent" /\ (Clash(i, steps) \/ twice(i))}
             R == {i \in With("queued") : \A k \in C : i <= k}
  <2>1. /\ steps' = [i \in DOMAIN steps |->
                        IF i \in R THEN [steps[i] EXCEPT !.st = "failed"] ELSE steps[i]]
        /\ stored' = [i \in Rows |-> IF i \in R \ C THEN Row(i, steps') ELSE stored[i]]
        /\ wpc' = IF C = {} THEN "left" ELSE "crashed"
    BY DEF FailBlocked
  <2>2. R \subseteq With("queued") /\ R \ C \subseteq R /\ R \ C \subseteq With("queued")
    OBVIOUS
  <2>3. C = {} => R = With("queued")
    <3>1. ASSUME C = {} PROVE \A i \in With("queued") : \A k \in C : i <= k
      <4> HIDE DEF C
      <4> QED
        BY <3>1
    <3> HIDE DEF C
    <3> QED
      BY <3>1
  <2> HIDE DEF C, R
  <2> QED
    BY <2>1, <2>2, <2>3
<1>2. /\ wpc = "top" /\ left' = Len(steps)
      /\ UNCHANGED <<job, cancel, cur, base, effectVars, draft>>
  BY DEF FailBlocked
<1>3. /\ Len(steps) \in Nat \ {0} /\ DOMAIN steps = 1..Len(steps) /\ Len(steps) \in Rows
      /\ DOMAIN steps \subseteq Rows
      /\ \A i \in DOMAIN steps : steps[i] \in StepRec
  BY PlanDomain DEF PlanInv, TypeOK
<1>4. \A i \in DOMAIN steps :
        /\ steps'[i] \in StepRec
        /\ steps'[i].deps = steps[i].deps /\ steps'[i].attempt = steps[i].attempt
        /\ \/ steps'[i].st = steps[i].st
           \/ steps'[i].st = "failed" /\ steps[i].st = "queued"
        /\ i \in reached => steps'[i].st = "failed"
  <2> TAKE i \in DOMAIN steps
  <2>1. CASE i \in reached
    <3>1. steps'[i] = [steps[i] EXCEPT !.st = "failed"] /\ steps[i].st = "queued"
      BY <1>1, <2>1 DEF With
    <3>2. steps[i] \in StepRec
      BY <1>3
    <3>3. [steps[i] EXCEPT !.st = "failed"] \in StepRec
      BY <3>2 DEF StepRec, StepStates
    <3> QED
      BY <3>1, <3>2, <3>3 DEF StepRec
  <2>2. CASE i \notin reached
    BY <1>1, <1>3, <2>2
  <2> QED
    BY <2>1, <2>2
<1>5. steps' \in Seq(StepRec) /\ Len(steps') = Len(steps) /\ DOMAIN steps' = DOMAIN steps
  <2>1. steps' \in [1..Len(steps) -> StepRec]
    <3>1. steps' = [i \in 1..Len(steps) |-> steps'[i]]
      BY <1>1, <1>3
    <3> QED
      BY <1>3, <1>4, <3>1
  <2> QED
    BY <1>3, <2>1, IntervalIsSeq
<1>6. TypeOK'
  <2>1. stored' \in [Rows -> RowRec]
    <3>1. stored \in [Rows -> RowRec]
      BY DEF PlanInv, TypeOK, RowRec
    <3>2. saved \subseteq DOMAIN steps
      BY <1>1 DEF With
    <3>3. ASSUME NEW i \in DOMAIN steps PROVE Row(i, steps') \in RowRec
      <4>1. steps'[i] \in StepRec
        BY <1>4
      <4> QED
        BY <4>1 DEF Row, StepRec, RowRec
    <3> QED
      BY <1>1, <3>1, <3>2, <3>3
  <2>2. wpc' \in WorkerLabels
    BY <1>1 DEF WorkerLabels
  <2> QED
    BY <1>2, <1>3, <1>5, <2>1, <2>2 DEF PlanInv, TypeOK, StepRec, RowRec, effectVars
<1>7. LockHeld' /\ Drafted'
  BY <1>2, <1>5 DEF PlanInv, LockHeld, Drafted
<1>8. Growth'
  <2>1. RepairRoom = 0 /\ RepairRoom' = 0 /\ SteeringRoom' = SteeringRoom
    BY <1>1, <1>2 DEF RepairRoom, SteeringRoom
  <2> QED
    BY <1>5, <2>1 DEF PlanInv, Growth
<1>9. Attempted'
  BY <1>1 DEF Attempted, Busy
<1>10. OneAtATime'
  BY <1>2, <1>4, <1>5 DEF PlanInv, OneAtATime
<1>11. DependenciesFirst'
  <2>1. With("completed") \subseteq With("completed")'
    BY <1>4, <1>5 DEF With
  <2> QED
    BY <1>4, <1>5, <2>1 DEF PlanInv, DependenciesFirst
<1>12. LeftSettled'
  <2> SUFFICES ASSUME wpc' = "left" PROVE Settled({"completed", "failed", "cancelled"})'
    BY DEF LeftSettled
  <2>1. reached = With("queued")
    BY <1>1
  <2>2. \A i \in DOMAIN steps : steps[i].st \in {"queued", "completed", "failed", "cancelled"}
    BY <1>2, <1>3 DEF PlanInv, OneAtATime, StepRec, StepStates
  <2>3. \A i \in DOMAIN steps : steps'[i].st \in {"completed", "failed", "cancelled"}
    BY <1>4, <2>1, <2>2 DEF With
  <2> QED
    BY <1>2, <1>3, <1>5, <2>3 DEF Settled
<1>13. DoneSettled'
  BY <1>2 DEF PlanInv, DoneSettled
<1> QED
  BY <1>6, <1>7, <1>8, <1>9, <1>10, <1>11, <1>12, <1>13 DEF PlanInv


\* The repaired plan: the old entries but the replaced one, and two queued steps.
LEMMA RepairedPlan ==
    ASSUME PlanInv, wpc = "repairing", NEW e \in StepRec, Len(steps) + 2 \in Rows
    PROVE  LET plan == [Repaired EXCEPT ![cur] = e]
               n == Len(steps)
           IN  /\ plan \in Seq(StepRec) /\ Len(plan) = n + 2 /\ DOMAIN plan = 1..(n + 2)
               /\ plan[cur] = e
               /\ \A k \in DOMAIN steps : k # cur => plan[k] = steps[k]
               /\ \A k \in {n + 1, n + 2} : plan[k].st = "queued" /\ plan[k].attempt = 0
<1> USE PlanBounds
<1> DEFINE n == Len(steps)
           a == Step(steps[cur].deps, base)
           b == Step({n + 1}, base + 1)
           plan == [Repaired EXCEPT ![cur] = e]
<1>1. n \in Nat /\ DOMAIN steps = 1..n /\ steps \in Seq(StepRec)
  BY PlanDomain DEF PlanInv
<1>2. cur \in DOMAIN steps /\ steps[cur] \in StepRec
  BY Under DEF Busy
<1>3. base \in Nat /\ base + 1 \in Nat
  BY DEF PlanInv, TypeOK
<1>4. a \in StepRec /\ b \in StepRec /\ a.st = "queued" /\ a.attempt = 0
      /\ b.st = "queued" /\ b.attempt = 0
  <2>1. 0 \in 0..(RetryBudget + 1)
    OBVIOUS
  <2>2. {n + 1} \subseteq Rows
    BY <1>1 DEF Rows
  <2> QED
    BY <1>2, <1>3, <2>1, <2>2 DEF Step, StepRec, StepStates
<1> HIDE DEF a, b
<1>5. /\ <<a, b>> \in Seq(StepRec) /\ Len(<<a, b>>) = 2
      /\ <<a, b>>[1] = a /\ <<a, b>>[2] = b
  BY <1>4
<1>6. Repaired = steps \o <<a, b>>
  BY DEF Repaired, a, b
<1>7. /\ Repaired \in Seq(StepRec) /\ Len(Repaired) = n + 2 /\ DOMAIN Repaired = 1..(n + 2)
      /\ \A k \in DOMAIN steps : Repaired[k] = steps[k]
      /\ Repaired[n + 1] = a /\ Repaired[n + 2] = b
  BY <1>1, <1>5, <1>6
<1> HIDE DEF n
<1>8. plan \in Seq(StepRec) /\ Len(plan) = n + 2 /\ cur \in 1..(n + 2) /\ DOMAIN plan = 1..(n + 2)
  <2>1. cur \in 1..(n + 2)
    BY <1>1, <1>2
  <2> QED
    BY <1>7, <2>1, ExceptSeq
<1>9. /\ plan[cur] = e
      /\ \A k \in DOMAIN steps : k # cur => plan[k] = steps[k]
  BY <1>1, <1>7, <1>8
<1>10. plan[n + 1] = a /\ plan[n + 2] = b
  BY <1>1, <1>2, <1>7
<1> QED
  BY <1>4, <1>8, <1>9, <1>10 DEF n

LEMMA RepairStep == ASSUME PlanInv, Repair PROVE PlanInv'
<1> USE PlanBounds
<1> DEFINE n == Len(steps)
           e == [steps[cur] EXCEPT !.st = IF n + 2 <= Limit THEN "cancelled" ELSE "failed"]
           plan == [Repaired EXCEPT ![cur] = e]
<1>1. /\ wpc = "repairing" /\ steps' = plan
      /\ UNCHANGED <<job, cancel, cur, effectVars, left, draft>> /\ base' = 0
      /\ wpc' \in {"top", "crashed"}
  BY DEF Repair
<1>2. PICK saved : stored' = [i \in Rows |-> IF i \in saved \cup {cur} THEN Row(i, plan) ELSE stored[i]]
                   /\ saved \subseteq {n + 1, n + 2}
  <2> DEFINE fits == n + 2 <= Limit
             added == {n + 1, n + 2}
             S == {i \in added : fits /\ \A k \in added : k <= i => ~Clash(k, plan)}
  <2>1. stored' = [i \in Rows |-> IF i \in S \cup {cur} THEN Row(i, plan) ELSE stored[i]]
    BY DEF Repair
  <2>2. S \subseteq {n + 1, n + 2}
    OBVIOUS
  <2> HIDE DEF S
  <2> QED
    BY <2>1, <2>2
<1>3. n \in Nat /\ DOMAIN steps = 1..n
  BY PlanDomain DEF PlanInv
<1>4. /\ cur \in DOMAIN steps /\ steps[cur] \in StepRec
      /\ steps[cur].attempt > 0 /\ steps[cur].deps \subseteq With("completed")
      /\ steps[cur].st \in {"running", "verifying"}
      /\ \A k \in DOMAIN steps : steps[k].st \in {"running", "verifying"} => k = cur
  BY <1>1, Under DEF Busy
<1>5. e \in StepRec /\ e.deps = steps[cur].deps /\ e.st \in {"cancelled", "failed"}
  BY <1>4 DEF StepRec, StepStates
<1>6. n + 2 + SteeringRoom <= Limit + 2 /\ SteeringRoom \in {0, 1} /\ SteeringRoom' = SteeringRoom
  <2>1. RepairRoom = 2
    BY <1>1 DEF RepairRoom
  <2> QED
    BY <1>1, <1>3, <2>1 DEF PlanInv, Growth, SteeringRoom
<1>7. n + 2 \in Rows
  BY <1>3, <1>6 DEF Rows
<1> HIDE DEF e
<1>8. /\ steps' \in Seq(StepRec) /\ Len(steps') = n + 2 /\ DOMAIN steps' = 1..(n + 2)
      /\ steps'[cur] = e
      /\ \A k \in DOMAIN steps : k # cur => steps'[k] = steps[k]
      /\ \A k \in {n + 1, n + 2} : steps'[k].st = "queued" /\ steps'[k].attempt = 0
  BY <1>1, <1>5, <1>7, RepairedPlan
<1> HIDE DEF n, plan
<1>9. \A k \in DOMAIN steps' : k = cur \/ k \in {n + 1, n + 2} \/ (k \in DOMAIN steps /\ k # cur)
  BY <1>3, <1>8
<1>10. DOMAIN steps \subseteq DOMAIN steps'
  BY <1>3, <1>8
<1>11. TypeOK'
  <2>1. stored' \in [Rows -> RowRec]
    <3>1. stored \in [Rows -> RowRec]
      BY DEF PlanInv, TypeOK, RowRec
    <3>2. saved \cup {cur} \subseteq DOMAIN plan
      <4>1. {n + 1, n + 2} \subseteq 1..(n + 2) /\ cur \in 1..(n + 2)
        BY <1>3, <1>4
      <4>2. DOMAIN plan = 1..(n + 2)
        BY <1>1, <1>8
      <4> QED
        BY <1>2, <4>1, <4>2
    <3>3. ASSUME NEW k \in DOMAIN plan PROVE Row(k, plan) \in RowRec
      <4>1. plan[k] \in StepRec
        BY <1>1, <1>8, ElementOfSeq
      <4> QED
        BY <4>1 DEF Row, StepRec, RowRec
    <3> QED
      BY <1>2, <3>1, <3>2, <3>3
  <2>2. wpc' \in WorkerLabels
    BY <1>1 DEF WorkerLabels
  <2>3. cur' \in 0..Len(steps')
    BY <1>1, <1>3, <1>4, <1>8
  <2>4. 0 < Len(steps') /\ Len(steps') \in Rows
    BY <1>3, <1>7, <1>8 DEF n
  <2>5. base' \in Nat
    BY <1>1
  <2> QED
    BY <1>1, <1>8, <2>1, <2>2, <2>3, <2>4, <2>5 DEF PlanInv, TypeOK, StepRec, RowRec, effectVars
<1>12. LockHeld' /\ Drafted'
  BY <1>1, <1>10 DEF PlanInv, LockHeld, Drafted
<1>13. Growth'
  <2>1. RepairRoom' = 0
    BY <1>1 DEF RepairRoom
  <2> QED
    BY <1>3, <1>6, <1>8, <2>1 DEF Growth, n
<1>14. Attempted'
  BY <1>1 DEF Attempted, Busy
<1>15. OneAtATime'
  BY <1>4, <1>5, <1>8, <1>9 DEF OneAtATime
<1>16. DependenciesFirst'
  <2>1. With("completed") \subseteq With("completed")'
    BY <1>4, <1>8, <1>10 DEF With
  <2>2. ASSUME NEW k \in DOMAIN steps', steps'[k].attempt > 0
        PROVE  steps'[k].deps \subseteq With("completed")
    <3>1. CASE k = cur
      BY <1>4, <1>5, <1>8, <3>1
    <3>2. CASE k \in DOMAIN steps /\ k # cur
      BY <1>8, <2>2, <3>2 DEF PlanInv, DependenciesFirst
    <3>3. CASE k \in {n + 1, n + 2}
      BY <1>8, <2>2, <3>3
    <3> QED
      BY <1>9, <3>1, <3>2, <3>3
  <2> QED
    BY <2>1, <2>2 DEF DependenciesFirst
<1>17. LeftSettled' /\ DoneSettled'
  BY <1>1 DEF PlanInv, LeftSettled, DoneSettled
<1> QED
  BY <1>11, <1>12, <1>13, <1>14, <1>15, <1>16, <1>17 DEF PlanInv

-----------------------------------------------------------------------------
(* The invariant and what follows from it.                                 *)

LEMMA PlanStutter == ASSUME PlanInv, UNCHANGED vars PROVE PlanInv'
<1> USE DEF vars, planVars, effectVars
<1>1. TypeOK'
  BY DEF PlanInv, TypeOK
<1>2. LockHeld' /\ Growth' /\ Drafted'
  BY DEF PlanInv, LockHeld, Growth, RepairRoom, SteeringRoom, Drafted
<1>3. Attempted' /\ OneAtATime' /\ DependenciesFirst' /\ LeftSettled' /\ DoneSettled'
  BY DEF PlanInv, Attempted, OneAtATime, DependenciesFirst, Busy, With, LeftSettled,
         DoneSettled, Settled
<1> QED
  BY <1>1, <1>2, <1>3 DEF PlanInv

LEMMA PlanStep == ASSUME PlanInv, [Next]_vars PROVE PlanInv'
<1>1. CASE Looping
  BY <1>1, ControlStep, Picked, BlockedStep, LeaveStep, RecordStep DEF Looping
<1>2. CASE Calling
  BY <1>2, CallStep
<1>3. CASE Deciding
  BY <1>3, SettleStep, RepairStep, RetryStep, FailStep DEF Deciding
<1>4. ASSUME NEW s \in Steerers, Steering(s) PROVE PlanInv'
  BY <1>4, SteerStep, SteerAppendStep, SteerSaveStep DEF Steering
<1>5. CASE Cancel
  BY <1>5, ControlStep
<1>6. CASE Restart
  BY <1>6, RestartStep
<1>7. CASE UNCHANGED vars
  BY <1>7, PlanStutter
<1> QED
  BY <1>1, <1>2, <1>3, <1>4, <1>5, <1>6, <1>7 DEF Next, Worker

\* The plan of a job, the lock around steering and the order of its steps, for any
\* number of steering calls, tool calls and retries and any limit.
THEOREM PlanInvariant == Spec => []PlanInv
<1>1. Init => PlanInv
  BY PlanInit
<1>2. PlanInv /\ [Next]_vars => PlanInv'
  BY PlanStep
<1> QED
  BY <1>1, <1>2, PTL DEF Spec

\* The plan and its rows keep their types: in particular no repair and no steering call
\* takes the plan more than two steps past TOTAL_STEP_LIMIT.
THEOREM PlanTypeCorrect == Spec => []TypeOK
<1>1. PlanInv => TypeOK
  BY DEF PlanInv
<1> QED
  BY <1>1, PlanInvariant, PTL

\* A step runs on finished work (_job_thread's pick, against repair and steering).
THEOREM DependenciesHold == Spec => []DependenciesFirst
<1>1. PlanInv => DependenciesFirst
  BY DEF PlanInv
<1> QED
  BY <1>1, PlanInvariant, PTL

\* A job is done only when nothing that it knew of failed.
THEOREM DoneIsDone == Spec => []DoneMeansDone
<1>1. PlanInv => DoneMeansDone
  BY DEF PlanInv, DoneSettled, Settled, DoneMeansDone
<1> QED
  BY <1>1, PlanInvariant, PTL


-----------------------------------------------------------------------------
(* The effects of the calls.                                               *)

\* A key nobody claimed was not executed, and none was executed twice.
Once == \A k \in Keys : ran[k] <= 1 /\ (ledger[k] = "absent" => ran[k] = 0)

Inside == wpc \in {"tool", "called"}

\* The call in progress holds its claim, and is executed at most in this step.
InCall ==
    Inside => /\ Key \in Keys /\ ledger[Key] = "in_progress"
              /\ wpc = "tool" => ran[Key] = 0

\* An open claim is the call's in progress, or the worker died in it.
Open ==
    \A k \in Keys : ledger[k] = "in_progress" => \/ Inside /\ k = Key
                                                 \/ wpc = "ended" /\ job # "active"

\* While the runner works, the row of its step is one that a restart reviews.
Rowed ==
    wpc \in {"exec", "tool", "called", "unsure"} => stored[cur].st \in {"running", "awaiting_confirm"}

\* Nothing of an interrupted job is still running.
Dead == job = "interrupted" => wpc = "ended" /\ \A s \in Steerers : draft[s].pc = "over"

EffectInv == Once /\ InCall /\ Open /\ Rowed /\ Dead /\ CrashIsVisible

LEMMA EffectInit == Init => EffectInv
<1> SUFFICES ASSUME Init PROVE EffectInv
  OBVIOUS
<1>1. wpc = "top" /\ job = "active"
  BY DEF Init
<1>2. \A k \in Keys : ledger[k] = "absent" /\ ran[k] = 0
  BY DEF Init
<1> QED
  BY <1>1, <1>2 DEF EffectInv, Once, Inside, InCall, Open, Rowed, Dead, CrashIsVisible

\* A save that goes on leaves the plan's state in the row.
LEMMA SavedRow ==
    ASSUME TypeOK, NEW i \in DOMAIN steps, NEW next, next # "crashed",
           Save(i, steps', next), wpc' = next
    PROVE  stored'[i].st = steps'[i].st
<1>1. i \in Rows /\ stored \in [Rows -> RowRec]
  BY PlanDomain DEF TypeOK, RowRec
<1>2. stored' = [stored EXCEPT ![i] = Row(i, steps')]
  BY DEF Save
<1> QED
  BY <1>1, <1>2 DEF Row

\* The worker's steps outside of a call: what they leave alone, and the row they save.
LEMMA QuietSteps ==
    ASSUME PlanInv, Looping \/ Deciding
    PROVE  /\ wpc \notin {"tool", "called", "unsure", "ended"}
           /\ wpc' \notin {"tool", "called", "unsure"}
           /\ UNCHANGED <<ledger, ran, call, draft>>
           /\ wpc' = "exec" => stored'[cur'].st = "running"
           /\ job' = "interrupted" => job = "interrupted"
<1>1. CASE LoopCancelled \/ LeaveLoop \/ Record \/ RecordCrash \/ FailBlocked
  BY <1>1 DEF LoopCancelled, LeaveLoop, Record, RecordCrash, FailBlocked, effectVars
<1>2. CASE PickStep
  <2>1. PICK i \in DOMAIN steps : cur' = i /\ Attempt(i, 1) /\ Save(i, steps', "exec")
    BY <1>2 DEF PickStep
  <2>2. wpc = "top" /\ UNCHANGED <<job, effectVars, draft>> /\ wpc' \in {"exec", "crashed"}
    BY <1>2, <2>1 DEF PickStep, Save
  <2>3. steps'[i].st = "running"
    <3>1. steps' = [steps EXCEPT ![i] = [steps[i] EXCEPT !.st = "running", !.attempt = 1]]
      BY <2>1 DEF Attempt
    <3>2. steps[i] \in StepRec
      BY PlanDomain DEF PlanInv
    <3>3. [steps[i] EXCEPT !.st = "running", !.attempt = 1].st = "running"
      BY <3>2 DEF StepRec
    <3> HIDE DEF StepRec
    <3> QED
      BY <3>1, <3>3
  <2>4. wpc' = "exec" => stored'[i].st = "running"
    BY <2>1, <2>3, SavedRow DEF PlanInv
  <2> QED
    BY <2>1, <2>2, <2>4 DEF effectVars
<1>3. CASE Verify \/ Complete
  BY <1>3 DEF Verify, Complete, Save, effectVars
<1>4. CASE Repair
  BY <1>4 DEF Repair, effectVars
<1>5. ASSUME NEW retryable, NEW unknown, Retry(retryable, unknown)
      PROVE  /\ wpc = "exec" /\ wpc' \in {"exec", "crashed"}
             /\ UNCHANGED <<job, effectVars, draft>>
             /\ wpc' = "exec" => stored'[cur'].st = "running"
  <2>1. /\ wpc = "exec" /\ Attempt(cur, steps[cur].attempt + 1) /\ Save(cur, steps', "exec")
        /\ UNCHANGED <<job, cur, effectVars, draft>>
    BY <1>5 DEF Retry
  <2>2. cur \in DOMAIN steps /\ steps[cur] \in StepRec
    BY <2>1, Under DEF Busy
  <2>3. steps'[cur].st = "running"
    <3>1. steps' = [steps EXCEPT ![cur] =
                       [steps[cur] EXCEPT !.st = "running", !.attempt = steps[cur].attempt + 1]]
      BY <2>1 DEF Attempt
    <3>2. [steps[cur] EXCEPT !.st = "running", !.attempt = steps[cur].attempt + 1].st = "running"
      BY <2>2 DEF StepRec
    <3> QED
      BY <2>2, <3>1, <3>2
  <2>4. wpc' = "exec" => stored'[cur].st = "running"
    BY <2>1, <2>2, <2>3, SavedRow DEF PlanInv
  <2>5. wpc' \in {"exec", "crashed"}
    BY <2>1 DEF Save
  <2> QED
    BY <2>1, <2>4, <2>5
<1>6. ASSUME NEW retryable, NEW unknown, NEW rejected, StepFails(retryable, unknown, rejected)
      PROVE  /\ wpc = "exec" /\ wpc' \in {"repairing", "top", "crashed"}
             /\ UNCHANGED <<job, effectVars, draft>>
  BY <1>6 DEF StepFails, GiveUp, Save
<1> QED
  BY <1>1, <1>2, <1>3, <1>4, <1>5, <1>6 DEF Looping, Deciding, effectVars

LEMMA QuietEffects ==
    ASSUME PlanInv, EffectInv, Looping \/ Deciding PROVE EffectInv'
<1>1. /\ wpc \notin {"tool", "called", "unsure", "ended"}
      /\ wpc' \notin {"tool", "called", "unsure"}
      /\ UNCHANGED <<ledger, ran, call, draft>>
      /\ wpc' = "exec" => stored'[cur'].st = "running"
      /\ job' = "interrupted" => job = "interrupted"
  BY QuietSteps
<1>2. job' # "interrupted"
  BY <1>1 DEF EffectInv, Dead
<1>3. \A k \in Keys : ledger[k] # "in_progress"
  BY <1>1 DEF EffectInv, Open, Inside
<1> QED
  BY <1>1, <1>2, <1>3 DEF EffectInv, Once, InCall, Inside, Open, Rowed, Dead, CrashIsVisible

\* What the runner's steps do to the ledger and the executions.
LEMMA CallEffects ==
    ASSUME PlanInv, EffectInv, Calling PROVE EffectInv'
<1>1. /\ ledger \in [Keys -> ClaimStates] /\ ran \in [Keys -> Nat] /\ stored \in [Rows -> RowRec]
  BY DEF PlanInv, TypeOK, RowRec
<1>2. /\ UNCHANGED <<job, cur, draft>> /\ wpc \in {"exec", "tool", "called", "unsure"}
      /\ wpc' \in {"exec", "tool", "called", "unsure"} /\ cur \in Rows
  <2>1. /\ UNCHANGED <<job, cur, draft>> /\ wpc \in {"exec", "tool", "called", "unsure"}
        /\ wpc' \in {"exec", "tool", "called", "unsure"}
    BY DEF Calling, Claim, ClaimUncertain, RunTool, MarkUnsure, Settle
  <2> QED
    BY <2>1, PlanDomain, Under DEF Busy, PlanInv
<1>3. job # "interrupted"
  BY <1>2 DEF EffectInv, Dead
<1>4. Dead' /\ CrashIsVisible'
  BY <1>2, <1>3 DEF Dead, CrashIsVisible
<1>5. \A k \in Keys : ledger[k] = "in_progress" => Inside /\ k = Key
  BY <1>2 DEF EffectInv, Open
<1>6. Rowed'
  <2>1. \/ UNCHANGED stored
        \/ stored' = [stored EXCEPT ![cur] = [st |-> "awaiting_confirm", eff |-> "unknown"]]
    BY DEF Calling, Claim, ClaimUncertain, RunTool, MarkUnsure, Settle, Unsure, planVars
  <2>2. stored[cur].st \in {"running", "awaiting_confirm"}
    BY <1>2 DEF EffectInv, Rowed
  <2>3. stored'[cur].st \in {"running", "awaiting_confirm"}
    BY <1>1, <1>2, <2>1, <2>2
  <2> QED
    BY <1>2, <2>3 DEF Rowed
<1>7. ASSUME NEW id \in CallIds, NEW mutation \in BOOLEAN, Claim(id, mutation)
      PROVE  Once' /\ InCall' /\ Open'
  <2> DEFINE k0 == <<cur, id>>
  <2>1. /\ wpc = "exec" /\ wpc' = "tool" /\ ledger[k0] = "absent" /\ call'.id = id
        /\ ledger' = [ledger EXCEPT ![k0] = "in_progress"] /\ UNCHANGED <<ran, cur>>
    BY <1>7 DEF Claim, Claimable
  <2>2. k0 \in Keys /\ Key' = k0
    BY <1>2, <2>1 DEF Keys, Key
  <2> HIDE DEF k0
  <2>3. /\ ledger'[k0] = "in_progress"
        /\ \A k \in Keys : k # k0 => ledger'[k] = ledger[k]
    BY <1>1, <2>1, <2>2
  <2>4. \A k \in Keys : ledger[k] # "in_progress"
    BY <1>5, <2>1 DEF Inside
  <2>5. Once' /\ ran'[k0] = 0
    BY <2>1, <2>2, <2>3 DEF EffectInv, Once
  <2> QED
    BY <2>1, <2>2, <2>3, <2>4, <2>5 DEF InCall, Open, Inside
<1>8. ASSUME NEW id \in CallIds, ClaimUncertain(id) PROVE Once' /\ InCall' /\ Open'
  BY <1>8 DEF ClaimUncertain, EffectInv, Once, InCall, Open, Inside, Key, effectVars
<1>9. ASSUME RunTool PROVE Once' /\ InCall' /\ Open'
  <2>1. /\ wpc = "tool" /\ wpc' = "called" /\ ran' = [ran EXCEPT ![Key] = ran[Key] + 1]
        /\ UNCHANGED <<ledger, call, cur, job>>
    BY <1>9 DEF RunTool
  <2>2. Key \in Keys /\ ledger[Key] = "in_progress" /\ ran[Key] = 0 /\ Key' = Key
    BY <2>1 DEF EffectInv, InCall, Inside, Key
  <2> HIDE DEF Key
  <2>3. ran'[Key] = 1 /\ \A k \in Keys : k # Key => ran'[k] = ran[k]
    BY <1>1, <2>1, <2>2
  <2>4. Once'
    BY <2>1, <2>2, <2>3 DEF EffectInv, Once
  <2> QED
    BY <1>5, <2>1, <2>2, <2>4 DEF InCall, Open, Inside
<1>10. ASSUME MarkUnsure PROVE Once' /\ InCall' /\ Open'
  <2>1. wpc = "unsure" /\ wpc' = "exec" /\ UNCHANGED <<ledger, ran, cur, job>>
    BY <1>10 DEF MarkUnsure
  <2>2. \A k \in Keys : ledger[k] # "in_progress"
    BY <1>5, <2>1 DEF Inside
  <2> QED
    BY <2>1, <2>2 DEF EffectInv, Once, InCall, Open, Inside
<1>11. ASSUME NEW ok \in BOOLEAN, Settle(ok) PROVE Once' /\ InCall' /\ Open'
  <2>1. PICK d \in {"completed", "unknown_effect", "failed"} :
          /\ wpc = "called" /\ wpc' \in {"unsure", "exec"}
          /\ ledger' = [ledger EXCEPT ![Key] = d] /\ UNCHANGED ran
    BY <1>11 DEF Settle, Disposition
  <2>2. Key \in Keys /\ ledger[Key] = "in_progress"
    BY <2>1 DEF EffectInv, InCall, Inside
  <2>3. ledger'[Key] = d /\ \A k \in Keys : k # Key => ledger'[k] = ledger[k]
    BY <1>1, <2>1, <2>2
  <2>4. \A k \in Keys : ledger'[k] # "in_progress"
    BY <1>5, <2>1, <2>3
  <2>5. Once'
    BY <2>1, <2>2, <2>3 DEF EffectInv, Once
  <2> QED
    BY <2>1, <2>4, <2>5 DEF InCall, Open, Inside
<1>12. Once' /\ InCall' /\ Open'
  BY <1>7, <1>8, <1>9, <1>10, <1>11 DEF Calling
<1> QED
  BY <1>4, <1>6, <1>12 DEF EffectInv

LEMMA SteerEffects ==
    ASSUME PlanInv, EffectInv, NEW s \in Steerers, Steering(s) PROVE EffectInv'
<1>1. UNCHANGED <<job, wpc, cur, call, ledger, ran>>
  BY DEF Steering, Steer, SteerAppends, SteerSaves, effectVars
<1>2. job # "interrupted"
  BY DEF Steering, Steer, SteerAppends, SteerSaves, EffectInv, Dead
<1>3. Rowed'
  <2> SUFFICES ASSUME wpc \in {"exec", "tool", "called", "unsure"}
               PROVE  stored'[cur].st \in {"running", "awaiting_confirm"}
    BY <1>1 DEF Rowed
  <2>1. stored[cur].st \in {"running", "awaiting_confirm"}
    BY DEF EffectInv, Rowed
  <2>2. \/ UNCHANGED stored
        \/ \E i \in DOMAIN steps : stored' = [stored EXCEPT ![i] = Row(i, steps)]
    <3>1. CASE SteerSaves(s)
      BY <3>1 DEF SteerSaves, PlanInv, Drafted
    <3>2. CASE ~SteerSaves(s)
      BY <3>2 DEF Steering, Steer, SteerAppends, planVars
    <3> QED
      BY <3>1, <3>2
  <2>3. cur \in DOMAIN steps /\ steps[cur].st = "running"
    BY DEF PlanInv, Attempted, Busy
  <2>4. cur \in Rows /\ stored \in [Rows -> RowRec]
    BY <2>3, PlanDomain DEF PlanInv, TypeOK, RowRec
  <2> QED
    BY <2>1, <2>2, <2>3, <2>4 DEF Row
<1> QED
  BY <1>1, <1>2, <1>3
     DEF EffectInv, Once, InCall, Inside, Open, Key, Dead, CrashIsVisible

LEMMA RestartEffects == ASSUME PlanInv, EffectInv, Restart PROVE EffectInv'
<1>1. /\ job' = IF job = "active" THEN "interrupted" ELSE job
      /\ wpc' = "ended"
      /\ draft' = [s \in Steerers |-> Draft("over")]
      /\ stored' = [i \in Rows |->
                      IF stored[i].st \in UNFINISHED
                      THEN [st |-> "interrupted", eff |-> Recovered(stored[i])]
                      ELSE stored[i]]
      /\ UNCHANGED <<ledger, ran, cur>>
  BY DEF Restart
<1>2. Once' /\ InCall' /\ Open' /\ Rowed' /\ Dead'
  BY <1>1 DEF EffectInv, Once, InCall, Inside, Open, Rowed, Dead, Draft
<1>3. CrashIsVisible'
  <2> SUFFICES ASSUME job' = "interrupted", NEW k \in Keys, ledger[k] = "in_progress"
               PROVE  stored'[k[1]].eff = "unknown"
    BY <1>1 DEF CrashIsVisible
  <2>1. k[1] \in Rows
    BY DEF Keys
  <2>2. Uncertain
    BY DEF Uncertain
  <2>3. \A row : Recovered(row) = "unknown"
    BY <2>2 DEF Recovered
  <2>4. CASE job = "active"
    <3>1. Inside /\ k = Key
      BY <2>4 DEF EffectInv, Open
    <3>2. stored[cur].st \in UNFINISHED
      BY <3>1 DEF EffectInv, Rowed, Inside, UNFINISHED
    <3> QED
      BY <1>1, <2>1, <2>3, <3>1, <3>2 DEF Key
  <2>5. CASE job = "interrupted"
    <3>1. stored[k[1]].eff = "unknown"
      BY <2>5 DEF EffectInv, CrashIsVisible
    <3> QED
      BY <1>1, <2>1, <2>3, <3>1
  <2> QED
    BY <1>1, <2>4, <2>5
<1> QED
  BY <1>2, <1>3 DEF EffectInv

LEMMA EffectStep == ASSUME PlanInv, EffectInv, [Next]_vars PROVE EffectInv'
<1>1. CASE Looping \/ Deciding
  BY <1>1, QuietEffects
<1>2. CASE Calling
  BY <1>2, CallEffects
<1>3. ASSUME NEW s \in Steerers, Steering(s) PROVE EffectInv'
  BY <1>3, SteerEffects
<1>4. CASE Cancel
  BY <1>4 DEF Cancel, planVars, effectVars, EffectInv, Once, InCall, Inside, Open, Key, Rowed,
              Dead, CrashIsVisible
<1>5. CASE Restart
  BY <1>5, RestartEffects
<1>6. CASE UNCHANGED vars
  BY <1>6 DEF vars, planVars, effectVars, EffectInv, Once, InCall, Inside, Open, Key, Rowed,
              Dead, CrashIsVisible
<1> QED
  BY <1>1, <1>2, <1>3, <1>4, <1>5, <1>6 DEF Next, Worker

\* The ledger, the executions and the rows agree, through any crash.
THEOREM EffectInvariant == Spec => []EffectInv
<1>1. Init => EffectInv
  BY EffectInit
<1>2. PlanInv /\ EffectInv /\ [Next]_vars => EffectInv'
  BY EffectStep
<1> QED
  BY <1>1, <1>2, PlanInvariant, PTL DEF Spec

\* _execute_tool executes a call at most once under its key, through retries, replays
\* and a restart.
THEOREM KeyOnce == Spec => []KeyRunsOnce
<1>1. EffectInv => KeyRunsOnce
  BY DEF EffectInv, Once, KeyRunsOnce
<1> QED
  BY <1>1, EffectInvariant, PTL

\* After a restart, the step of every call that was in progress is marked unknown.
THEOREM CrashVisible == Spec => []CrashIsVisible
<1>1. EffectInv => CrashIsVisible
  BY DEF EffectInv
<1> QED
  BY <1>1, EffectInvariant, PTL

\* The ledger never forgets that an effect is uncertain.
THEOREM UncertainStays == Spec => UncertainForGood
<1> DEFINE Kept == \A k \in Keys : ledger[k] = "unknown_effect" => ledger'[k] = ledger[k]
<1>1. ASSUME EffectInv, PlanInv, [Next]_vars PROVE Kept
  <2>1. CASE UNCHANGED ledger
    BY <2>1
  <2>2. ASSUME NEW id \in CallIds, NEW mutation \in BOOLEAN, Claim(id, mutation) PROVE Kept
    <3>1. /\ ledger[<<cur, id>>] = "absent" /\ ledger \in [Keys -> ClaimStates]
          /\ ledger' = [ledger EXCEPT ![<<cur, id>>] = "in_progress"]
      BY <1>1, <2>2 DEF Claim, Claimable, PlanInv, TypeOK
    <3> HIDE DEF Keys
    <3> QED
      BY <3>1
  <2>3. ASSUME NEW ok \in BOOLEAN, Settle(ok) PROVE Kept
    <3>1. PICK d : ledger' = [ledger EXCEPT ![Key] = d]
      BY <2>3 DEF Settle
    <3>2. ledger[Key] = "in_progress" /\ ledger \in [Keys -> ClaimStates]
      BY <1>1, <2>3 DEF Settle, EffectInv, InCall, Inside, PlanInv, TypeOK
    <3> QED
      BY <3>1, <3>2
  <2>4. ASSUME Looping \/ Deciding PROVE UNCHANGED ledger
    BY <1>1, <2>4, QuietSteps
  <2>5. ASSUME Cancel \/ Restart \/ UNCHANGED vars \/ RunTool \/ MarkUnsure
        PROVE  UNCHANGED ledger
    BY <2>5 DEF Cancel, Restart, RunTool, MarkUnsure, vars, effectVars
  <2>6. ASSUME NEW id \in CallIds, ClaimUncertain(id) PROVE UNCHANGED ledger
    BY <2>6 DEF ClaimUncertain, effectVars
  <2>7. ASSUME NEW s \in Steerers, Steering(s) PROVE UNCHANGED ledger
    BY <2>7 DEF Steering, Steer, SteerAppends, SteerSaves, effectVars
  <2> HIDE DEF Kept
  <2> QED
    BY <1>1, <2>1, <2>2, <2>3, <2>4, <2>5, <2>6, <2>7 DEF Next, Worker, Calling
<1>2. EffectInv /\ PlanInv /\ [Next]_vars => [Kept]_vars
  BY <1>1
<1> QED
  BY <1>2, EffectInvariant, PlanInvariant, PTL DEF Spec, UncertainForGood


=============================================================================
