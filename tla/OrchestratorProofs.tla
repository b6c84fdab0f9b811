------------------------- MODULE OrchestratorProofs -------------------------
(***************************************************************************)
(* Proofs about the job registry, for any number of jobs, confirmations,   *)
(* cancelling and deciding threads, and any capacity and pool size: types, *)
(* that a settled job keeps its result, and that a cancel leaves nothing   *)
(* alive beneath the job it cancelled.                                     *)
(***************************************************************************)
EXTENDS Orchestrator, FiniteSetTheorems, TLAPS

States == {"absent"} \cup ACTIVE_JOB_STATES \cup TERMINAL_JOB_STATES

\* A worker inside _await_confirm knows which confirm it asked for.
Asks == \A j \in Jobs : wpc[j] \in {"asked", "parked", "approved", "denied"} => mine[j] \in Confirms

Types == TypeOK /\ Asks

LEMMA Ids == 0 \notin Jobs /\ 0 \notin Confirms /\ 0 \notin Cancellers /\ MaxTurns \in Nat
  BY OrchestratorBounds, NobodyIsZero DEF Jobs, Confirms

LEMMA TypesInit == Init => Types
  BY Ids DEF Init, Types, TypeOK, Asks, NoDecision, WorkerLabels

\* update_job keeps every state a state.
LEMMA UpdateTypes ==
    ASSUME state \in [Jobs -> States], NEW j \in Jobs, NEW s \in States, UpdateJob(j, s)
    PROVE  state' \in [Jobs -> States]
  BY DEF UpdateJob

LEMMA AnnounceTypes ==
    ASSUME told \in [Jobs -> Nat], NEW j \in Jobs, Announce(j) PROVE told' \in [Jobs -> Nat]
<1>1. told[j] + 1 \in Nat
  OBVIOUS
<1> QED
  BY <1>1 DEF Announce

LEMMA StartTypes == ASSUME Types, NEW p \in {0} \cup Jobs, StartJob(p) PROVE Types'
  BY DEF StartJob, Types, TypeOK, Asks, Goto, WorkerLabels, confirmVars, sweepVars,
         ACTIVE_JOB_STATES

LEMMA PoolTypes ==
    ASSUME Types, NEW j \in Jobs, Submit(j) \/ PoolTakes(j) PROVE Types'
  BY DEF Submit, PoolTakes, Types, TypeOK, Asks, Goto, At, WorkerLabels, confirmVars, sweepVars

LEMMA SteppingTypes == ASSUME Types, NEW j \in Jobs, Stepping(j) PROVE Types'
<1>1. CASE LoopCancelled(j)
  BY <1>1 DEF LoopCancelled, Types, TypeOK, Asks, Goto, At, WorkerLabels, confirmVars, sweepVars
<1>2. CASE NextStep(j)
  <2>1. state' \in [Jobs -> States]
    BY <1>2, UpdateTypes DEF NextStep, Types, TypeOK, States, ACTIVE_JOB_STATES
  <2>2. turns' \in [Jobs -> 0..MaxTurns]
    BY <1>2, Ids DEF NextStep, UsesTurn, Types, TypeOK
  <2> QED
    BY <1>2, <2>1, <2>2 DEF NextStep, Types, TypeOK, Asks, Goto, At, WorkerLabels, confirmVars,
                            sweepVars, States
<1>3. CASE StepEnds(j)
  BY <1>3 DEF StepEnds, Types, TypeOK, Asks, Goto, At, WorkerLabels, confirmVars, sweepVars
<1>4. CASE PlanEnds(j)
  BY <1>4 DEF PlanEnds, Types, TypeOK, Asks, Goto, At, WorkerLabels, confirmVars, sweepVars
<1> QED
  BY <1>1, <1>2, <1>3, <1>4 DEF Stepping

LEMMA EndingTypes == ASSUME Types, NEW j \in Jobs, Ending(j) PROVE Types'
<1>1. CASE RecordDone(j)
  <2>1. state' \in [Jobs -> States]
    BY <1>1, UpdateTypes DEF RecordDone, Types, TypeOK, States, TERMINAL_JOB_STATES
  <2> QED
    BY <1>1, <2>1 DEF RecordDone, Types, TypeOK, Asks, Goto, At, WorkerLabels, confirmVars,
                      sweepVars, States
<1>2. CASE TellDone(j)
  <2>1. told' \in [Jobs -> Nat]
    BY <1>2, AnnounceTypes DEF TellDone, Types, TypeOK
  <2> QED
    BY <1>2, <2>1 DEF TellDone, Types, TypeOK, Asks, Goto, At, WorkerLabels, confirmVars,
                      sweepVars
<1>3. CASE FailCheck(j)
  BY <1>3 DEF FailCheck, Types, TypeOK, Asks, Goto, At, WorkerLabels, confirmVars, sweepVars
<1>4. CASE TellFailed(j)
  <2>1. state' \in [Jobs -> States]
    BY <1>4, UpdateTypes DEF TellFailed, Types, TypeOK, States, TERMINAL_JOB_STATES
  <2>2. told' \in [Jobs -> Nat]
    BY <1>4, AnnounceTypes DEF TellFailed, Types, TypeOK
  <2> QED
    BY <1>4, <2>1, <2>2 DEF TellFailed, Types, TypeOK, Asks, Goto, At, WorkerLabels,
                      sweepVars, States
<1>5. CASE Close(j)
  <2>1. state' \in [Jobs -> States]
    <3>1. CASE IsActive(j)
      <4>1. PICK s \in {"cancelled", "failed"} : UpdateJob(j, s)
        BY <1>5, <3>1 DEF Close
      <4> QED
        BY <4>1, UpdateTypes DEF Types, TypeOK, States, TERMINAL_JOB_STATES
    <3>2. CASE ~IsActive(j)
      BY <1>5, <3>2 DEF Close, Types, TypeOK, States
    <3> QED
      BY <3>1, <3>2
  <2>2. shown' \in [Jobs -> {0} \cup Confirms] /\ told' \in [Jobs -> Nat]
    BY <1>5, AnnounceTypes DEF Close, Types, TypeOK
  <2> QED
    BY <1>5, <2>1, <2>2 DEF Close, Types, TypeOK, Asks, Goto, At, WorkerLabels, sweepVars, States
<1> QED
  BY <1>1, <1>2, <1>3, <1>4, <1>5 DEF Ending

LEMMA SpawningTypes == ASSUME Types, NEW j \in Jobs, Spawning(j) PROVE Types'
<1>1. CASE BeginSpawn(j)
  <2>1. turns' \in [Jobs -> 0..MaxTurns]
    BY <1>1, Ids DEF BeginSpawn, UsesTurn, Types, TypeOK
  <2> QED
    BY <1>1, <2>1 DEF BeginSpawn, Types, TypeOK, Asks, Goto, At, WorkerLabels, confirmVars,
                      sweepVars
<1>2. CASE SpawnChild(j)
  BY <1>2, StartTypes DEF SpawnChild
<1>3. CASE EndSpawn(j)
  BY <1>3 DEF EndSpawn, Back, Types, TypeOK, Asks, Goto, At, WorkerLabels, confirmVars, sweepVars
<1>4. CASE Rejoin(j)
  BY <1>4 DEF Rejoin, Back, Types, TypeOK, Asks, Goto, At, WorkerLabels, confirmVars, sweepVars
<1>5. CASE OutOfTime(j)
  BY <1>5, Ids DEF OutOfTime, Back, Types, TypeOK, Asks, Goto, At, WorkerLabels, confirmVars,
                   sweepVars
<1> QED
  BY <1>1, <1>2, <1>3, <1>4, <1>5 DEF Spawning

LEMMA AskingTypes == ASSUME Types, NEW j \in Jobs, Asking(j) PROVE Types'
<1>1. CASE Ask(j)
  BY <1>1 DEF Ask, Types, TypeOK, Asks, Goto, At, WorkerLabels, sweepVars
<1>2. CASE Park(j)
  <2>1. state' \in [Jobs -> States]
    BY <1>2, UpdateTypes DEF Park, Types, TypeOK, States, ACTIVE_JOB_STATES
  <2> QED
    BY <1>2, <2>1 DEF Park, Types, TypeOK, Asks, Goto, At, WorkerLabels, confirmVars, sweepVars,
                      States
<1>3. CASE Wake(j)
  BY <1>3 DEF Wake, Types, TypeOK, Asks, Goto, At, WorkerLabels, sweepVars
<1>4. CASE Approved(j)
  <2>1. state' \in [Jobs -> States]
    BY <1>4, UpdateTypes DEF Approved, Types, TypeOK, States, ACTIVE_JOB_STATES
  <2>2. granted' \subseteq Confirms
    BY <1>4 DEF Approved, At, Types, TypeOK, Asks
  <2> QED
    BY <1>4, <2>1, <2>2 DEF Approved, Types, TypeOK, Asks, Goto, At, WorkerLabels, sweepVars,
                            States
<1>5. CASE Denied(j)
  <2>1. state' \in [Jobs -> States]
    BY <1>5, UpdateTypes DEF Denied, Types, TypeOK, States, ACTIVE_JOB_STATES
  <2> QED
    BY <1>5, <2>1 DEF Denied, SettlesRow, Types, TypeOK, Asks, Goto, At, WorkerLabels, sweepVars,
                      States
<1> QED
  BY <1>1, <1>2, <1>3, <1>4, <1>5 DEF Asking

LEMMA DecidingTypes ==
    ASSUME Types, NEW d \in Deciders, NEW cid \in Confirms \cup {0}, NEW yes \in BOOLEAN,
           Resolve(d, cid, yes) \/ Store(d) \/ Deliver(d)
    PROVE  Types'
<1>1. CASE Resolve(d, cid, yes)
  <2>1. PICK c \in Target(cid, yes), j \in Jobs :
            shown[j] = c /\ decision' = [decision EXCEPT ![d] =
                              [cid |-> c, job |-> j, yes |-> yes, stored |-> FALSE]]
    BY <1>1 DEF Resolve
  <2>2. c \in {0} \cup Confirms
    BY <2>1 DEF Types, TypeOK
  <2> QED
    BY <1>1, <2>1, <2>2 DEF Resolve, Types, TypeOK, Asks, jobVars, confirmVars, sweepVars
<1>2. CASE Store(d)
  <2>1. decision[d] \in [cid : {0} \cup Confirms, job : {0} \cup Jobs, yes : BOOLEAN,
                           stored : BOOLEAN]
    BY DEF Types, TypeOK
  <2>2. /\ [decision[d] EXCEPT !.stored = TRUE] \in
                [cid : {0} \cup Confirms, job : {0} \cup Jobs, yes : BOOLEAN, stored : BOOLEAN]
        /\ NoDecision \in
                [cid : {0} \cup Confirms, job : {0} \cup Jobs, yes : BOOLEAN, stored : BOOLEAN]
    BY <2>1 DEF NoDecision
  <2>3. PICK e \in {[decision[d] EXCEPT !.stored = TRUE], NoDecision} :
            decision' = [decision EXCEPT ![d] = e]
    BY <1>2 DEF Store
  <2>4. decision' \in [Deciders -> [cid : {0} \cup Confirms, job : {0} \cup Jobs,
                                   yes : BOOLEAN, stored : BOOLEAN]]
    BY <2>2, <2>3 DEF Types, TypeOK
  <2>5. row' \in [Confirms -> {"absent", "pending", "approved", "denied", "expired"}]
    BY <1>2 DEF Store, Types, TypeOK
  <2> QED
    BY <1>2, <2>4, <2>5 DEF Store, Types, TypeOK, Asks, jobVars, sweepVars
<1>3. CASE Deliver(d)
  BY <1>3 DEF Deliver, DecideConfirm, NoDecision, Types, TypeOK, Asks, jobVars, sweepVars
<1> QED
  BY <1>1, <1>2, <1>3

LEMMA ClaimTypes == ASSUME Types, NEW k \in Cancellers, NEW j \in Jobs, Claim(k, j) PROVE Types'
<1>1. Doomed(j) \subseteq Jobs
  BY DEF Doomed, Subtree, Children
<1> QED
  BY <1>1 DEF Claim, Types, TypeOK, Asks, jobVars, confirmVars

LEMMA CancellingTypes == ASSUME Types, NEW k \in Cancellers, Cancelling(k) PROVE Types'
<1>1. CASE Flag(k)
  BY <1>1 DEF Flag, Types, TypeOK, Asks
<1>2. CASE Mark(k)
  <2>1. state' \in [Jobs -> States]
    BY <1>2, UpdateTypes DEF Mark, Types, TypeOK, States, TERMINAL_JOB_STATES
  <2> QED
    BY <1>2, <2>1 DEF Mark, Types, TypeOK, Asks, confirmVars, States
<1>3. CASE TellCancelled(k)
  BY <1>3 DEF TellCancelled, DecideConfirm, Announce, Types, TypeOK, Asks
<1> QED
  BY <1>1, <1>2, <1>3 DEF Cancelling

LEMMA TypesStep == ASSUME Types, [Next]_vars PROVE Types'
<1>1. CASE StartJob(0)
  BY <1>1, StartTypes
<1>2. ASSUME NEW j \in Jobs, Submit(j) \/ PoolTakes(j) \/ Worker(j) PROVE Types'
  BY <1>2, PoolTypes, SteppingTypes, EndingTypes, SpawningTypes, AskingTypes DEF Worker
<1>3. ASSUME NEW j \in Jobs, NEW on \in BOOLEAN, SetPaused(j, on) PROVE Types'
  BY <1>3 DEF SetPaused, Types, TypeOK, Asks, confirmVars, sweepVars
<1>4. ASSUME NEW c \in Confirms, Expire(c) PROVE Types'
  BY <1>4 DEF Expire, Types, TypeOK, Asks, jobVars, sweepVars
<1>5. ASSUME NEW d \in Deciders, NEW cid \in Confirms \cup {0}, NEW yes \in BOOLEAN,
             Resolve(d, cid, yes) \/ Store(d) \/ Deliver(d) PROVE Types'
  BY <1>5, DecidingTypes
<1>6. ASSUME NEW d \in Deciders, Store(d) \/ Deliver(d) PROVE Types'
  BY <1>6, DecidingTypes
<1>7. ASSUME NEW k \in Cancellers, NEW j \in Jobs, Claim(k, j) PROVE Types'
  BY <1>7, ClaimTypes
<1>8. ASSUME NEW k \in Cancellers, Cancelling(k) PROVE Types'
  BY <1>8, CancellingTypes
<1>9. CASE UNCHANGED vars
  BY <1>9 DEF vars, jobVars, confirmVars, sweepVars, Types, TypeOK, Asks
<1> QED
  BY <1>1, <1>2, <1>3, <1>4, <1>5, <1>6, <1>7, <1>8, <1>9 DEF Next

\* The registry, the confirmations and the workers' positions keep their types.
THEOREM JobsTypeCorrect == Spec => []TypeOK
<1>1. Types => TypeOK
  BY DEF Types
<1> QED
  BY <1>1, TypesInit, TypesStep, PTL DEF Spec

-----------------------------------------------------------------------------
(* A settled job keeps its result.                                         *)

\* A job is registered, and takes its first state, when start_job makes it.
Registered(j) == wpc[j] # "none" <=> state[j] # "absent"

Unborn(j) == wpc[j] = "none" => ~flag[j] /\ parent[j] = 0

Born == Types /\ \A j \in Jobs : Registered(j) /\ Unborn(j)

\* What a step that is not start_job and not part of a claim does to the registry:
\* a job that is not active stays inactive, and only a flagged job is cancelled.
Calm ==
    /\ UNCHANGED <<parent, flag, lock, doomed, current>>
    /\ \A j \in Jobs : wpc'[j] = "none" <=> wpc[j] = "none"
    /\ \A j \in Jobs : state'[j] = "absent" <=> state[j] = "absent"
    /\ \A j \in Jobs : state[j] \notin ACTIVE_JOB_STATES => state'[j] = state[j]
    /\ \A j \in Jobs : state'[j] = "cancelled" => state[j] = "cancelled" \/ flag[j]

LEMMA UpdateCalms ==
    ASSUME Types, NEW j \in Jobs, state[j] # "absent", NEW s \in States \ {"absent"},
           UpdateJob(j, s), s = "cancelled" => flag[j]
    PROVE  /\ \A i \in Jobs : state'[i] = "absent" <=> state[i] = "absent"
           /\ \A i \in Jobs : state[i] \notin ACTIVE_JOB_STATES => state'[i] = state[i]
           /\ \A i \in Jobs : state'[i] = "cancelled" => state[i] = "cancelled" \/ flag[i]
  BY DEF UpdateJob, Types, TypeOK, States, ACTIVE_JOB_STATES, TERMINAL_JOB_STATES

\* Moving a registered worker to another label leaves the registered jobs as they are.
LEMMA GotoCalms ==
    ASSUME Types, NEW j \in Jobs, wpc[j] # "none", NEW label, label # "none", Goto(j, label)
    PROVE  \A i \in Jobs : wpc'[i] = "none" <=> wpc[i] = "none"
  BY DEF Goto, Types, TypeOK

LEMMA StoreCalms ==
    ASSUME UNCHANGED state
    PROVE  /\ \A i \in Jobs : state'[i] = "absent" <=> state[i] = "absent"
           /\ \A i \in Jobs : state[i] \notin ACTIVE_JOB_STATES => state'[i] = state[i]
           /\ \A i \in Jobs : state'[i] = "cancelled" => state[i] = "cancelled" \/ flag[i]
  OBVIOUS

LEMMA SteppingCalms == ASSUME Born, NEW j \in Jobs, Stepping(j) PROVE Calm
<1>1. wpc[j] # "none" /\ state[j] # "absent"
  BY DEF Stepping, LoopCancelled, NextStep, StepEnds, PlanEnds, At, Born, Registered
<1>2. \A i \in Jobs : wpc'[i] = "none" <=> wpc[i] = "none"
  BY <1>1, GotoCalms DEF Stepping, LoopCancelled, NextStep, StepEnds, PlanEnds, Born
<1>3. CASE NextStep(j)
  BY <1>1, <1>2, <1>3, UpdateCalms DEF NextStep, Calm, Born, States, ACTIVE_JOB_STATES, sweepVars
<1>4. CASE LoopCancelled(j) \/ StepEnds(j) \/ PlanEnds(j)
  BY <1>2, <1>4, StoreCalms DEF LoopCancelled, StepEnds, PlanEnds, Calm, sweepVars
<1> QED
  BY <1>3, <1>4 DEF Stepping

LEMMA EndingCalms == ASSUME Born, NEW j \in Jobs, Ending(j) PROVE Calm
<1>1. wpc[j] # "none" /\ state[j] # "absent"
  BY DEF Ending, RecordDone, TellDone, FailCheck, TellFailed, Close, At, Born, Registered
<1>2. \A i \in Jobs : wpc'[i] = "none" <=> wpc[i] = "none"
  BY <1>1, GotoCalms DEF Ending, RecordDone, TellDone, FailCheck, TellFailed, Close, Born
<1>3. CASE RecordDone(j)
  BY <1>1, <1>2, <1>3, UpdateCalms DEF RecordDone, Calm, Born, States, TERMINAL_JOB_STATES,
                                       sweepVars
<1>4. CASE TellFailed(j)
  BY <1>1, <1>2, <1>4, UpdateCalms DEF TellFailed, Calm, Born, States, TERMINAL_JOB_STATES,
                                       sweepVars
<1>5. CASE TellDone(j) \/ FailCheck(j)
  BY <1>2, <1>5, StoreCalms DEF TellDone, FailCheck, Calm, sweepVars
<1>6. CASE Close(j)
  <2>1. CASE IsActive(j)
    <3>1. PICK s \in {"cancelled", "failed"} : UpdateJob(j, s) /\ (s = "cancelled" => flag[j])
      BY <1>6, <2>1 DEF Close
    <3> QED
      BY <1>1, <1>2, <1>6, <3>1, UpdateCalms DEF Close, Calm, Born, States, TERMINAL_JOB_STATES,
                                                  sweepVars
  <2>2. CASE ~IsActive(j)
    BY <1>2, <1>6, <2>2, StoreCalms DEF Close, Calm, sweepVars
  <2> QED
    BY <2>1, <2>2
<1> QED
  BY <1>3, <1>4, <1>5, <1>6 DEF Ending

LEMMA AskingCalms == ASSUME Born, NEW j \in Jobs, Asking(j) PROVE Calm
<1>1. wpc[j] # "none" /\ state[j] # "absent"
  BY DEF Asking, Ask, Park, Wake, Approved, Denied, At, Born, Registered
<1>2. \A i \in Jobs : wpc'[i] = "none" <=> wpc[i] = "none"
  BY <1>1, GotoCalms DEF Asking, Ask, Park, Wake, Approved, Denied, Born
<1>3. CASE Park(j)
  BY <1>1, <1>2, <1>3, UpdateCalms DEF Park, Calm, Born, States, ACTIVE_JOB_STATES, sweepVars
<1>4. CASE Approved(j)
  BY <1>1, <1>2, <1>4, UpdateCalms DEF Approved, Calm, Born, States, ACTIVE_JOB_STATES, sweepVars
<1>5. CASE Denied(j)
  BY <1>1, <1>2, <1>5, UpdateCalms DEF Denied, Calm, Born, States, ACTIVE_JOB_STATES, sweepVars
<1>6. CASE Ask(j) \/ Wake(j)
  BY <1>2, <1>6, StoreCalms DEF Ask, Wake, Calm, sweepVars
<1> QED
  BY <1>3, <1>4, <1>5, <1>6 DEF Asking

LEMMA SpawningCalms ==
    ASSUME Born, NEW j \in Jobs, Spawning(j), ~SpawnChild(j) PROVE Calm
<1>1. wpc[j] # "none"
  BY DEF Spawning, BeginSpawn, EndSpawn, Rejoin, OutOfTime, At
<1>2. \A i \in Jobs : wpc'[i] = "none" <=> wpc[i] = "none"
  BY <1>1, GotoCalms DEF Spawning, BeginSpawn, EndSpawn, Rejoin, OutOfTime, Back, Born
<1> QED
  BY <1>2, StoreCalms DEF Spawning, BeginSpawn, EndSpawn, Rejoin, OutOfTime, Back, Calm, sweepVars

LEMMA PoolCalms == ASSUME Born, NEW j \in Jobs, Submit(j) \/ PoolTakes(j) PROVE Calm
<1>1. wpc[j] # "none"
  BY DEF Submit, PoolTakes, At
<1>2. \A i \in Jobs : wpc'[i] = "none" <=> wpc[i] = "none"
  BY <1>1, GotoCalms DEF Submit, PoolTakes, Born
<1> QED
  BY <1>2, StoreCalms DEF Submit, PoolTakes, Calm, sweepVars

\* start_job, a claim, a flag and a mark are the only steps that are not calm.
LEMMA MostStepsAreCalm ==
    ASSUME Born, [Next]_vars
    PROVE  \/ Calm
           \/ \E p \in {0} \cup Jobs : StartJob(p)
           \/ \E k \in Cancellers : Flag(k) \/ Mark(k) \/ \E j \in Jobs : Claim(k, j)
<1>1. ASSUME NEW j \in Jobs, Submit(j) \/ PoolTakes(j) \/ Worker(j)
      PROVE  Calm \/ StartJob(j)
  BY <1>1, PoolCalms, SteppingCalms, EndingCalms, AskingCalms, SpawningCalms
     DEF Worker, SpawnChild
<1>2. ASSUME NEW j \in Jobs, NEW on \in BOOLEAN, SetPaused(j, on) PROVE Calm
  BY <1>2, StoreCalms DEF SetPaused, Calm, sweepVars
<1>3. ASSUME NEW c \in Confirms, Expire(c) PROVE Calm
  BY <1>3, StoreCalms DEF Expire, Calm, jobVars, sweepVars
<1>4. ASSUME NEW d \in Deciders, NEW cid \in Confirms \cup {0}, NEW yes \in BOOLEAN,
             Resolve(d, cid, yes)
      PROVE  Calm
  BY <1>4, StoreCalms DEF Resolve, Calm, jobVars, sweepVars
<1>5. ASSUME NEW d \in Deciders, Store(d) \/ Deliver(d) PROVE Calm
  BY <1>5, StoreCalms DEF Store, Deliver, Calm, jobVars, sweepVars
<1>6. ASSUME NEW k \in Cancellers, TellCancelled(k) PROVE Calm
  BY <1>6, StoreCalms DEF TellCancelled, Calm
<1>7. CASE UNCHANGED vars
  BY <1>7, StoreCalms DEF vars, Calm, jobVars, sweepVars
<1>8. CASE Next
  BY <1>1, <1>2, <1>3, <1>4, <1>5, <1>6, <1>8 DEF Next, Cancelling
<1> QED
  BY <1>7, <1>8

-----------------------------------------------------------------------------
(* The invariant of the sweep.                                             *)

\* The tree has two levels.
TwoLevels(j) == parent[j] # 0 => wpc[parent[j]] # "none" /\ parent[parent[j]] = 0

\* A canceller without the lock has nothing left to mark.
Holds(k) == lock # k => doomed[k] = {} /\ current[k] = 0

\* A claim is of registered jobs, and the one being marked was flagged first.
Known(k) == /\ \A j \in doomed[k] : wpc[j] # "none"
            /\ current[k] # 0 => current[k] \in Jobs /\ flag[current[k]]

\* What a claim has still to mark includes the active children of what it has still
\* to mark, and nothing active is left beneath the job being marked.
Swept(k) ==
    \A j \in Jobs : IsActive(j) =>
        /\ parent[j] \in doomed[k] => j \in doomed[k] \/ j = current[k]
        /\ parent[j] # 0 => parent[j] # current[k]

\* A flagged job is settled, or the one its canceller is about to mark.
FlaggedIsMarked(j) ==
    flag[j] /\ IsActive(j) => lock \in Cancellers /\ current[lock] = j

\* The property for one child, and what it rests on: only flagged jobs are cancelled.
NothingBeneath(j) == IsActive(j) /\ parent[j] # 0 => ~flag[parent[j]]
CancelledIsFlagged(j) == state[j] = "cancelled" => flag[j]

SweepInv ==
    /\ Born
    /\ \A j \in Jobs : TwoLevels(j) /\ FlaggedIsMarked(j) /\ NothingBeneath(j)
                       /\ CancelledIsFlagged(j)
    /\ \A k \in Cancellers : Holds(k) /\ Known(k) /\ Swept(k)

LEMMA SweepInit == Init => SweepInv
<1> SUFFICES ASSUME Init PROVE SweepInv
  OBVIOUS
<1>1. Born
  BY TypesInit DEF Born, Registered, Unborn, Init
<1>2. \A j \in Jobs : state[j] = "absent" /\ ~IsActive(j) /\ parent[j] = 0 /\ ~flag[j]
  BY DEF Init, IsActive, ACTIVE_JOB_STATES
<1>3. \A k \in Cancellers : doomed[k] = {} /\ current[k] = 0
  BY DEF Init
<1> QED
  BY <1>1, <1>2, <1>3 DEF SweepInv, TwoLevels, FlaggedIsMarked, NothingBeneath,
                          CancelledIsFlagged, Holds, Known, Swept

LEMMA SweepInherits == SweepInv => CancelReachesSubtree
  BY Ids DEF SweepInv, NothingBeneath, CancelledIsFlagged, CancelReachesSubtree, Children

LEMMA CalmKeepsSweep == ASSUME SweepInv, Types', Calm PROVE SweepInv'
<1>1. \A j \in Jobs : IsActive(j)' => IsActive(j)
  BY DEF Calm, IsActive
<1>2. Born'
  BY DEF Calm, SweepInv, Born, Registered, Unborn
<1>3. ASSUME NEW j \in Jobs
      PROVE  (TwoLevels(j) /\ FlaggedIsMarked(j) /\ NothingBeneath(j) /\ CancelledIsFlagged(j))'
  <2>1. TwoLevels(j)'
    <3>1. parent[j] # 0 => parent[j] \in Jobs
      BY DEF SweepInv, Born, Types, TypeOK
    <3> QED
      BY <3>1 DEF SweepInv, Calm, TwoLevels
  <2>2. (FlaggedIsMarked(j) /\ NothingBeneath(j) /\ CancelledIsFlagged(j))'
    BY <1>1 DEF SweepInv, Calm, FlaggedIsMarked, NothingBeneath, CancelledIsFlagged
  <2> QED
    BY <2>1, <2>2
<1>4. \A k \in Cancellers : Holds(k)' /\ Swept(k)'
  BY <1>1 DEF SweepInv, Calm, Holds, Swept
<1>5. \A k \in Cancellers : Known(k)'
  BY DEF SweepInv, Born, Types, TypeOK, Calm, Known
<1> QED
  BY <1>2, <1>3, <1>4, <1>5 DEF SweepInv

\* A new job's parent is active and unflagged: the lock is free.
LEMMA StartKeepsSweep ==
    ASSUME SweepInv, Types', NEW p \in {0} \cup Jobs, StartJob(p) PROVE SweepInv'
<1> USE Ids
<1>1. PICK n \in Jobs :
          /\ wpc[n] = "none"
          /\ state' = [state EXCEPT ![n] = "running"]
          /\ parent' = [parent EXCEPT ![n] = p]
          /\ wpc' = [wpc EXCEPT ![n] = "created"]
  BY DEF StartJob, Goto
<1>2. UNCHANGED <<flag, lock, doomed, current>> /\ lock = 0
  BY DEF StartJob, sweepVars
<1>3. p # 0 => p \in Jobs /\ IsActive(p) /\ parent[p] = 0 /\ ~flag[p] /\ p # n
               /\ wpc[p] # "none"
  BY <1>1, <1>2 DEF StartJob, Admits, SweepInv, FlaggedIsMarked, Born, Registered, IsActive,
                    ACTIVE_JOB_STATES
<1>4. state[n] = "absent" /\ ~flag[n] /\ parent[n] = 0
  BY <1>1 DEF SweepInv, Born, Registered, Unborn
<1>5. /\ state'[n] = "running" /\ parent'[n] = p /\ wpc'[n] = "created"
      /\ \A j \in Jobs \ {n} : state'[j] = state[j] /\ parent'[j] = parent[j] /\ wpc'[j] = wpc[j]
  BY <1>1 DEF SweepInv, Born, Types, TypeOK
<1>6. \A j \in Jobs : parent[j] # n
  BY <1>1 DEF SweepInv, TwoLevels
<1>7. Born'
  BY <1>2, <1>5 DEF SweepInv, Born, Registered, Unborn
<1>8. ASSUME NEW j \in Jobs
      PROVE  (TwoLevels(j) /\ FlaggedIsMarked(j) /\ NothingBeneath(j) /\ CancelledIsFlagged(j))'
  <2>1. CASE j = n
    BY <1>2, <1>3, <1>4, <1>5, <2>1 DEF TwoLevels, FlaggedIsMarked, NothingBeneath,
                                        CancelledIsFlagged
  <2>2. CASE j # n
    <3>1. parent[j] # 0 => parent[j] \in Jobs \ {n}
      BY <1>6 DEF SweepInv, Born, Types, TypeOK
    <3>2. state'[j] = state[j] /\ parent'[j] = parent[j]
      BY <1>5, <2>2
    <3>3. TwoLevels(j)'
      BY <1>5, <3>1, <3>2 DEF SweepInv, TwoLevels
    <3>4. (FlaggedIsMarked(j) /\ NothingBeneath(j) /\ CancelledIsFlagged(j))'
      BY <1>2, <3>2 DEF SweepInv, FlaggedIsMarked, NothingBeneath, CancelledIsFlagged, IsActive
    <3> QED
      BY <3>3, <3>4
  <2> QED
    BY <2>1, <2>2
<1>9. ASSUME NEW k \in Cancellers PROVE Holds(k)' /\ Known(k)' /\ Swept(k)'
  <2>1. doomed'[k] = {} /\ current'[k] = 0
    BY <1>2 DEF SweepInv, Holds
  <2> QED
    BY <2>1 DEF Holds, Known, Swept
<1> QED
  BY <1>7, <1>8, <1>9 DEF SweepInv

LEMMA ClaimKeepsSweep ==
    ASSUME SweepInv, Types', NEW k \in Cancellers, NEW r \in Jobs, Claim(k, r) PROVE SweepInv'
<1> USE Ids
<1>1. /\ UNCHANGED <<state, parent, wpc, flag, current>> /\ lock = 0 /\ lock' = k
      /\ doomed'[k] = Doomed(r)
      /\ \A i \in Cancellers \ {k} : doomed'[i] = doomed[i]
  BY DEF Claim, jobVars, SweepInv, Born, Types, TypeOK
<1>2. Born'
  BY <1>1 DEF SweepInv, Born, Registered, Unborn
<1>3. ASSUME NEW j \in Jobs
      PROVE  (TwoLevels(j) /\ FlaggedIsMarked(j) /\ NothingBeneath(j) /\ CancelledIsFlagged(j))'
  BY <1>1 DEF SweepInv, TwoLevels, FlaggedIsMarked, NothingBeneath, CancelledIsFlagged, IsActive
<1>4. ASSUME NEW i \in Cancellers, i # k PROVE Holds(i)' /\ Known(i)' /\ Swept(i)'
  <2>1. doomed'[i] = {} /\ current'[i] = 0
    BY <1>1, <1>4 DEF SweepInv, Holds
  <2> QED
    BY <2>1 DEF Holds, Known, Swept
<1>5. Holds(k)' /\ Known(k)'
  <2>1. \A j \in Doomed(r) : wpc[j] # "none"
    BY DEF Doomed, Subtree, Children, SweepInv, Born, Registered, IsActive, ACTIVE_JOB_STATES
  <2>2. current[k] = 0
    BY <1>1 DEF SweepInv, Holds
  <2> QED
    BY <1>1, <2>1, <2>2 DEF Holds, Known
<1>6. Swept(k)'
  <2>1. current'[k] = 0
    BY <1>1 DEF SweepInv, Holds
  <2>2. ASSUME NEW j \in Jobs, IsActive(j), parent[j] \in Doomed(r) PROVE j \in Doomed(r)
    <3>1. wpc[j] # "none"
      BY <2>2 DEF SweepInv, Born, Registered, IsActive, ACTIVE_JOB_STATES
    <3>2. parent[j] \in Jobs /\ parent[j] # 0
      BY <2>2 DEF Doomed, Subtree, Children
    <3>3. parent[j] = r
      BY <2>2, <3>2 DEF Doomed, Subtree, Children, SweepInv, TwoLevels
    <3> QED
      BY <2>2, <3>1, <3>3 DEF Doomed, Subtree, Children
  <2> QED
    BY <1>1, <2>1, <2>2 DEF Swept, IsActive
<1> QED
  BY <1>2, <1>3, <1>4, <1>5, <1>6 DEF SweepInv

LEMMA FlagKeepsSweep ==
    ASSUME SweepInv, Types', NEW k \in Cancellers, Flag(k) PROVE SweepInv'
<1> USE Ids
<1>1. PICK f \in doomed[k] :
          /\ \A i \in doomed[k] : parent[i] # f
          /\ flag' = [flag EXCEPT ![f] = TRUE]
          /\ current' = [current EXCEPT ![k] = f]
          /\ doomed' = [doomed EXCEPT ![k] = doomed[k] \ {f}]
  BY DEF Flag
<1>2. UNCHANGED <<state, parent, wpc, lock>> /\ lock = k /\ current[k] = 0
  BY DEF Flag
<1>3. /\ f \in Jobs /\ flag'[f] /\ current'[k] = f /\ doomed'[k] = doomed[k] \ {f}
      /\ \A j \in Jobs \ {f} : flag'[j] = flag[j]
      /\ \A i \in Cancellers \ {k} : current'[i] = current[i] /\ doomed'[i] = doomed[i]
  BY <1>1 DEF SweepInv, Born, Types, TypeOK
<1>4. \A j \in Jobs : IsActive(j) => parent[j] # f
  BY <1>1, <1>2 DEF SweepInv, Swept
<1>5. Born'
  BY <1>1, <1>2, <1>3 DEF SweepInv, Known, Born, Registered, Unborn
<1>6. ASSUME NEW j \in Jobs
      PROVE  (TwoLevels(j) /\ FlaggedIsMarked(j) /\ NothingBeneath(j) /\ CancelledIsFlagged(j))'
  <2>1. (TwoLevels(j) /\ CancelledIsFlagged(j))'
    BY <1>2, <1>3 DEF SweepInv, TwoLevels, CancelledIsFlagged
  <2>2. FlaggedIsMarked(j)'
    BY <1>2, <1>3 DEF SweepInv, FlaggedIsMarked, IsActive
  <2>3. NothingBeneath(j)'
    BY <1>2, <1>3, <1>4 DEF SweepInv, Born, Types, TypeOK, NothingBeneath, IsActive
  <2> QED
    BY <2>1, <2>2, <2>3
<1>7. ASSUME NEW i \in Cancellers, i # k PROVE Holds(i)' /\ Known(i)' /\ Swept(i)'
  <2>1. doomed'[i] = {} /\ current'[i] = 0
    BY <1>2, <1>3, <1>7 DEF SweepInv, Holds
  <2> QED
    BY <2>1 DEF Holds, Known, Swept
<1>8. Holds(k)' /\ Known(k)'
  BY <1>2, <1>3 DEF SweepInv, Holds, Known
<1>9. Swept(k)'
  <2> SUFFICES ASSUME NEW j \in Jobs, IsActive(j)
               PROVE  /\ parent[j] \in doomed'[k] => j \in doomed'[k] \/ j = f
                      /\ parent[j] # f
    BY <1>2, <1>3 DEF Swept, IsActive
  <2> QED
    BY <1>2, <1>3, <1>4 DEF SweepInv, Swept
<1> QED
  BY <1>5, <1>6, <1>7, <1>8, <1>9 DEF SweepInv

LEMMA MarkKeepsSweep ==
    ASSUME SweepInv, Types', NEW k \in Cancellers, Mark(k) PROVE SweepInv'
<1> USE Ids
<1> DEFINE f == current[k]
<1>1. f \in Jobs /\ flag[f] /\ lock = k /\ f # 0
  BY DEF Mark, SweepInv, Known
<1>2. /\ UNCHANGED <<parent, wpc, flag, doomed>> /\ current'[k] = 0
      /\ \A i \in Cancellers \ {k} : current'[i] = current[i]
      /\ lock' = IF doomed[k] = {} THEN 0 ELSE k
  BY DEF Mark, SweepInv, Born, Types, TypeOK
<1>3. /\ state'[f] \in TERMINAL_JOB_STATES
      /\ \A j \in Jobs \ {f} : state'[j] = state[j]
      /\ state[f] \in TERMINAL_JOB_STATES => state'[f] = state[f]
  BY <1>1 DEF Mark, UpdateJob, SweepInv, Born, Types, TypeOK, TERMINAL_JOB_STATES
<1>4. state[f] # "absent" /\ state'[f] # "absent" /\ state'[f] \notin ACTIVE_JOB_STATES
  BY <1>1, <1>3 DEF SweepInv, Born, Registered, Unborn, ACTIVE_JOB_STATES, TERMINAL_JOB_STATES
<1> HIDE DEF f
<1>5. \A j \in Jobs : IsActive(j)' => IsActive(j) /\ j # f
  BY <1>3, <1>4 DEF IsActive
<1>6. Born'
  BY <1>2, <1>3, <1>4 DEF SweepInv, Born, Registered, Unborn
<1>7. ASSUME NEW j \in Jobs
      PROVE  (TwoLevels(j) /\ FlaggedIsMarked(j) /\ NothingBeneath(j) /\ CancelledIsFlagged(j))'
  <2>1. (TwoLevels(j) /\ NothingBeneath(j))'
    BY <1>2, <1>5 DEF SweepInv, TwoLevels, NothingBeneath
  <2>2. FlaggedIsMarked(j)'
    BY <1>1, <1>2, <1>5 DEF SweepInv, FlaggedIsMarked, f
  <2>3. CancelledIsFlagged(j)'
    BY <1>1, <1>2, <1>3 DEF SweepInv, CancelledIsFlagged
  <2> QED
    BY <2>1, <2>2, <2>3
<1>8. ASSUME NEW i \in Cancellers, i # k PROVE Holds(i)' /\ Known(i)' /\ Swept(i)'
  <2>1. doomed'[i] = {} /\ current'[i] = 0
    BY <1>1, <1>2, <1>8 DEF SweepInv, Holds
  <2> QED
    BY <2>1 DEF Holds, Known, Swept
<1>9. Holds(k)' /\ Known(k)'
  BY <1>1, <1>2 DEF SweepInv, Holds, Known
<1>10. Swept(k)'
  <2> SUFFICES ASSUME NEW j \in Jobs, IsActive(j)'
               PROVE  parent[j] \in doomed[k] => j \in doomed[k]
    BY <1>2 DEF Swept
  <2> QED
    BY <1>5 DEF SweepInv, Swept, f
<1> QED
  BY <1>6, <1>7, <1>8, <1>9, <1>10 DEF SweepInv

LEMMA SweepStep == ASSUME SweepInv, [Next]_vars PROVE SweepInv'
<1>1. Born /\ Types'
  BY TypesStep DEF SweepInv, Born
<1> QED
  BY <1>1, MostStepsAreCalm, CalmKeepsSweep, StartKeepsSweep, ClaimKeepsSweep, FlagKeepsSweep,
     MarkKeepsSweep

\* The sweep's invariant holds in every reachable state.
THEOREM SweepInvariant == Spec => []SweepInv
  BY SweepInit, SweepStep, PTL DEF Spec

\* Nothing is active beneath a job that a cancel has flagged.
THEOREM CancelSweepsSubtree == Spec => []CancelReachesSubtree
  BY SweepInvariant, SweepInherits, PTL

\* No worker, confirm or cancel rewrites the result of a settled job.
THEOREM SettledStays == Spec => SettledIsFinal
<1>1. ASSUME SweepInv, [Next]_vars, NEW j \in Jobs, state[j] \in TERMINAL_JOB_STATES
      PROVE  state'[j] = state[j]
  <2>1. Born
    BY <1>1 DEF SweepInv
  <2>2. state[j] \notin ACTIVE_JOB_STATES /\ state[j] # "absent"
    BY <1>1 DEF TERMINAL_JOB_STATES, ACTIVE_JOB_STATES
  <2>3. CASE Calm
    BY <2>2, <2>3 DEF Calm
  <2>4. ASSUME NEW p \in {0} \cup Jobs, StartJob(p) PROVE state'[j] = state[j]
    BY <2>1, <2>2, <2>4 DEF StartJob, Born, Registered, Types, TypeOK
  <2>5. ASSUME NEW k \in Cancellers, Flag(k) \/ Mark(k) \/ \E r \in Jobs : Claim(k, r)
        PROVE  state'[j] = state[j]
    BY <1>1, <2>1, <2>5 DEF Flag, Mark, Claim, UpdateJob, jobVars, Born, Types, TypeOK
  <2> QED
    BY <1>1, <2>1, <2>3, <2>4, <2>5, MostStepsAreCalm
<1>2. SweepInv /\ [Next]_vars =>
          [\A j \in Jobs : state[j] \in TERMINAL_JOB_STATES => state'[j] = state[j]]_vars
  BY <1>1
<1> QED
  BY <1>2, SweepInvariant, PTL DEF Spec, SettledIsFinal

-----------------------------------------------------------------------------
(* The registry implements the life of a job, fairness aside.              *)

Statuses == [j \in Jobs |-> PublicStatus(j)]

\* A step that writes the state of one registered job, and neither the tree nor the
\* jobs a cancel has reached.
Writes(j, s) ==
    /\ UpdateJob(j, s)
    /\ state[j] # "absent" /\ s \in States \ {"absent"} /\ (s = "cancelled" => flag[j])
WritesOne ==
    /\ UNCHANGED <<parent, flag, doomed>>
    /\ \/ UNCHANGED state
       \/ \E j \in Jobs, s \in States : Writes(j, s)

LEMMA WorkerWritesOne ==
    ASSUME Born, NEW j \in Jobs, Submit(j) \/ PoolTakes(j) \/ Worker(j)
    PROVE  WritesOne \/ StartJob(j)
<1>1. state[j] # "absent" <=> wpc[j] # "none"
  BY DEF Born, Registered
<1>2. CASE Submit(j) \/ PoolTakes(j)
  BY <1>2 DEF Submit, PoolTakes, WritesOne, sweepVars
<1>3. CASE Stepping(j)
  <2>1. wpc[j] # "none" /\ UNCHANGED <<parent, flag, doomed>>
    BY <1>3 DEF Stepping, LoopCancelled, NextStep, StepEnds, PlanEnds, At, sweepVars
  <2>2. UNCHANGED state \/ UpdateJob(j, "running")
    BY <1>3 DEF Stepping, LoopCancelled, NextStep, StepEnds, PlanEnds
  <2> QED
    BY <1>1, <2>1, <2>2 DEF WritesOne, Writes, States, ACTIVE_JOB_STATES
<1>4. CASE Ending(j)
  <2>1. wpc[j] # "none" /\ UNCHANGED <<parent, flag, doomed>>
    BY <1>4 DEF Ending, RecordDone, TellDone, FailCheck, TellFailed, Close, At, sweepVars
  <2>2. \/ UNCHANGED state
        \/ \E s \in TERMINAL_JOB_STATES : UpdateJob(j, s) /\ (s = "cancelled" => flag[j])
    BY <1>4 DEF Ending, RecordDone, TellDone, FailCheck, TellFailed, Close, TERMINAL_JOB_STATES
  <2> QED
    BY <1>1, <2>1, <2>2 DEF WritesOne, Writes, States, TERMINAL_JOB_STATES
<1>5. CASE Spawning(j) /\ ~SpawnChild(j)
  BY <1>5 DEF Spawning, BeginSpawn, EndSpawn, Rejoin, OutOfTime, Back, WritesOne, sweepVars
<1>6. CASE SpawnChild(j)
  BY <1>6 DEF SpawnChild
<1>7. CASE Asking(j)
  <2>1. wpc[j] # "none" /\ UNCHANGED <<parent, flag, doomed>>
    BY <1>7 DEF Asking, Ask, Park, Wake, Approved, Denied, At, sweepVars
  <2>2. UNCHANGED state \/ \E s \in ACTIVE_JOB_STATES : UpdateJob(j, s)
    BY <1>7 DEF Asking, Ask, Park, Wake, Approved, Denied, ACTIVE_JOB_STATES
  <2> QED
    BY <1>1, <2>1, <2>2 DEF WritesOne, Writes, States, ACTIVE_JOB_STATES
<1> QED
  BY <1>2, <1>3, <1>4, <1>5, <1>6, <1>7 DEF Worker

\* start_job, a claim and a flag are the only steps that write more than one state.
LEMMA MostStepsWriteOne ==
    ASSUME SweepInv, [Next]_vars
    PROVE  \/ WritesOne
           \/ \E p \in {0} \cup Jobs : StartJob(p)
           \/ \E k \in Cancellers : Flag(k) \/ \E j \in Jobs : Claim(k, j)
<1>1. ASSUME NEW j \in Jobs, NEW on \in BOOLEAN, SetPaused(j, on) PROVE WritesOne
  BY <1>1 DEF SetPaused, WritesOne, sweepVars
<1>2. ASSUME NEW c \in Confirms, Expire(c) PROVE WritesOne
  BY <1>2 DEF Expire, WritesOne, jobVars, sweepVars
<1>3. ASSUME NEW d \in Deciders, NEW cid, NEW yes, Resolve(d, cid, yes) PROVE WritesOne
  BY <1>3 DEF Resolve, WritesOne, jobVars, sweepVars
<1>4. ASSUME NEW d \in Deciders, Store(d) \/ Deliver(d) PROVE WritesOne
  BY <1>4 DEF Store, Deliver, WritesOne, jobVars, sweepVars
<1>5. ASSUME NEW k \in Cancellers, TellCancelled(k) PROVE WritesOne
  BY <1>5 DEF TellCancelled, WritesOne
<1>6. ASSUME NEW k \in Cancellers, Mark(k) PROVE WritesOne
  <2>1. Known(k) /\ current[k] # 0
    BY <1>6 DEF Mark, SweepInv
  <2>2. current[k] \in Jobs /\ flag[current[k]]
    BY <2>1 DEF Known
  <2>3. state[current[k]] # "absent"
    BY <2>2 DEF SweepInv, Born, Registered, Unborn
  <2> QED
    BY <1>6, <2>2, <2>3 DEF Mark, WritesOne, Writes, States, TERMINAL_JOB_STATES
<1>7. CASE UNCHANGED vars
  BY <1>7 DEF vars, WritesOne, jobVars, sweepVars
<1>8. CASE Next
  BY <1>1, <1>2, <1>3, <1>4, <1>5, <1>6, <1>8, WorkerWritesOne DEF Next, Cancelling, SweepInv
<1> QED
  BY <1>7, <1>8

\* The public status of a job that a write leaves alone, and of one it changes.
LEMMA WriteIsSettle ==
    ASSUME SweepInv, WritesOne
    PROVE  Life!Next \/ UNCHANGED Life!vars
<1>1. UNCHANGED <<parent, Reached>>
  BY DEF WritesOne, Reached
<1>2. CASE UNCHANGED state
  <2>1. UNCHANGED Statuses
    BY <1>2 DEF Statuses, PublicStatus, IsActive
  <2> QED
    BY <1>1, <2>1 DEF Life!vars, Statuses
<1>3. ASSUME NEW j \in Jobs, NEW s \in States, Writes(j, s)
      PROVE  Life!Next \/ UNCHANGED Life!vars
  <2>1. state \in [Jobs -> States]
    BY DEF SweepInv, Born, Types, TypeOK, States
  <2>2. CASE state[j] \in ACTIVE_JOB_STATES /\ s \in TERMINAL_JOB_STATES
    <3>1. state' = [state EXCEPT ![j] = s]
      BY <1>3, <2>2 DEF Writes, UpdateJob, ACTIVE_JOB_STATES, TERMINAL_JOB_STATES
    <3>2. Statuses' = [Statuses EXCEPT ![j] = s]
      BY <2>1, <2>2, <3>1 DEF Statuses, PublicStatus, IsActive, ACTIVE_JOB_STATES,
                              TERMINAL_JOB_STATES
    <3>3. Statuses[j] = "active" /\ (s = "cancelled" => j \in Reached)
      BY <1>3, <2>2 DEF Statuses, PublicStatus, IsActive, Writes, Reached
    <3>4. s \in Life!Endings
      BY <2>2 DEF TERMINAL_JOB_STATES, Life!Endings
    <3> QED
      BY <1>1, <3>2, <3>3, <3>4 DEF Life!Next, Life!Settle, Life!Active, Statuses
  <2>3. CASE ~(state[j] \in ACTIVE_JOB_STATES /\ s \in TERMINAL_JOB_STATES)
    <3>1. \A i \in Jobs : PublicStatus(i)' = PublicStatus(i)
      BY <1>3, <2>1, <2>3 DEF Writes, UpdateJob, PublicStatus, IsActive, States,
                              ACTIVE_JOB_STATES, TERMINAL_JOB_STATES
    <3> QED
      BY <1>1, <3>1 DEF Life!vars
  <2> QED
    BY <2>2, <2>3
<1> QED
  BY <1>2, <1>3 DEF WritesOne

LEMMA StartIsStart ==
    ASSUME SweepInv, NEW p \in {0} \cup Jobs, StartJob(p) PROVE Life!Next
<1> USE Ids
<1>1. PICK n \in Jobs :
          /\ wpc[n] = "none"
          /\ state' = [state EXCEPT ![n] = "running"]
          /\ parent' = [parent EXCEPT ![n] = p]
  BY DEF StartJob
<1>2. UNCHANGED <<flag, doomed>> /\ lock = 0 /\ Admits(p)
  BY DEF StartJob, sweepVars
<1>3. UNCHANGED Reached
  BY <1>2 DEF Reached
<1>4. state[n] = "absent" /\ state \in [Jobs -> States]
  BY <1>1 DEF SweepInv, Born, Registered, Types, TypeOK, States
<1>5. Statuses[n] = "absent" /\ Statuses' = [Statuses EXCEPT ![n] = "active"]
  BY <1>1, <1>4 DEF Statuses, PublicStatus, IsActive, ACTIVE_JOB_STATES
<1>6. ASSUME p \in Jobs PROVE Statuses[p] = "active" /\ p \notin Reached
  <2>1. IsActive(p)
    BY <1>2, <1>6 DEF Admits
  <2>2. ~flag[p]
    BY <1>2, <1>6, <2>1 DEF SweepInv, FlaggedIsMarked
  <2>3. \A k \in Cancellers : doomed[k] = {}
    BY <1>2 DEF SweepInv, Holds
  <2> QED
    BY <1>6, <2>1, <2>2, <2>3 DEF Statuses, PublicStatus, Reached
<1>7. Life!Start(n, p)
  BY <1>1, <1>3, <1>5, <1>6 DEF Life!Start, Life!Active, Statuses
<1> QED
  BY <1>7 DEF Life!Next

LEMMA ClaimIsStop ==
    ASSUME SweepInv, NEW k \in Cancellers, NEW r \in Jobs, Claim(k, r) PROVE Life!Next
<1> USE Ids
<1>1. UNCHANGED <<state, parent, flag>> /\ lock = 0
  BY DEF Claim, jobVars
<1>2. /\ doomed[k] = {} /\ doomed'[k] = Doomed(r)
      /\ \A i \in Cancellers \ {k} : doomed'[i] = doomed[i]
  BY <1>1 DEF Claim, SweepInv, Holds, Born, Types, TypeOK
<1>3. Reached' = Reached \cup Doomed(r)
  <2>1. Doomed(r) \subseteq Jobs
    BY DEF Doomed, Subtree, Children
  <2> QED
    BY <1>1, <1>2, <2>1 DEF Reached
<1>4. UNCHANGED Statuses
  BY <1>1 DEF Statuses, PublicStatus, IsActive
<1>5. Doomed(r) = {i \in Jobs : Statuses[i] = "active" /\ (i = r \/ parent[i] = r)}
  <2>1. \A i \in Jobs : Statuses[i] = "active" <=> IsActive(i)
    BY DEF Statuses, PublicStatus, IsActive, SweepInv, Born, Types, TypeOK, ACTIVE_JOB_STATES,
           TERMINAL_JOB_STATES
  <2>2. \A i \in Jobs : IsActive(i) => wpc[i] # "none"
    BY DEF SweepInv, Born, Registered, IsActive, ACTIVE_JOB_STATES
  <2> QED
    BY <2>1, <2>2 DEF Doomed, Subtree, Children
<1>6. Life!Stop(r)
  BY <1>1, <1>3, <1>4, <1>5 DEF Life!Stop, Life!Active, Statuses
<1> QED
  BY <1>6 DEF Life!Next

LEMMA FlagIsStutter ==
    ASSUME SweepInv, NEW k \in Cancellers, Flag(k) PROVE UNCHANGED Life!vars
<1>1. PICK f \in doomed[k] :
          /\ flag' = [flag EXCEPT ![f] = TRUE]
          /\ doomed' = [doomed EXCEPT ![k] = doomed[k] \ {f}]
  BY DEF Flag
<1>2. /\ f \in Jobs /\ flag'[f] /\ doomed'[k] = doomed[k] \ {f}
      /\ \A j \in Jobs \ {f} : flag'[j] = flag[j]
      /\ \A i \in Cancellers \ {k} : doomed'[i] = doomed[i]
  BY <1>1 DEF SweepInv, Born, Types, TypeOK
<1>3. UNCHANGED Reached
  <2>1. \A j \in Jobs \ {f} :
            (\E i \in Cancellers : j \in doomed'[i]) <=> (\E i \in Cancellers : j \in doomed[i])
    BY <1>2
  <2>2. f \in Reached /\ f \in Reached'
    BY <1>1, <1>2 DEF Reached
  <2> QED
    BY <1>2, <2>1, <2>2 DEF Reached
<1>4. UNCHANGED <<state, parent>>
  BY DEF Flag
<1> QED
  BY <1>3, <1>4 DEF Life!vars, PublicStatus, IsActive

\* The registry starts as the life of a job starts, and each of its steps is a start, a
\* stop or a settling of one job, or leaves what the rest of the program sees alone.
THEOREM RegistryImplementsJobLife == Spec => Life!Safety
<1>1. Init => Life!Init
  BY Ids DEF Init, Life!Init, PublicStatus, IsActive, ACTIVE_JOB_STATES, Reached
<1>2. SweepInv /\ [Next]_vars => [Life!Next]_Life!vars
  BY MostStepsWriteOne, WriteIsSettle, StartIsStart, ClaimIsStop, FlagIsStutter
<1> QED
  BY <1>1, <1>2, SweepInvariant, PTL DEF Spec, Life!Safety

-----------------------------------------------------------------------------
(* Confirmations: an approval is spent once, and leaves no ghost.          *)

\* The labels of a worker inside _await_confirm.
Confirming == {"asked", "parked", "approved", "denied"}

\* A confirm has a row from the moment a job asks for it.
Rowed(c) == asker[c] = 0 <=> row[c] = "absent"
GrantedWasAsked == \A c \in granted : asker[c] # 0

\* A worker waits for one confirm of its own, not let through yet, and what its job
\* shows is that one.
ShowsMine(j) == shown[j] # 0 => mine[j] = shown[j] /\ wpc[j] \in {"asked", "parked"}
AsksOne(j) ==
    /\ mine[j] # 0 <=> wpc[j] \in Confirming
    /\ mine[j] # 0 => asker[mine[j]] = j /\ mine[j] \notin granted

\* Somebody still waits for a pending confirm that was not let through.
PendingIsAwaited(c) == row[c] = "pending" /\ c \notin granted => mine[asker[c]] = c

\* A decision names a confirm and the job it belongs to, and one that was stored is
\* in the row.
DecidesAsked(d) ==
    decision[d] # NoDecision =>
        /\ decision[d].cid \in Confirms /\ decision[d].job \in Jobs
        /\ asker[decision[d].cid] = decision[d].job
        /\ decision[d].stored =>
              row[decision[d].cid] = IF decision[d].yes THEN "approved" ELSE "denied"

\* No two threads carry the stored decision of one confirm.
OneCarrier ==
    \A d, e \in Deciders :
        decision[d].stored /\ decision[e].stored /\ decision[d].cid = decision[e].cid => d = e

\* The approvals of a job: given, on their way from the row to the job, waiting in
\* the job, and spent.
Given(j) == {c \in AskedBy(j) : row[c] = "approved"}
Carries(d, c) == decision[d].stored /\ decision[d].yes /\ decision[d].cid = c
InFlight(j) == {c \in AskedBy(j) : \E d \in Deciders : Carries(d, c)}
Held(j) == wpc[j] = "approved" \/ (wpc[j] \in {"asked", "parked"} /\ ready[j] /\ answer[j])
Spent(j) == granted \cap AskedBy(j)

Balance(j) ==
    Cardinality(Spent(j)) + Cardinality(InFlight(j)) + (IF Held(j) THEN 1 ELSE 0)
        <= Cardinality(Given(j))

ConfirmParts ==
    /\ GrantedWasAsked /\ OneCarrier
    /\ \A c \in Confirms : Rowed(c) /\ PendingIsAwaited(c)
    /\ \A j \in Jobs : ShowsMine(j) /\ AsksOne(j)
    /\ \A d \in Deciders : DecidesAsked(d)

ConfirmInv == Types /\ ConfirmParts /\ \A j \in Jobs : Balance(j)

LEMMA ConfirmsFinite ==
    ASSUME NEW S \in SUBSET Confirms
    PROVE  IsFiniteSet(S) /\ Cardinality(S) \in Nat
<1>1. MaxConfirms \in Int
  BY OrchestratorBounds
<1>2. IsFiniteSet(Confirms)
  BY <1>1, FS_Interval DEF Confirms
<1> QED
  BY <1>2, FS_Subset, FS_CardinalityType

LEMMA OneMore ==
    ASSUME NEW S \in SUBSET Confirms, NEW c \in Confirms \ S
    PROVE  Cardinality(S \cup {c}) = Cardinality(S) + 1
  BY ConfirmsFinite, FS_AddElement

LEMMA OneLess ==
    ASSUME NEW S \in SUBSET Confirms, NEW c \in S
    PROVE  Cardinality(S \ {c}) = Cardinality(S) - 1
  BY ConfirmsFinite, FS_RemoveElement

LEMMA NoMore ==
    ASSUME NEW S \in SUBSET Confirms, NEW T \in SUBSET S
    PROVE  Cardinality(T) <= Cardinality(S)
  BY ConfirmsFinite, FS_Subset

LEMMA Accounts == ASSUME NEW j PROVE {Given(j), InFlight(j), Spent(j)} \subseteq SUBSET Confirms
  BY DEF Given, InFlight, Spent, AskedBy

\* A step that spends nothing, and puts nothing on its way, keeps the balance.
LEMMA BalanceKept ==
    ASSUME NEW j \in Jobs, Balance(j), Spent(j)' = Spent(j), InFlight(j)' \subseteq InFlight(j),
           Held(j)' => Held(j), Given(j) \subseteq Given(j)', Given(j)' \subseteq Confirms
    PROVE  Balance(j)'
<1>1. /\ Cardinality(InFlight(j)') <= Cardinality(InFlight(j))
      /\ Cardinality(Given(j)) <= Cardinality(Given(j)')
  BY Accounts, NoMore
<1>2. /\ Cardinality(Given(j)) \in Nat /\ Cardinality(Given(j)') \in Nat
      /\ Cardinality(InFlight(j)) \in Nat /\ Cardinality(InFlight(j)') \in Nat
      /\ Cardinality(Spent(j)) \in Nat
  BY Accounts, ConfirmsFinite
<1> QED
  BY <1>1, <1>2 DEF Balance

LEMMA ConfirmInit == Init => ConfirmInv
<1> SUFFICES ASSUME Init PROVE ConfirmInv
  OBVIOUS
<1>1. Types
  BY TypesInit
<1>2. ConfirmParts
  BY Ids DEF Init, ConfirmParts, GrantedWasAsked, OneCarrier, Rowed, PendingIsAwaited, ShowsMine,
             AsksOne, DecidesAsked, Confirming, NoDecision
<1>3. ASSUME NEW j \in Jobs PROVE Balance(j)
  <2>1. Spent(j) = {} /\ InFlight(j) = {} /\ Given(j) = {} /\ ~Held(j)
    BY DEF Init, Spent, InFlight, Given, Held, AskedBy, Carries, NoDecision
  <2> QED
    BY <2>1, FS_EmptySet DEF Balance
<1> QED
  BY <1>1, <1>2, <1>3 DEF ConfirmInv

\* What a step outside the confirmations leaves alone; it may stop showing a confirm.
Quiet ==
    /\ UNCHANGED <<ready, answer, mine, asker, row, granted, decision>>
    /\ \A j \in Jobs : shown'[j] \in {0, shown[j]}
    /\ \A j \in Jobs : wpc[j] \in Confirming \/ wpc'[j] \in Confirming => wpc'[j] = wpc[j]

LEMMA GotoQuiets ==
    ASSUME Types, NEW j \in Jobs, wpc[j] \notin Confirming, NEW label, label \notin Confirming,
           Goto(j, label)
    PROVE  \A i \in Jobs : wpc[i] \in Confirming \/ wpc'[i] \in Confirming => wpc'[i] = wpc[i]
  BY DEF Goto, Types, TypeOK

LEMMA StartQuiet == ASSUME Types, NEW p, StartJob(p) PROVE Quiet
<1>1. PICK j \in Jobs : wpc[j] = "none" /\ Goto(j, "created")
  BY DEF StartJob
<1>2. \A i \in Jobs : wpc[i] \in Confirming \/ wpc'[i] \in Confirming => wpc'[i] = wpc[i]
  BY <1>1, GotoQuiets DEF Confirming
<1> QED
  BY <1>2 DEF StartJob, Quiet, confirmVars

LEMMA WorkerQuiet ==
    ASSUME Types, NEW j \in Jobs, Submit(j) \/ PoolTakes(j) \/ Worker(j)
    PROVE  Quiet \/ Asking(j)
<1>1. CASE Submit(j) \/ PoolTakes(j)
  <2>1. \A i \in Jobs : wpc[i] \in Confirming \/ wpc'[i] \in Confirming => wpc'[i] = wpc[i]
    BY <1>1, GotoQuiets DEF Submit, PoolTakes, At, Confirming
  <2> QED
    BY <1>1, <2>1 DEF Submit, PoolTakes, Quiet, confirmVars
<1>2. CASE Stepping(j)
  <2>1. \A i \in Jobs : wpc[i] \in Confirming \/ wpc'[i] \in Confirming => wpc'[i] = wpc[i]
    BY <1>2, GotoQuiets DEF Stepping, LoopCancelled, NextStep, StepEnds, PlanEnds, At, Confirming
  <2> QED
    BY <1>2, <2>1 DEF Stepping, LoopCancelled, NextStep, StepEnds, PlanEnds, Quiet, confirmVars
<1>3. CASE Ending(j)
  <2>1. \A i \in Jobs : wpc[i] \in Confirming \/ wpc'[i] \in Confirming => wpc'[i] = wpc[i]
    BY <1>3, GotoQuiets DEF Ending, RecordDone, TellDone, FailCheck, TellFailed, Close, At,
                            Confirming
  <2>2. \A i \in Jobs : shown'[i] \in {0, shown[i]}
    BY <1>3 DEF Ending, RecordDone, TellDone, FailCheck, TellFailed, Close, confirmVars, Types,
                TypeOK
  <2>3. UNCHANGED <<ready, answer, mine, asker, row, granted, decision>>
    BY <1>3 DEF Ending, RecordDone, TellDone, FailCheck, TellFailed, Close, confirmVars
  <2> QED
    BY <2>1, <2>2, <2>3 DEF Quiet
<1>4. CASE Spawning(j) /\ ~SpawnChild(j)
  <2>1. \A i \in Jobs : wpc[i] \in Confirming \/ wpc'[i] \in Confirming => wpc'[i] = wpc[i]
    BY <1>4, GotoQuiets DEF Spawning, BeginSpawn, EndSpawn, Rejoin, OutOfTime, Back, At,
                            Confirming
  <2> QED
    BY <1>4, <2>1 DEF Spawning, BeginSpawn, EndSpawn, Rejoin, OutOfTime, Back, Quiet, confirmVars
<1>5. CASE SpawnChild(j)
  BY <1>5, StartQuiet DEF SpawnChild
<1> QED
  BY <1>1, <1>2, <1>3, <1>4, <1>5 DEF Worker

\* Quiet steps aside, a step is one of the confirmations' own.
LEMMA MostStepsAreQuiet ==
    ASSUME Types, [Next]_vars
    PROVE  \/ Quiet
           \/ \E j \in Jobs : Asking(j)
           \/ \E c \in Confirms : Expire(c)
           \/ \E d \in Deciders : \/ \E cid \in Confirms \cup {0}, yes \in BOOLEAN :
                                          Resolve(d, cid, yes)
                                  \/ Store(d) \/ Deliver(d)
           \/ \E k \in Cancellers : TellCancelled(k)
<1>1. ASSUME NEW j \in Jobs, NEW on \in BOOLEAN, SetPaused(j, on) PROVE Quiet
  BY <1>1 DEF SetPaused, Quiet, confirmVars
<1>2. ASSUME NEW k \in Cancellers, NEW j \in Jobs, Claim(k, j) PROVE Quiet
  BY <1>2 DEF Claim, Quiet, jobVars, confirmVars
<1>3. ASSUME NEW k \in Cancellers, Flag(k) \/ Mark(k) PROVE Quiet
  BY <1>3 DEF Flag, Mark, Quiet, confirmVars, Types, TypeOK
<1>4. CASE UNCHANGED vars
  BY <1>4 DEF vars, Quiet, jobVars, confirmVars, sweepVars
<1>5. CASE Next
  BY <1>1, <1>2, <1>3, <1>5, StartQuiet, WorkerQuiet DEF Next, Cancelling
<1> QED
  BY <1>4, <1>5

\* The parts of a step that leaves the questions and their rows alone.
LEMMA QuietKeepsConfirm == ASSUME ConfirmInv, Types', Quiet PROVE ConfirmInv'
<1> USE Ids
<1>1. ASSUME NEW j \in Jobs PROVE (ShowsMine(j) /\ AsksOne(j))'
  <2>1. wpc[j] \in Confirming \/ wpc'[j] \in Confirming => wpc'[j] = wpc[j]
    BY DEF Quiet
  <2>2. shown'[j] # 0 => shown'[j] = shown[j]
    BY DEF Quiet
  <2>3. ShowsMine(j) /\ AsksOne(j)
    BY DEF ConfirmInv, ConfirmParts
  <2> QED
    BY <2>1, <2>2, <2>3 DEF Quiet, ShowsMine, AsksOne, Confirming
<1>2. ConfirmParts'
  BY <1>1 DEF Quiet, ConfirmInv, ConfirmParts, GrantedWasAsked, OneCarrier, Rowed,
              PendingIsAwaited, DecidesAsked
<1>3. ASSUME NEW j \in Jobs PROVE Balance(j)'
  <2>1. /\ Spent(j)' = Spent(j) /\ InFlight(j)' = InFlight(j) /\ Given(j)' = Given(j)
        /\ Held(j)' = Held(j)
    BY DEF Quiet, Spent, InFlight, Given, Held, AskedBy, Carries, Confirming
  <2> QED
    BY <2>1, Accounts, BalanceKept DEF ConfirmInv
<1> QED
  BY <1>2, <1>3 DEF ConfirmInv

LEMMA AskKeepsConfirm == ASSUME ConfirmInv, Types', NEW j \in Jobs, Ask(j) PROVE ConfirmInv'
<1> USE Ids
<1>1. PICK c \in Confirms :
          /\ asker[c] = 0
          /\ asker' = [asker EXCEPT ![c] = j]
          /\ row' = [row EXCEPT ![c] = "pending"]
          /\ shown' = [shown EXCEPT ![j] = c]
          /\ mine' = [mine EXCEPT ![j] = c]
  BY DEF Ask
<1>2. /\ asker'[c] = j /\ row'[c] = "pending" /\ shown'[j] = c /\ mine'[j] = c
      /\ \A b \in Confirms \ {c} : asker'[b] = asker[b] /\ row'[b] = row[b]
      /\ \A i \in Jobs \ {j} : shown'[i] = shown[i] /\ mine'[i] = mine[i]
  BY <1>1 DEF ConfirmInv, Types, TypeOK
<1>3. /\ wpc[j] = "step" /\ wpc'[j] = "asked" /\ ~ready'[j]
      /\ \A i \in Jobs \ {j} : wpc'[i] = wpc[i] /\ ready'[i] = ready[i] /\ answer'[i] = answer[i]
      /\ UNCHANGED <<granted, decision>>
  BY DEF Ask, At, Goto, ConfirmInv, Types, TypeOK
<1>4. /\ mine[j] = 0 /\ row[c] = "absent" /\ c \notin granted
      /\ \A i \in Jobs : mine[i] # c
      /\ \A d \in Deciders : decision[d] # NoDecision => decision[d].cid # c
  BY <1>1, <1>3 DEF ConfirmInv, ConfirmParts, GrantedWasAsked, Rowed, AsksOne, DecidesAsked,
                    Confirming
<1>5. GrantedWasAsked' /\ OneCarrier'
  BY <1>2, <1>3, <1>4 DEF ConfirmInv, ConfirmParts, GrantedWasAsked, OneCarrier, Types, TypeOK
<1>6. ASSUME NEW b \in Confirms PROVE (Rowed(b) /\ PendingIsAwaited(b))'
  <2>1. CASE b = c
    BY <1>2, <2>1 DEF Rowed, PendingIsAwaited
  <2>2. CASE b # c
    <3>1. Rowed(b) /\ PendingIsAwaited(b)
      BY DEF ConfirmInv, ConfirmParts
    <3>2. Rowed(b)'
      BY <1>2, <2>2, <3>1 DEF Rowed
    <3>3. ASSUME row[b] = "pending", b \notin granted PROVE asker[b] \in Jobs \ {j}
      BY <1>4, <3>1, <3>3 DEF Rowed, PendingIsAwaited, ConfirmInv, Types, TypeOK
    <3> QED
      BY <1>2, <1>3, <2>2, <3>1, <3>2, <3>3 DEF PendingIsAwaited
  <2> QED
    BY <2>1, <2>2
<1>7. ASSUME NEW i \in Jobs PROVE (ShowsMine(i) /\ AsksOne(i))'
  <2>1. CASE i = j
    BY <1>2, <1>3, <1>4, <2>1 DEF ShowsMine, AsksOne, Confirming
  <2>2. CASE i # j
    <3>1. ShowsMine(i) /\ AsksOne(i) /\ mine[i] \in {0} \cup Confirms
      BY DEF ConfirmInv, ConfirmParts, Types, TypeOK
    <3> QED
      BY <1>2, <1>3, <1>4, <2>2, <3>1 DEF ShowsMine, AsksOne
  <2> QED
    BY <2>1, <2>2
<1>8. ASSUME NEW d \in Deciders PROVE DecidesAsked(d)'
  BY <1>2, <1>3, <1>4 DEF ConfirmInv, ConfirmParts, DecidesAsked
<1>9. ASSUME NEW i \in Jobs PROVE Balance(i)'
  <2>1. Spent(i)' = Spent(i)
    BY <1>2, <1>3, <1>4 DEF Spent, AskedBy, ConfirmInv, Types, TypeOK
  <2>2. InFlight(i)' = InFlight(i)
    <3>1. \A d \in Deciders : ~Carries(d, c)
      BY <1>4 DEF Carries, NoDecision
    <3>2. \A b \in Confirms, d \in Deciders : Carries(d, b)' = Carries(d, b)
      BY <1>3 DEF Carries
    <3> QED
      BY <1>2, <3>1, <3>2 DEF InFlight, AskedBy
  <2>3. Given(i) \subseteq Given(i)' /\ Given(i)' \subseteq Confirms
    BY <1>2, <1>4 DEF Given, AskedBy
  <2>4. Held(i)' => Held(i)
    BY <1>3 DEF Held
  <2>5. Balance(i)
    BY DEF ConfirmInv
  <2> QED
    BY <2>1, <2>2, <2>3, <2>4, <2>5, BalanceKept
<1> QED
  BY <1>5, <1>6, <1>7, <1>8, <1>9 DEF ConfirmInv, ConfirmParts

\* A step of one waiting worker, to another label, that keeps what it waits for.
LEMMA WaitKeepsConfirm ==
    ASSUME ConfirmInv, Types', NEW j \in Jobs, Park(j) \/ Wake(j) PROVE ConfirmInv'
<1> USE Ids
<1>1. /\ UNCHANGED <<ready, answer, mine, asker, row, granted, decision>>
      /\ wpc[j] \in Confirming /\ wpc'[j] \in Confirming
      /\ \A i \in Jobs \ {j} : wpc'[i] = wpc[i] /\ shown'[i] = shown[i]
      /\ shown'[j] = 0 \/ (shown'[j] = shown[j] /\ wpc'[j] \in {"asked", "parked"})
  BY DEF Park, Wake, At, Goto, confirmVars, Confirming, ConfirmInv, Types, TypeOK
<1>2. Held(j)' = Held(j)
  BY DEF Park, Wake, At, Goto, Held, confirmVars, ConfirmInv, Types, TypeOK
<1>3. ASSUME NEW i \in Jobs PROVE (ShowsMine(i) /\ AsksOne(i))'
  BY <1>1 DEF ConfirmInv, ConfirmParts, ShowsMine, AsksOne
<1>4. ConfirmParts'
  BY <1>1, <1>3 DEF ConfirmInv, ConfirmParts, GrantedWasAsked, OneCarrier, Rowed,
                    PendingIsAwaited, DecidesAsked
<1>5. ASSUME NEW i \in Jobs PROVE Balance(i)'
  <2>1. Spent(i)' = Spent(i) /\ InFlight(i)' = InFlight(i) /\ Given(i)' = Given(i)
    BY <1>1 DEF Spent, InFlight, Given, AskedBy, Carries
  <2>2. Held(i)' = Held(i)
    BY <1>1, <1>2 DEF Held
  <2> QED
    BY <2>1, <2>2, Accounts, BalanceKept DEF ConfirmInv
<1> QED
  BY <1>4, <1>5 DEF ConfirmInv

\* The approval a worker holds is the one it spends.
LEMMA ApprovedKeepsConfirm ==
    ASSUME ConfirmInv, Types', NEW j \in Jobs, Approved(j) PROVE ConfirmInv'
<1> USE Ids
<1> DEFINE c == mine[j]
<1>1. /\ UNCHANGED <<shown, ready, answer, asker, row, decision>>
      /\ granted' = granted \cup {c}
      /\ wpc[j] = "approved" /\ wpc'[j] = "step" /\ mine'[j] = 0
      /\ \A i \in Jobs \ {j} : wpc'[i] = wpc[i] /\ mine'[i] = mine[i]
  BY DEF Approved, At, Goto, ConfirmInv, Types, TypeOK
<1>2. c \in Confirms /\ asker[c] = j /\ c \notin granted /\ shown[j] = 0
  BY <1>1 DEF ConfirmInv, ConfirmParts, AsksOne, ShowsMine, Confirming, Types, TypeOK
<1>3. \A i \in Jobs \ {j} : mine[i] # c
  BY <1>2 DEF ConfirmInv, ConfirmParts, AsksOne
<1> HIDE DEF c
<1>4. ASSUME NEW i \in Jobs PROVE (ShowsMine(i) /\ AsksOne(i))'
  <2>1. CASE i = j
    BY <1>1, <1>2, <2>1 DEF ShowsMine, AsksOne, Confirming
  <2>2. CASE i # j
    <3>1. ShowsMine(i) /\ AsksOne(i)
      BY DEF ConfirmInv, ConfirmParts
    <3> QED
      BY <1>1, <1>3, <2>2, <3>1 DEF ShowsMine, AsksOne
  <2> QED
    BY <2>1, <2>2
<1>5. ASSUME NEW b \in Confirms PROVE (Rowed(b) /\ PendingIsAwaited(b))'
  <2>1. Rowed(b) /\ PendingIsAwaited(b)
    BY DEF ConfirmInv, ConfirmParts
  <2>2. asker[b] # 0 => asker[b] \in Jobs
    BY DEF ConfirmInv, Types, TypeOK
  <2> QED
    BY <1>1, <2>1, <2>2 DEF Rowed, PendingIsAwaited, c
<1>6. GrantedWasAsked' /\ OneCarrier' /\ \A d \in Deciders : DecidesAsked(d)'
  BY <1>1, <1>2 DEF ConfirmInv, ConfirmParts, GrantedWasAsked, OneCarrier, DecidesAsked
<1>7. ASSUME NEW i \in Jobs PROVE Balance(i)'
  <2>1. InFlight(i)' = InFlight(i) /\ Given(i)' = Given(i) /\ AskedBy(i)' = AskedBy(i)
    BY <1>1 DEF InFlight, Given, AskedBy, Carries
  <2>2. Balance(i)
    BY DEF ConfirmInv
  <2>3. CASE i = j
    <3>1. Spent(j)' = Spent(j) \cup {c} /\ c \notin Spent(j)
      BY <1>1, <1>2, <2>1, <2>3 DEF Spent, AskedBy
    <3>2. Cardinality(Spent(j)') = Cardinality(Spent(j)) + 1
      BY <1>2, <3>1, Accounts, OneMore
    <3>3. Held(j) /\ ~Held(j)'
      BY <1>1 DEF Held
    <3>4. /\ Cardinality(Spent(j)) \in Nat /\ Cardinality(InFlight(j)) \in Nat
          /\ Cardinality(Given(j)) \in Nat
      BY Accounts, ConfirmsFinite
    <3> QED
      BY <2>1, <2>2, <2>3, <3>2, <3>3, <3>4 DEF Balance
  <2>4. CASE i # j
    <3>1. Spent(i)' = Spent(i)
      BY <1>1, <1>2, <2>1, <2>4 DEF Spent, AskedBy
    <3>2. Held(i)' = Held(i)
      BY <1>1, <2>4 DEF Held
    <3> QED
      BY <2>1, <2>2, <3>1, <3>2, Accounts, BalanceKept
  <2> QED
    BY <2>3, <2>4
<1> QED
  BY <1>4, <1>5, <1>6, <1>7 DEF ConfirmInv, ConfirmParts

\* A worker that was not let through leaves no pending row behind.
LEMMA DeniedKeepsConfirm ==
    ASSUME ConfirmInv, Types', NEW j \in Jobs, Denied(j) PROVE ConfirmInv'
<1> USE Ids
<1> DEFINE c == mine[j]
<1>1. /\ UNCHANGED <<shown, ready, answer, asker, granted, decision>>
      /\ wpc[j] = "denied" /\ wpc'[j] = "step" /\ mine'[j] = 0
      /\ \A i \in Jobs \ {j} : wpc'[i] = wpc[i] /\ mine'[i] = mine[i]
  BY DEF Denied, At, Goto, ConfirmInv, Types, TypeOK
<1>2. c \in Confirms /\ asker[c] = j /\ c \notin granted /\ shown[j] = 0 /\ row[c] # "absent"
  <2>1. AsksOne(j) /\ ShowsMine(j) /\ c \in {0} \cup Confirms
    BY DEF ConfirmInv, ConfirmParts, Types, TypeOK
  <2>2. c \in Confirms /\ asker[c] = j /\ c \notin granted /\ shown[j] = 0
    BY <1>1, <2>1 DEF AsksOne, ShowsMine, Confirming
  <2> QED
    BY <2>2 DEF ConfirmInv, ConfirmParts, Rowed
<1>3. /\ row'[c] = (IF row[c] = "pending" THEN "denied" ELSE row[c])
      /\ \A b \in Confirms \ {c} : row'[b] = row[b]
  <2>1. row' = (IF row[c] = "pending" THEN [row EXCEPT ![c] = "denied"] ELSE row)
    BY DEF Denied, SettlesRow
  <2>2. row \in [Confirms -> {"absent", "pending", "approved", "denied", "expired"}]
    BY DEF ConfirmInv, Types, TypeOK
  <2> QED
    BY <1>2, <2>1, <2>2
<1> HIDE DEF c
<1>4. ASSUME NEW i \in Jobs PROVE (ShowsMine(i) /\ AsksOne(i))'
  <2>1. CASE i = j
    BY <1>1, <1>2, <2>1 DEF ShowsMine, AsksOne, Confirming
  <2>2. CASE i # j
    <3>1. ShowsMine(i) /\ AsksOne(i)
      BY DEF ConfirmInv, ConfirmParts
    <3> QED
      BY <1>1, <2>2, <3>1 DEF ShowsMine, AsksOne
  <2> QED
    BY <2>1, <2>2
<1>5. ASSUME NEW b \in Confirms PROVE (Rowed(b) /\ PendingIsAwaited(b))'
  <2>1. Rowed(b) /\ PendingIsAwaited(b)
    BY DEF ConfirmInv, ConfirmParts
  <2>2. asker[b] # 0 => asker[b] \in Jobs
    BY DEF ConfirmInv, Types, TypeOK
  <2>3. Rowed(b)'
    BY <1>1, <1>3, <2>1 DEF Rowed
  <2>4. PendingIsAwaited(b)'
    <3> SUFFICES ASSUME row'[b] = "pending", b \notin granted
                 PROVE  mine'[asker[b]] = b
      BY <1>1 DEF PendingIsAwaited
    <3>1. b # c /\ row[b] = "pending" /\ mine[asker[b]] = b
      BY <1>3, <2>1 DEF PendingIsAwaited
    <3>2. asker[b] \in Jobs \ {j}
      BY <2>1, <2>2, <3>1 DEF Rowed, c
    <3> QED
      BY <1>1, <3>1, <3>2
  <2> QED
    BY <2>3, <2>4
<1>6. ASSUME NEW d \in Deciders PROVE DecidesAsked(d)'
  <2>1. DecidesAsked(d)
    BY DEF ConfirmInv, ConfirmParts
  <2> QED
    BY <1>1, <1>3, <2>1 DEF DecidesAsked
<1>7. GrantedWasAsked' /\ OneCarrier'
  BY <1>1 DEF ConfirmInv, ConfirmParts, GrantedWasAsked, OneCarrier
<1>8. ASSUME NEW i \in Jobs PROVE Balance(i)'
  <2>1. Spent(i)' = Spent(i) /\ InFlight(i)' = InFlight(i)
    BY <1>1 DEF Spent, InFlight, AskedBy, Carries
  <2>2. Given(i)' = Given(i)
    BY <1>1, <1>3 DEF Given, AskedBy
  <2>3. Held(i)' => Held(i)
    BY <1>1 DEF Held
  <2> QED
    BY <2>1, <2>2, <2>3, Accounts, BalanceKept DEF ConfirmInv
<1> QED
  BY <1>4, <1>5, <1>6, <1>7, <1>8 DEF ConfirmInv, ConfirmParts

\* A row is settled once: a step that only settles pending rows keeps the decisions
\* that are in them.
LEMMA ExpireKeepsConfirm ==
    ASSUME ConfirmInv, Types', NEW c \in Confirms, Expire(c) PROVE ConfirmInv'
<1>1. /\ UNCHANGED <<wpc, shown, ready, answer, mine, asker, granted, decision>>
      /\ row[c] = "pending" /\ row'[c] = "expired"
      /\ \A b \in Confirms \ {c} : row'[b] = row[b]
  BY DEF Expire, jobVars, ConfirmInv, Types, TypeOK
<1>2. ASSUME NEW b \in Confirms PROVE (Rowed(b) /\ PendingIsAwaited(b))'
  <2>1. Rowed(b) /\ PendingIsAwaited(b)
    BY DEF ConfirmInv, ConfirmParts
  <2> QED
    BY <1>1, <2>1 DEF Rowed, PendingIsAwaited
<1>3. ASSUME NEW d \in Deciders PROVE DecidesAsked(d)'
  <2>1. DecidesAsked(d)
    BY DEF ConfirmInv, ConfirmParts
  <2> QED
    BY <1>1, <2>1 DEF DecidesAsked
<1>4. GrantedWasAsked' /\ OneCarrier' /\ \A i \in Jobs : (ShowsMine(i) /\ AsksOne(i))'
  BY <1>1 DEF ConfirmInv, ConfirmParts, GrantedWasAsked, OneCarrier, ShowsMine, AsksOne
<1>5. ASSUME NEW i \in Jobs PROVE Balance(i)'
  <2>1. Spent(i)' = Spent(i) /\ InFlight(i)' = InFlight(i) /\ Held(i)' = Held(i)
    BY <1>1 DEF Spent, InFlight, AskedBy, Carries, Held
  <2>2. Given(i)' = Given(i)
    BY <1>1 DEF Given, AskedBy
  <2> QED
    BY <2>1, <2>2, Accounts, BalanceKept DEF ConfirmInv
<1> QED
  BY <1>2, <1>3, <1>4, <1>5 DEF ConfirmInv, ConfirmParts

LEMMA ResolveKeepsConfirm ==
    ASSUME ConfirmInv, Types', NEW d \in Deciders, NEW cid, NEW yes, Resolve(d, cid, yes)
    PROVE  ConfirmInv'
<1> USE Ids
<1>1. PICK c \in Target(cid, yes), j \in Jobs :
          /\ shown[j] = c
          /\ decision' = [decision EXCEPT ![d] =
                            [cid |-> c, job |-> j, yes |-> yes, stored |-> FALSE]]
  BY DEF Resolve
<1>2. UNCHANGED <<wpc, shown, ready, answer, mine, asker, row, granted>> /\ decision[d] = NoDecision
  BY DEF Resolve, jobVars, confirmVars
<1>3. c \in Confirms /\ asker[c] = j
  <2>1. c # 0
    BY <1>1 DEF Target, Shown
  <2> QED
    BY <1>1, <2>1 DEF ConfirmInv, ConfirmParts, ShowsMine, AsksOne, Types, TypeOK
<1>4. /\ decision'[d] = [cid |-> c, job |-> j, yes |-> yes, stored |-> FALSE]
      /\ \A e \in Deciders \ {d} : decision'[e] = decision[e]
  BY <1>1 DEF ConfirmInv, Types, TypeOK
<1>5. ~decision[d].stored /\ ~decision'[d].stored
  BY <1>2, <1>4 DEF NoDecision
<1>6. ASSUME NEW e \in Deciders PROVE DecidesAsked(e)'
  <2>1. DecidesAsked(e)
    BY DEF ConfirmInv, ConfirmParts
  <2> QED
    BY <1>2, <1>3, <1>4, <2>1 DEF DecidesAsked
<1>7. OneCarrier'
  BY <1>4, <1>5 DEF ConfirmInv, ConfirmParts, OneCarrier
<1>8. ConfirmParts'
  BY <1>2, <1>6, <1>7 DEF ConfirmInv, ConfirmParts, GrantedWasAsked, Rowed, PendingIsAwaited,
                          ShowsMine, AsksOne
<1>9. ASSUME NEW i \in Jobs PROVE Balance(i)'
  <2>1. Spent(i)' = Spent(i) /\ Given(i)' = Given(i) /\ Held(i)' = Held(i)
    BY <1>2 DEF Spent, Given, AskedBy, Held
  <2>2. InFlight(i)' \subseteq InFlight(i)
    <3>1. \A e \in Deciders, b \in Confirms : Carries(e, b)' => Carries(e, b)
      BY <1>4, <1>5 DEF Carries
    <3> QED
      BY <1>2, <3>1 DEF InFlight, AskedBy
  <2> QED
    BY <2>1, <2>2, Accounts, BalanceKept DEF ConfirmInv
<1> QED
  BY <1>8, <1>9 DEF ConfirmInv

\* The store lets one decision of a confirm through, and a yes puts one approval on
\* its way.
LEMMA StoreKeepsConfirm ==
    ASSUME ConfirmInv, Types', NEW d \in Deciders, Store(d) PROVE ConfirmInv'
<1> USE Ids
<1> DEFINE c == decision[d].cid
<1>1. /\ UNCHANGED <<wpc, shown, ready, answer, mine, asker, granted>>
      /\ decision[d] # NoDecision /\ ~decision[d].stored
  BY DEF Store, jobVars
<1>2. c \in Confirms /\ asker[c] \in Jobs
  BY <1>1 DEF ConfirmInv, ConfirmParts, DecidesAsked
<1>3. GrantedWasAsked' /\ \A i \in Jobs : (ShowsMine(i) /\ AsksOne(i))'
  BY <1>1 DEF ConfirmInv, ConfirmParts, GrantedWasAsked, ShowsMine, AsksOne
<1>4. \A e \in Deciders : DecidesAsked(e)
  BY DEF ConfirmInv, ConfirmParts
<1>5. CASE ~Decidable(c)
  <2>1. /\ row' = row /\ decision'[d] = NoDecision /\ ~decision'[d].stored
        /\ \A e \in Deciders \ {d} : decision'[e] = decision[e]
    BY <1>1, <1>5 DEF Store, ConfirmInv, Types, TypeOK, NoDecision
  <2>2. OneCarrier'
    BY <2>1 DEF ConfirmInv, ConfirmParts, OneCarrier
  <2>3. \A e \in Deciders : DecidesAsked(e)'
    BY <1>1, <1>4, <2>1 DEF DecidesAsked
  <2>4. \A b \in Confirms : (Rowed(b) /\ PendingIsAwaited(b))'
    BY <1>1, <2>1 DEF ConfirmInv, ConfirmParts, Rowed, PendingIsAwaited
  <2>5. ASSUME NEW i \in Jobs PROVE Balance(i)'
    <3>1. Spent(i)' = Spent(i) /\ Given(i)' = Given(i) /\ Held(i)' = Held(i)
      BY <1>1, <2>1 DEF Spent, Given, AskedBy, Held
    <3>2. \A e \in Deciders, b \in Confirms : Carries(e, b)' => Carries(e, b)
      BY <2>1 DEF Carries
    <3>3. InFlight(i)' \subseteq InFlight(i)
      BY <1>1, <3>2 DEF InFlight, AskedBy
    <3> QED
      BY <3>1, <3>3, Accounts, BalanceKept DEF ConfirmInv
  <2> QED
    BY <1>3, <2>2, <2>3, <2>4, <2>5 DEF ConfirmInv, ConfirmParts
<1>6. CASE Decidable(c)
  <2> DEFINE y == decision[d].yes
  <2>1. /\ row[c] = "pending" /\ row'[c] = (IF y THEN "approved" ELSE "denied")
        /\ \A b \in Confirms \ {c} : row'[b] = row[b]
    BY <1>1, <1>2, <1>6 DEF Store, Decidable, ConfirmInv, Types, TypeOK
  <2>2. /\ decision' = [decision EXCEPT ![d] = [decision[d] EXCEPT !.stored = TRUE]]
        /\ decision[d] \in [cid : {0} \cup Confirms, job : {0} \cup Jobs,
                            yes : BOOLEAN, stored : BOOLEAN]
    BY <1>1, <1>6 DEF Store, ConfirmInv, Types, TypeOK
  <2>3. /\ decision'[d].stored /\ decision'[d].cid = c /\ decision'[d].job = decision[d].job
        /\ decision'[d].yes = y
        /\ \A e \in Deciders \ {d} : decision'[e] = decision[e]
    BY <2>2 DEF ConfirmInv, Types, TypeOK
  <2> HIDE DEF c, y
  <2>4. ASSUME NEW e \in Deciders \ {d}, decision[e].stored PROVE decision[e].cid # c
    <3>1. decision[e] # NoDecision
      BY <2>4 DEF NoDecision
    <3> QED
      BY <1>4, <2>1, <2>4, <3>1 DEF DecidesAsked
  <2>5. OneCarrier'
    BY <2>3, <2>4 DEF ConfirmInv, ConfirmParts, OneCarrier
  <2>6. ASSUME NEW e \in Deciders PROVE DecidesAsked(e)'
    <3>1. CASE e = d
      <4>1. decision[d].cid = c /\ asker[c] = decision[d].job /\ decision[d].job \in Jobs
        BY <1>1, <1>4 DEF DecidesAsked, c
      <4> QED
        BY <1>1, <1>2, <2>1, <2>3, <3>1, <4>1 DEF DecidesAsked
    <3>2. CASE e # d
      <4>1. DecidesAsked(e)
        BY <1>4
      <4> QED
        BY <1>1, <2>1, <2>3, <2>4, <3>2, <4>1 DEF DecidesAsked
    <3> QED
      BY <3>1, <3>2
  <2>7. ASSUME NEW b \in Confirms PROVE (Rowed(b) /\ PendingIsAwaited(b))'
    <3>1. Rowed(b) /\ PendingIsAwaited(b)
      BY DEF ConfirmInv, ConfirmParts
    <3> QED
      BY <1>1, <2>1, <3>1 DEF Rowed, PendingIsAwaited
  <2>8. ASSUME NEW i \in Jobs PROVE Balance(i)'
    <3>1. Spent(i)' = Spent(i) /\ Held(i)' = Held(i) /\ AskedBy(i)' = AskedBy(i)
      BY <1>1 DEF Spent, AskedBy, Held
    <3>2. Balance(i)
      BY DEF ConfirmInv
    <3>3. \A e \in Deciders, b \in Confirms :
              Carries(e, b)' <=> Carries(e, b) \/ (e = d /\ b = c /\ y)
      BY <1>1, <2>3 DEF Carries, c, y
    <3>4. CASE y /\ i = asker[c]
      <4>1. Given(i)' = Given(i) \cup {c} /\ c \notin Given(i)
        BY <1>1, <1>2, <2>1, <3>4 DEF Given, AskedBy
      <4>2. InFlight(i)' = InFlight(i) \cup {c} /\ c \notin InFlight(i)
        <5>1. \A e \in Deciders : ~Carries(e, c)
          BY <1>1, <2>4 DEF Carries
        <5> QED
          BY <1>1, <1>2, <3>3, <3>4, <5>1 DEF InFlight, AskedBy
      <4>3. /\ Cardinality(Given(i)') = Cardinality(Given(i)) + 1
            /\ Cardinality(InFlight(i)') = Cardinality(InFlight(i)) + 1
        BY <1>2, <4>1, <4>2, Accounts, OneMore
      <4>4. /\ Cardinality(Spent(i)) \in Nat /\ Cardinality(InFlight(i)) \in Nat
            /\ Cardinality(Given(i)) \in Nat
        BY Accounts, ConfirmsFinite
      <4> QED
        BY <3>1, <3>2, <4>3, <4>4 DEF Balance
    <3>5. CASE ~(y /\ i = asker[c])
      <4>1. Given(i) \subseteq Given(i)' /\ Given(i)' \subseteq Confirms
        BY <1>1, <2>1, <3>5 DEF Given, AskedBy
      <4>2. InFlight(i)' \subseteq InFlight(i)
        BY <1>1, <3>3, <3>5 DEF InFlight, AskedBy
      <4> QED
        BY <3>1, <3>2, <4>1, <4>2, BalanceKept
    <3> QED
      BY <3>4, <3>5
  <2> QED
    BY <1>3, <2>5, <2>6, <2>7, <2>8 DEF ConfirmInv, ConfirmParts
<1> QED
  BY <1>5, <1>6

\* The delivery moves an approval from its way into whichever confirm the job waits
\* for, or loses it.
LEMMA DeliverKeepsConfirm ==
    ASSUME ConfirmInv, Types', NEW d \in Deciders, Deliver(d) PROVE ConfirmInv'
<1> USE Ids
<1> DEFINE c == decision[d].cid
           j == decision[d].job
           y == decision[d].yes
<1>1. UNCHANGED <<wpc, shown, mine, asker, row, granted>> /\ decision[d].stored
  BY DEF Deliver, jobVars
<1>2. decision[d] # NoDecision
  BY <1>1 DEF NoDecision
<1>3. c \in Confirms /\ j \in Jobs /\ asker[c] = j /\ (y => row[c] = "approved")
  BY <1>1, <1>2 DEF ConfirmInv, ConfirmParts, DecidesAsked
<1>4. /\ ready'[j] = TRUE /\ answer'[j] = y
      /\ \A i \in Jobs \ {j} : ready'[i] = ready[i] /\ answer'[i] = answer[i]
  <2>1. answer' = [answer EXCEPT ![j] = y] /\ ready' = [ready EXCEPT ![j] = TRUE]
    BY DEF Deliver, DecideConfirm
  <2>2. ready \in [Jobs -> BOOLEAN] /\ answer \in [Jobs -> BOOLEAN]
    BY DEF ConfirmInv, Types, TypeOK
  <2> QED
    BY <1>3, <2>1, <2>2, Zenon
<1>5. /\ decision'[d] = NoDecision /\ ~decision'[d].stored
      /\ \A e \in Deciders \ {d} : decision'[e] = decision[e]
  BY DEF Deliver, NoDecision, ConfirmInv, Types, TypeOK
<1>6. \A e \in Deciders : Carries(e, c) => e = d
  BY <1>1 DEF ConfirmInv, ConfirmParts, OneCarrier, Carries
<1>7. Carries(d, c) <=> y
  BY <1>1 DEF Carries
<1>8. \A e \in Deciders, b \in Confirms : Carries(e, b)' <=> Carries(e, b) /\ e # d
  BY <1>5 DEF Carries
<1>9. \A b : Carries(d, b) => b = c
  BY DEF Carries
<1> HIDE DEF c, j, y
<1>10. OneCarrier' /\ \A e \in Deciders : DecidesAsked(e)'
  <2>1. \A e \in Deciders : DecidesAsked(e)
    BY DEF ConfirmInv, ConfirmParts
  <2>2. \A e \in Deciders : DecidesAsked(e)'
    BY <1>1, <1>5, <2>1 DEF DecidesAsked
  <2> QED
    BY <1>5, <2>2 DEF ConfirmInv, ConfirmParts, OneCarrier
<1>11. ConfirmParts'
  BY <1>1, <1>10 DEF ConfirmInv, ConfirmParts, GrantedWasAsked, Rowed, PendingIsAwaited,
                     ShowsMine, AsksOne
<1>12. ASSUME NEW i \in Jobs PROVE Balance(i)'
  <2>1. Spent(i)' = Spent(i) /\ Given(i)' = Given(i) /\ AskedBy(i)' = AskedBy(i)
    BY <1>1 DEF Spent, Given, AskedBy
  <2>2. InFlight(i)' = InFlight(i) \ (IF y /\ i = j THEN {c} ELSE {})
    BY <1>1, <1>3, <1>6, <1>7, <1>8, <1>9 DEF InFlight, AskedBy
  <2>3. Balance(i)
    BY DEF ConfirmInv
  <2>4. CASE y /\ i = j
    <3>1. c \in InFlight(i)
      BY <1>3, <1>7, <2>4 DEF InFlight, AskedBy
    <3>2. Cardinality(InFlight(i)') = Cardinality(InFlight(i)) - 1
      BY <2>2, <2>4, <3>1, Accounts, OneLess
    <3>3. /\ Cardinality(Spent(i)) \in Nat /\ Cardinality(InFlight(i)) \in Nat
          /\ Cardinality(Given(i)) \in Nat
      BY Accounts, ConfirmsFinite
    <3> QED
      BY <2>1, <2>3, <3>2, <3>3 DEF Balance
  <2>5. CASE ~(y /\ i = j)
    <3>1. Held(i)' => Held(i)
      BY <1>1, <1>3, <1>4, <2>5 DEF Held
    <3> QED
      BY <2>1, <2>2, <2>3, <2>5, <3>1, Accounts, BalanceKept
  <2> QED
    BY <2>4, <2>5
<1> QED
  BY <1>11, <1>12 DEF ConfirmInv

\* A cancel answers no.
LEMMA TellKeepsConfirm ==
    ASSUME ConfirmInv, Types', NEW k \in Cancellers, TellCancelled(k) PROVE ConfirmInv'
<1>1. PICK j \in Jobs : DecideConfirm(j, FALSE)
  BY DEF TellCancelled, ConfirmInv, Types, TypeOK
<1>2. UNCHANGED <<wpc, shown, mine, asker, row, granted, decision>>
  BY DEF TellCancelled
<1>3. ConfirmParts'
  BY <1>2 DEF ConfirmInv, ConfirmParts, GrantedWasAsked, OneCarrier, Rowed, PendingIsAwaited,
              ShowsMine, AsksOne, DecidesAsked
<1>4. ASSUME NEW i \in Jobs PROVE Balance(i)'
  <2>1. Spent(i)' = Spent(i) /\ Given(i)' = Given(i) /\ InFlight(i)' = InFlight(i)
    BY <1>2 DEF Spent, Given, InFlight, AskedBy, Carries
  <2>2. Held(i)' => Held(i)
    BY <1>1, <1>2 DEF DecideConfirm, Held, ConfirmInv, Types, TypeOK
  <2> QED
    BY <2>1, <2>2, Accounts, BalanceKept DEF ConfirmInv
<1> QED
  BY <1>3, <1>4 DEF ConfirmInv

LEMMA ConfirmStep == ASSUME ConfirmInv, [Next]_vars PROVE ConfirmInv'
<1>1. Types /\ Types'
  BY TypesStep DEF ConfirmInv
<1>2. ASSUME NEW j \in Jobs, Asking(j) PROVE ConfirmInv'
  BY <1>1, <1>2, AskKeepsConfirm, WaitKeepsConfirm, ApprovedKeepsConfirm, DeniedKeepsConfirm
     DEF Asking
<1>3. ASSUME NEW d \in Deciders, Store(d) \/ Deliver(d) PROVE ConfirmInv'
  BY <1>1, <1>3, StoreKeepsConfirm, DeliverKeepsConfirm
<1>4. ASSUME NEW d \in Deciders, NEW cid, NEW yes, Resolve(d, cid, yes) PROVE ConfirmInv'
  BY <1>1, <1>4, ResolveKeepsConfirm
<1> QED
  BY <1>1, <1>2, <1>3, <1>4, MostStepsAreQuiet, QuietKeepsConfirm, ExpireKeepsConfirm,
     TellKeepsConfirm

\* What the confirmations owe each other holds in every reachable state.
THEOREM ConfirmInvariant == Spec => []ConfirmInv
  BY ConfirmInit, ConfirmStep, PTL DEF Spec

\* Of the calls a job was let through there are never more than approvals of its own
\* confirms: an approval is spent once, whichever confirm it reaches.
THEOREM ApprovalsAreSpentOnce == Spec => []ApprovalSpentOnce
<1>1. ConfirmInv => ApprovalSpentOnce
  <2> SUFFICES ASSUME ConfirmInv, NEW j \in Jobs
               PROVE  Cardinality(Spent(j)) <= Cardinality(Given(j))
    BY DEF ApprovalSpentOnce, Spent, Given
  <2>1. /\ Cardinality(Spent(j)) \in Nat /\ Cardinality(InFlight(j)) \in Nat
        /\ Cardinality(Given(j)) \in Nat
    BY Accounts, ConfirmsFinite
  <2> QED
    BY <2>1 DEF ConfirmInv, Balance
<1> QED
  BY <1>1, ConfirmInvariant, PTL

\* A job whose worker is gone shows no confirm, and leaves none pending that was not
\* let through.
THEOREM NoGhosts == Spec => []NoGhostConfirm
<1>1. ConfirmInv => NoGhostConfirm
  <2> SUFFICES ASSUME ConfirmInv, NEW j \in Jobs, wpc[j] = "ended"
               PROVE  /\ shown[j] = 0
                      /\ \A c \in AskedBy(j) : row[c] = "pending" => c \in granted
    BY DEF NoGhostConfirm
  <2>1. ShowsMine(j) /\ AsksOne(j) /\ \A c \in Confirms : PendingIsAwaited(c)
    BY DEF ConfirmInv, ConfirmParts
  <2>2. shown[j] = 0 /\ mine[j] = 0
    BY <2>1 DEF ShowsMine, AsksOne, Confirming
  <2> QED
    BY <2>1, <2>2, Ids DEF PendingIsAwaited, AskedBy
<1> QED
  BY <1>1, ConfirmInvariant, PTL

=============================================================================
