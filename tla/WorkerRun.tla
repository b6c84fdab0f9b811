------------------------------ MODULE WorkerRun ------------------------------
(***************************************************************************)
(* One Deep Work worker: _run_subagent() of rau/agent/orchestrator.py, the *)
(* tools it runs (rau/agent/tools.py), what the registry makes of their    *)
(* results (tool_registry.py), the permission modes (permissions.py,       *)
(* danger.py) and the idempotency table its calls go through.              *)
(*                                                                         *)
(* The phases of the plan share one session: its routes and its turns.     *)
(* The ledger of mutations and of evidence belongs to one phase.           *)
(***************************************************************************)
EXTENDS Integers, Sequences, FiniteSets

CONSTANTS
    Phases,    \* steps of the plan
    MaxRounds, \* bound: rounds of a phase (max_steps)
    MaxTurns,  \* the job's turn budget
    Routes,    \* length of harness_routes
    Policy,    \* permission_policy of a scheduled run; "" for a foreground job
    FreshIds   \* the provider names its tool calls; else they are call_0, call_1 ...

Recovered == 2 \* premature answers sent back
Reads == {"read", "finish"}                       \* is_readonly_allowed()
Tools == Reads \cup {"write", "act", "shell"}
Risky == {"act", "shell"}                         \* classify_tool()
Modes == {"auto", "bypass", "readonly"}

VARIABLES
    pc, phase, round, turns, route,
    premature, tried, \* premature_answers, saw_finish_attempt
    calls,   \* tool calls of the answer still to do: [tool, id]
    world,   \* mutations the tools have reported, ever
    muts,    \* actual_mutations is not empty
    evid,    \* actual_verification: what each item saw of the world
    claims,  \* the idempotency table of the phase: [id, tool, status, result]
    done,    \* job.completion of the phases accepted: [muts, fresh]
    outcome,
    cancelled, paused,
    mode,    \* the permission mode of subagents
    late     \* tools begun against the last cancel, pause or switch to readonly

ledger == <<world, muts, evid>>
session == <<phase, round, turns, route, premature, tried>>
flags == <<cancelled, paused, mode>>
vars == <<pc, session, calls, ledger, claims, done, outcome, flags, late>>

Init ==
    /\ pc = "round" /\ phase = 1 /\ round = 0 /\ turns = 0 /\ route = 1
    /\ premature = 0 /\ tried = FALSE
    /\ calls = << >>
    /\ world = 0 /\ muts = FALSE /\ evid = {}
    /\ claims = {}
    /\ done = {}
    /\ outcome = "running"
    /\ cancelled = FALSE /\ paused = FALSE /\ mode = "auto"
    /\ late = 0

End(how) == pc' = "ended" /\ outcome' = how

Halted == cancelled \/ paused

-----------------------------------------------------------------------------
(* The rounds *)

\* The worker looks at the cancel, waits out a pause, and then at its budgets.
Cancelled ==
    /\ pc \in {"round", "tools", "after"}
    /\ cancelled
    /\ End("cancelled")
    /\ UNCHANGED <<session, calls, ledger, claims, done, flags, late>>

BeginRound ==
    /\ pc = "round" /\ ~Halted
    /\ IF round = MaxRounds
       THEN End("failed") /\ UNCHANGED round
       ELSE pc' = "ask" /\ round' = round + 1 /\ UNCHANGED outcome
    /\ UNCHANGED <<phase, turns, route, premature, tried, calls, ledger, claims, done, flags, late>>

DeadlinePasses ==
    /\ pc = "round" /\ ~Halted
    /\ End("failed")
    /\ UNCHANGED <<session, calls, ledger, claims, done, flags, late>>

OverBudget ==
    /\ pc = "ask" /\ turns = MaxTurns
    /\ End("failed")
    /\ UNCHANGED <<session, calls, ledger, claims, done, flags, late>>

\* A failed call moves the session to its next route for good.
ProviderFails ==
    /\ pc = "ask" /\ turns < MaxTurns
    /\ turns' = turns + 1
    /\ IF route < Routes
       THEN route' = route + 1 /\ UNCHANGED <<pc, outcome>>
       ELSE End(IF cancelled THEN "cancelled" ELSE "failed") /\ UNCHANGED route
    /\ UNCHANGED <<phase, round, premature, tried, calls, ledger, claims, done, flags, late>>

Named(tools) == [i \in DOMAIN tools |-> [tool |-> tools[i], id |-> i]]

AnswersWithTools ==
    /\ pc = "ask" /\ turns < MaxTurns
    /\ turns' = turns + 1
    /\ \E tools \in [1..1 -> Tools] \cup [1..2 -> Tools] : calls' = Named(tools)
    /\ pc' = "tools"
    /\ UNCHANGED <<phase, round, route, premature, tried, ledger, claims, done, outcome, flags, late>>

\* Prose is sent back twice, and then is the result of the phase.
AnswersInProse ==
    /\ pc = "ask" /\ turns < MaxTurns
    /\ turns' = turns + 1
    /\ IF ~tried /\ premature < Recovered
       THEN /\ premature' = premature + 1
            /\ pc' = "round"
       ELSE /\ pc' = "accept"
            /\ UNCHANGED premature
    /\ UNCHANGED <<phase, round, route, tried, calls, ledger, claims, done, outcome, flags, late>>

-----------------------------------------------------------------------------
(* The tool calls *)

Call == Head(calls)

ToNext == calls' = Tail(calls) /\ pc' = "after"

Decision(tool) ==
    LET by == IF mode = "bypass" \/ Policy = "" THEN mode ELSE Policy
    IN CASE by = "readonly" -> IF tool \in Reads THEN "allow" ELSE "deny"
         [] by = "bypass" -> "allow"
         [] OTHER -> IF tool \in Risky THEN "confirm" ELSE "allow"

Refused ==
    /\ ToNext
    /\ UNCHANGED <<session, ledger, claims, done, outcome, flags, late>>

InvalidCall == pc = "tools" /\ calls # << >> /\ ~Halted /\ Refused

Denied == pc = "tools" /\ calls # << >> /\ ~Halted /\ Decision(Call.tool) = "deny" /\ Refused

Decide ==
    /\ pc = "tools" /\ calls # << >> /\ ~Halted
    /\ Decision(Call.tool) # "deny"
    /\ pc' = IF Decision(Call.tool) = "confirm" THEN "confirm" ELSE "decided"
    /\ UNCHANGED <<session, calls, ledger, claims, done, outcome, flags, late>>

\* _await_confirm() ends with a yes; without one, late or cancelled, no call.
Confirm ==
    /\ pc = "confirm" /\ ~cancelled
    /\ pc' = "decided"
    /\ UNCHANGED <<session, calls, ledger, claims, done, outcome, flags, late>>

NotConfirmed == pc = "confirm" /\ Refused

Nothing == [mut |-> FALSE, ev |-> {}]

\* Slip: older evidence stays when a mutation is recorded.
KeepsEvidence(r) ==
    /\ muts' = (muts \/ r.mut)
    /\ evid' = evid \cup r.ev

\* Evidence from before a mutation cannot verify the state after it.
Record(r) ==
    /\ muts' = (muts \/ r.mut)
    /\ evid' = (IF r.mut THEN {} ELSE evid) \cup r.ev

Prior == {c \in claims : c.id = Call.id}

\* The row of a name that never comes back is not kept.
Settle(status, r) ==
    claims' = IF FreshIds THEN {}
              ELSE claims \cup {[id |-> Call.id, tool |-> Call.tool, status |-> status, result |-> r]}

Unwanted == Halted \/ (mode = "readonly" /\ Call.tool \notin Reads)

Runs(tool) ==
    /\ pc = "decided" /\ Prior = {}
    /\ Call.tool = tool
    /\ late' = IF Unwanted THEN late + 1 ELSE late
    /\ ToNext
    /\ UNCHANGED <<session, done, outcome, flags>>

\* run_tool() of a call nobody has claimed, and what adapt_result() makes of it.
Works(r) == Record(r) /\ Settle("completed", r)

RunRead ==
    /\ Runs("read")
    /\ UNCHANGED world
    /\ Works([mut |-> FALSE, ev |-> {world}])

RunWrite ==
    /\ Runs("write")
    /\ world' = world + 1
    /\ Works([mut |-> TRUE, ev |-> {}])

\* An external action comes back with a receipt of its own.
RunAct ==
    /\ Runs("act")
    /\ world' = world + 1
    /\ Works([mut |-> TRUE, ev |-> {world'}])

\* A command that exits with 0 counts as evidence and reports no mutation.
RunShell ==
    /\ Runs("shell")
    /\ UNCHANGED world
    /\ Works([mut |-> FALSE, ev |-> {world}])

\* The call fails: a confirmed one may have happened all the same.
ToolFails ==
    /\ \E tool \in Tools \ {"finish"} :
          Runs(tool) /\ Settle(IF tool \in Risky THEN "unknown" ELSE "failed", Nothing)
    /\ UNCHANGED ledger

\* _execute_tool() answers from the table: the earlier result, or a refusal.
Replay ==
    /\ pc = "decided" /\ Call.tool # "finish"
    /\ \E c \in Prior : Record(IF c.tool = Call.tool THEN c.result ELSE Nothing)
    /\ ToNext
    /\ UNCHANGED <<session, world, claims, done, outcome, flags, late>>

\* finish() was answered from the table with a refusal.
FinishRefused ==
    /\ pc = "decided" /\ Call.tool = "finish" /\ Prior # {}
    /\ ToNext
    /\ UNCHANGED <<session, ledger, claims, done, outcome, flags, late>>

\* _completion_validation_error(): mutations, the model's or recorded ones,
\* need evidence from a tool.
Verified(claimsMut) == (claimsMut \/ muts) => evid # {}

\* An accepted finish drops the calls behind it.
Finish ==
    /\ pc = "decided" /\ Call.tool = "finish" /\ Prior = {}
    /\ Settle("completed", Nothing)
    /\ tried' = TRUE
    /\ \E claimsMut \in BOOLEAN :
          IF Verified(claimsMut)
          THEN pc' = "accept" /\ calls' = << >>
          ELSE ToNext
    /\ UNCHANGED <<phase, round, turns, route, premature, ledger, done, outcome, flags, late>>

GivesUp ==
    /\ pc = "decided" /\ Call.tool = "finish" /\ Prior = {}
    /\ End(IF cancelled THEN "cancelled" ELSE "failed")
    /\ UNCHANGED <<session, calls, ledger, claims, done, flags, late>>

AfterTool ==
    /\ pc = "after" /\ ~cancelled
    /\ pc' = IF calls = << >> THEN "round" ELSE "tools"
    /\ UNCHANGED <<session, calls, ledger, claims, done, outcome, flags, late>>

\* _step_verification_error() looks at the completion once more; a rejected
\* step goes back to the plan.
Accept ==
    /\ pc = "accept"
    /\ IF cancelled \/ (muts /\ evid = {})
       THEN End(IF cancelled THEN "cancelled" ELSE "failed") /\ UNCHANGED done
       ELSE /\ done' = done \cup {[phase |-> phase, muts |-> muts, fresh |-> world \in evid]}
            /\ IF phase = Phases THEN End("done") ELSE pc' = "phase" /\ UNCHANGED outcome
    /\ UNCHANGED <<session, calls, ledger, claims, flags, late>>

\* The next step continues the session with a ledger of its own.
NextPhase ==
    /\ pc = "phase"
    /\ pc' = "round"
    /\ phase' = phase + 1
    /\ round' = 0 /\ premature' = 0 /\ tried' = FALSE
    /\ muts' = FALSE /\ evid' = {} /\ claims' = {}
    /\ UNCHANGED <<turns, route, calls, world, done, outcome, flags, late>>

-----------------------------------------------------------------------------
(* The user *)

Cancel ==
    /\ ~cancelled /\ pc # "ended"
    /\ cancelled' = TRUE /\ paused' = FALSE
    /\ late' = 0
    /\ UNCHANGED <<pc, session, calls, ledger, claims, done, outcome, mode>>

SetPaused ==
    /\ ~cancelled /\ pc # "ended"
    /\ paused' = ~paused
    /\ late' = 0
    /\ UNCHANGED <<pc, session, calls, ledger, claims, done, outcome, cancelled, mode>>

SetPermissions ==
    /\ pc # "ended"
    /\ mode' \in Modes \ {mode}
    /\ late' = 0
    /\ UNCHANGED <<pc, session, calls, ledger, claims, done, outcome, cancelled, paused>>

Next ==
    \/ Cancelled \/ BeginRound \/ DeadlinePasses \/ OverBudget \/ ProviderFails
    \/ AnswersWithTools \/ AnswersInProse
    \/ InvalidCall \/ Denied \/ Decide \/ Confirm \/ NotConfirmed
    \/ RunRead \/ RunWrite \/ RunAct \/ RunShell \/ ToolFails \/ Replay \/ FinishRefused
    \/ Finish \/ GivesUp \/ AfterTool \/ Accept \/ NextPhase
    \/ Cancel \/ SetPaused \/ SetPermissions

Spec == Init /\ [][Next]_vars

-----------------------------------------------------------------------------
(* Properties *)

TypeOK ==
    /\ phase \in 1..Phases /\ round \in 0..MaxRounds /\ turns \in 0..MaxTurns /\ route \in 1..Routes
    /\ outcome \in {"running", "done", "failed", "cancelled"}
    /\ (pc = "ended") = (outcome # "running")
    /\ evid \subseteq 0..world

\* A phase that changed something is accepted only on evidence that saw the
\* world after its last reported change, whatever the order of the calls, the
\* rejected attempts and the answers in prose.
EvidenceIsFresh == \A d \in done : d.muts => d.fresh

\* Once the user cancels, pauses or switches to readonly, one call at most
\* still begins against it: the one that had been decided.
StopsBeforeTheNextTool == late <= 1
=============================================================================
