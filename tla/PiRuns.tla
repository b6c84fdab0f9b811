------------------------------ MODULE PiRuns ------------------------------
(***************************************************************************)
(* One plan step handed to the optional Pi worker: the supervisor that     *)
(* starts and stops the sidecar process (pi/supervisor.py), the client     *)
(* that follows a run over a replayable event stream (pi/client.py), the   *)
(* run inside the sidecar with its approval gate (pi-sidecar/src/run.mjs   *)
(* and server.mjs) and the worker that reserves the job's turns, retries   *)
(* and falls back to the native agent (agent/orchestrator.py).             *)
(***************************************************************************)
EXTENDS Integers, Sequences, FiniteSets, Functions

CONSTANTS
    MaxAttempts,  \* bound: attempts of the step, each a run of its own
    Budget,       \* job.budget["max_turns"]
    Gates,        \* bound: approvals one run asks for
    Idle,         \* current_profile()["pi_idle_timeout_sec"]
    MaxTime,      \* bound of the clock
    MaxRetries,   \* reconnects of the event stream
    MaxFaults     \* bound: lost requests, dropped streams, crashes of the sidecar

VARIABLES
    side,       \* PiSupervisor._process: "down", "starting" or "up"
    lastUsed,   \* PiSupervisor._last_used
    now,
    run,        \* the sidecar's runs, by attempt
    pc,         \* where the worker's thread is
    attempt,
    turnsUsed,  \* job.turns_used
    grant,      \* remaining_turns, reserved for this run
    seen,       \* last_seq of the event stream
    retries,
    got,        \* the terminal state the stream has yielded
    deciding,   \* _decide_confirm threads: <<attempt, gate>>
    said,       \* gates the user said yes to: <<attempt, gate>>
    watching,   \* the _watch_cancel thread has not posted yet
    cancel,     \* job.cancel
    faults      \* faults spent so far

supervisor == <<side, lastUsed, now>>
worker == <<pc, attempt, turnsUsed, grant, seen, retries, got>>
confirms == <<deciding, said>>
vars == <<supervisor, run, worker, confirms, watching, cancel, faults>>

Attempts == 1..MaxAttempts
Active == {"running", "awaiting_confirm"}
Terminal == {"done", "failed", "cancelled"}
NoRun == [st |-> "none", turns |-> 0, max |-> 0, gate |-> 0, opened |-> 0,
          ran |-> {}, log |-> <<>>]

\* Spending a fault: the network or the process fails once more.
Fault == faults < MaxFaults /\ faults' = faults + 1

Init ==
    /\ side = "down" /\ lastUsed = 0 /\ now = Idle
    /\ run = [a \in Attempts |-> NoRun]
    /\ pc = "ensure" /\ attempt = 1 /\ turnsUsed = 0 /\ grant = 0
    /\ seen = 0 /\ retries = 0 /\ got = "none"
    /\ deciding = {} /\ said = {} /\ watching = FALSE /\ cancel = FALSE /\ faults = 0

---------------------------------------------------------------------------
(* The run in the sidecar. *)

\* finish: the terminal state is written once, and the result event after it.
Finished(r, st) ==
    IF r.st \in Active
    THEN [r EXCEPT !.st = st, !.gate = 0, !.log = Append(@, [kind |-> "result", gate |-> 0])]
    ELSE r

Running(a) == side = "up" /\ run[a].st = "running"

Turn(a) ==
    /\ Running(a) /\ run[a].turns < run[a].max
    /\ run' = [run EXCEPT ![a].turns = @ + 1]
    /\ UNCHANGED <<supervisor, worker, confirms, watching, cancel, faults>>

OpenGate(a) ==
    /\ Running(a) /\ run[a].opened < Gates
    /\ LET k == run[a].opened + 1
       IN  run' = [run EXCEPT ![a] =
                      [run[a] EXCEPT !.st = "awaiting_confirm", !.gate = k, !.opened = k,
                                     !.log = Append(@, [kind |-> "confirm_request", gate |-> k])]]
    /\ UNCHANGED <<supervisor, worker, confirms, watching, cancel, faults>>

\* settleConfirm: the tool runs only when the gate was approved.
SettleConfirm(r, approved) ==
    [r EXCEPT !.st = "running", !.gate = 0, !.ran = IF approved THEN @ \union {r.gate} ELSE @]

GateTimesOut(a) ==
    /\ side = "up" /\ run[a].st = "awaiting_confirm"
    /\ run' = [run EXCEPT ![a] = SettleConfirm(@, FALSE)]
    /\ UNCHANGED <<supervisor, worker, confirms, watching, cancel, faults>>

\* The model's last message, an error of the provider, the turn ceiling.
Settle(a, st) ==
    /\ Running(a)
    /\ run[a].turns = run[a].max => st = "failed"
    /\ run' = [run EXCEPT ![a] = Finished(@, st)]
    /\ UNCHANGED <<supervisor, worker, confirms, watching, cancel, faults>>

RunTimesOut(a) ==
    /\ side = "up" /\ run[a].st \in Active
    /\ run' = [run EXCEPT ![a] = Finished(@, "failed")]
    /\ UNCHANGED <<supervisor, worker, confirms, watching, cancel, faults>>

---------------------------------------------------------------------------
(* The supervisor. *)

SideUp ==
    /\ side = "starting" /\ side' = "up"
    /\ UNCHANGED <<lastUsed, now, run, worker, confirms, watching, cancel, faults>>

\* A crash takes the runs with it; nobody hears a result.
SideDies ==
    /\ side # "down" /\ Fault /\ side' = "down"
    /\ run' = [a \in Attempts |-> IF run[a].st \in Active
                                  THEN [run[a] EXCEPT !.st = "gone", !.gate = 0] ELSE run[a]]
    /\ UNCHANGED <<lastUsed, now, worker, confirms, watching, cancel>>

\* stop_if_idle, from the scheduler's tick: SIGTERM cancels the runs first.
StopIfIdle ==
    /\ side # "down" /\ now - lastUsed >= Idle
    /\ side' = "down"
    /\ run' = [a \in Attempts |-> Finished(run[a], "cancelled")]
    /\ UNCHANGED <<lastUsed, now, worker, confirms, watching, cancel, faults>>

Tick ==
    /\ now < MaxTime /\ now' = now + 1
    /\ UNCHANGED <<side, lastUsed, run, worker, confirms, watching, cancel, faults>>

---------------------------------------------------------------------------
(* ensure_running and the reservation of the job's turns. *)

At(from, to) == pc = from /\ pc' = to

EnsureAvailable ==
    /\ At("ensure", "known") /\ side = "up"
    /\ UNCHANGED <<supervisor, run, attempt, turnsUsed, grant, seen, retries, got,
                   confirms, watching, cancel, faults>>

EnsureSpawn ==
    /\ At("ensure", "poll") /\ side # "up"
    /\ side' = "starting"
    /\ UNCHANGED <<lastUsed, now, run, attempt, turnsUsed, grant, seen, retries, got,
                   confirms, watching, cancel, faults>>

PollUp ==
    /\ At("poll", "known") /\ side = "up"
    /\ UNCHANGED <<supervisor, run, attempt, turnsUsed, grant, seen, retries, got,
                   confirms, watching, cancel, faults>>

\* The deadline passes or the process exits: the native agent takes the step.
PollFails ==
    /\ At("poll", "native") /\ side # "up"
    /\ UNCHANGED <<supervisor, run, attempt, turnsUsed, grant, seen, retries, got,
                   confirms, watching, cancel, faults>>

MarkUsed ==
    /\ At("known", "reserve") /\ lastUsed' = now
    /\ UNCHANGED <<side, now, run, attempt, turnsUsed, grant, seen, retries, got,
                   confirms, watching, cancel, faults>>

\* All the turns that are left, before the run starts.
Reserve ==
    /\ pc = "reserve"
    /\ IF turnsUsed < Budget
       THEN pc' = "post" /\ grant' = Budget - turnsUsed /\ turnsUsed' = Budget
       ELSE pc' = "over" /\ UNCHANGED <<grant, turnsUsed>>
    /\ UNCHANGED <<supervisor, run, attempt, seen, retries, got, confirms, watching, cancel, faults>>

---------------------------------------------------------------------------
(* The client. *)

\* The step fails; a retryable message gives it another attempt.
Fails ==
    \/ pc' = "over" /\ UNCHANGED attempt
    \/ attempt < MaxAttempts /\ ~cancel /\ pc' = "ensure" /\ attempt' = attempt + 1

\* An exception leaves client.run before the spend is known: the charge stands.
\* Slip: an exception hands the whole reservation back.
RaisesUncharged == turnsUsed' = turnsUsed - grant /\ Fails
Raises == UNCHANGED turnsUsed /\ Fails

Started ==
    [run EXCEPT ![attempt] = [NoRun EXCEPT !.st = "running", !.max = grant]]

Post ==
    /\ At("post", "stream") /\ side = "up"
    /\ run' = Started
    /\ seen' = 0 /\ retries' = 0 /\ got' = "none" /\ watching' = TRUE
    /\ UNCHANGED <<supervisor, attempt, turnsUsed, grant, confirms, cancel, faults>>

\* The request fails, or its answer is lost after the run has started.
PostFails ==
    /\ pc = "post"
    /\ \/ side # "up" /\ UNCHANGED <<run, faults>>
       \/ side = "up" /\ Fault /\ run' = Started
    /\ Raises
    /\ UNCHANGED <<supervisor, grant, seen, retries, got, confirms, watching, cancel>>

Event == run[attempt].log[seen + 1]

ReadConfirm ==
    /\ pc = "stream" /\ seen < Len(run[attempt].log) /\ Event.kind = "confirm_request"
    /\ seen' = seen + 1 /\ retries' = 0
    /\ deciding' = deciding \union {<<attempt, Event.gate>>}
    /\ UNCHANGED <<supervisor, run, pc, attempt, turnsUsed, grant, got, said, watching, cancel, faults>>

ReadResult ==
    /\ pc = "stream" /\ seen < Len(run[attempt].log) /\ Event.kind = "result"
    /\ seen' = seen + 1 /\ retries' = 0
    /\ got' = run[attempt].st
    /\ UNCHANGED <<supervisor, run, pc, attempt, turnsUsed, grant, confirms, watching, cancel, faults>>

Close ==
    /\ At("stream", "touch") /\ got # "none"
    /\ watching' = FALSE
    /\ UNCHANGED <<supervisor, run, attempt, turnsUsed, grant, seen, retries, got, confirms, cancel, faults>>

\* The stream is lost; a snapshot may already know the end, else reconnect.
Drop ==
    /\ pc = "stream"
    /\ \/ side # "up" /\ UNCHANGED faults
       \/ side = "up" /\ Fault
    /\ IF side = "up" /\ run[attempt].st \in Terminal
       THEN /\ got' = run[attempt].st
            /\ pc' = "touch" /\ watching' = FALSE
            /\ UNCHANGED retries
       ELSE /\ retries < MaxRetries
            /\ retries' = retries + 1
            /\ UNCHANGED <<got, pc, watching>>
    /\ UNCHANGED <<supervisor, run, attempt, turnsUsed, grant, seen, confirms, cancel>>

\* Out of reconnects, or the events cannot be handled: cancel quietly and fail.
GiveUp ==
    /\ pc = "stream"
    /\ \/ side # "up" /\ retries = MaxRetries /\ UNCHANGED <<run, faults>>
       \/ /\ side = "up" /\ Fault
          /\ \/ run' = [run EXCEPT ![attempt] = Finished(@, "cancelled")]
             \/ UNCHANGED run
    /\ Raises
    /\ watching' = FALSE
    /\ UNCHANGED <<supervisor, grant, seen, retries, got, confirms, cancel>>

\* PI_SUPERVISOR.touch(), once the run is over.
Touch ==
    /\ At("touch", "refund") /\ lastUsed' = now
    /\ UNCHANGED <<side, now, run, attempt, turnsUsed, grant, seen, retries, got,
                   confirms, watching, cancel, faults>>

\* The turns not spent go back; an unknown spend keeps the charge.
Unspent == IF side = "up" THEN grant - run[attempt].turns ELSE 0

Refund ==
    /\ pc = "refund"
    /\ turnsUsed' = turnsUsed - Unspent
    /\ IF got = "failed" /\ ~cancel THEN Fails ELSE pc' = "over" /\ UNCHANGED attempt
    /\ UNCHANGED <<supervisor, run, grant, seen, retries, got, confirms, watching, cancel, faults>>

---------------------------------------------------------------------------
(* The user: approvals and the cancel. *)

\* confirm: keyed on the id, so an answer to a settled gate is inert.
\* Slip: any answer settles whatever gate is open.
ConfirmsAnything(r, k, yes) ==
    IF r.gate > 0 THEN SettleConfirm(r, yes) ELSE r
Confirm(r, k, yes) ==
    IF r.gate > 0 /\ r.gate = k THEN SettleConfirm(r, yes) ELSE r

\* _decide_confirm, off the reader's thread; a lost answer is swallowed.
Decide(a, k, yes) ==
    /\ <<a, k>> \in deciding
    /\ yes => ~cancel
    /\ deciding' = deciding \ {<<a, k>>}
    /\ said' = IF yes THEN said \union {<<a, k>>} ELSE said
    /\ \/ side = "up" /\ run' = [run EXCEPT ![a] = Confirm(@, k, yes)] /\ UNCHANGED faults
       \/ side = "up" /\ Fault /\ UNCHANGED run
       \/ side # "up" /\ UNCHANGED <<run, faults>>
    /\ UNCHANGED <<supervisor, worker, watching, cancel>>

Cancel ==
    /\ ~cancel /\ pc \notin {"over", "native"} /\ cancel' = TRUE
    /\ UNCHANGED <<supervisor, run, worker, confirms, watching, faults>>

WatchCancel ==
    /\ cancel /\ watching /\ watching' = FALSE
    /\ \/ side = "up" /\ run' = [run EXCEPT ![attempt] = Finished(@, "cancelled")] /\ UNCHANGED faults
       \/ side = "up" /\ Fault /\ UNCHANGED run
       \/ side # "up" /\ UNCHANGED <<run, faults>>
    /\ UNCHANGED <<supervisor, worker, confirms, cancel>>

---------------------------------------------------------------------------
RunStep ==
    \E a \in Attempts :
        \/ Turn(a) \/ OpenGate(a) \/ GateTimesOut(a) \/ RunTimesOut(a)
        \/ \E st \in {"done", "failed"} : Settle(a, st)
SideStep == SideUp \/ SideDies \/ StopIfIdle \/ Tick
EnsureStep == EnsureAvailable \/ EnsureSpawn \/ PollUp \/ PollFails \/ MarkUsed \/ Reserve
ClientStep ==
    \/ Post \/ PostFails \/ ReadConfirm \/ ReadResult \/ Close \/ Drop \/ GiveUp
    \/ Touch \/ Refund
UserStep ==
    \/ Cancel \/ WatchCancel
    \/ \E d \in deciding, yes \in BOOLEAN : Decide(d[1], d[2], yes)

Next == RunStep \/ SideStep \/ EnsureStep \/ ClientStep \/ UserStep
Spec == Init /\ [][Next]_vars

---------------------------------------------------------------------------
(* Properties. *)

\* The variables have their types.
TypeOK ==
    /\ side \in {"down", "starting", "up"} /\ lastUsed \in 0..MaxTime /\ now \in 0..MaxTime
    /\ \A a \in Attempts :
        /\ run[a].st \in Active \union Terminal \union {"none", "gone"}
        /\ run[a].turns \in 0..Budget /\ run[a].gate \in 0..Gates /\ run[a].ran \subseteq 1..Gates
    /\ pc \in {"ensure", "poll", "known", "reserve", "post", "stream", "touch", "refund",
               "native", "over"}
    /\ attempt \in Attempts /\ turnsUsed \in 0..Budget /\ retries \in 0..MaxRetries
    /\ got \in Terminal \union {"none"}

\* The turns all attempts really spend stay within what the job was charged, and
\* so within its budget, whatever request is lost on the way.
TurnsAreCharged ==
    FoldFunction(LAMBDA r, n : r.turns + n, 0, run) <= turnsUsed

\* Two runs of one step are never at work together: an attempt whose run may still
\* be going keeps the whole reservation, and the next one cannot start.
OneRunAtATime == Cardinality({a \in Attempts : run[a].st \in Active}) <= 1

\* A tool behind a gate runs only if the user said yes to that very gate.
GateOpensOnYes == \A a \in Attempts : \A k \in run[a].ran : <<a, k>> \in said

\* The three together: nothing runs uncharged, twice or unasked.
RunsAsGranted == TurnsAreCharged /\ OneRunAtATime /\ GateOpensOnYes

\* What the fallback's comment promises: the native agent takes over a step only
\* when no tool has run for it.
NoToolHasRunYet == pc = "native" => \A a \in Attempts : run[a].ran = {}

\* What stop_if_idle's lock is for: the sidecar somebody is using is not stopped.
StopIsIdle ==
    [][StopIfIdle => pc \notin {"poll", "known", "reserve", "post", "stream"}]_vars
===========================================================================
