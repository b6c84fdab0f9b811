---------------------------- MODULE ComputerUse ----------------------------
(***************************************************************************)
(* Computer-use sessions (rau/computer/session.py) over their table in     *)
(* rau/control/store.py: the tool thread of a job and a person's request   *)
(* of the hub work on the same machine.                                    *)
(*                                                                         *)
(* What is on the screen is left out: an observation is how many actions   *)
(* of its session it has seen and whether the condition asked for was      *)
(* there.  The clock is abstract: a lease or a deadline may pass at any    *)
(* time.  An exception of the store is not modelled.                       *)
(***************************************************************************)
EXTENDS Integers, FiniteSets

CONSTANTS
    Sessions,   \* bound: sessions that are started
    MaxActs,    \* bound: actions of a session
    MaxCrashes  \* bound: restarts of the process

Callers == {"worker", "person"}
ACTIVE_STATES == {"active", "acting", "verifying"}
OWNING == ACTIVE_STATES \cup {"awaiting_review"} \* of computer_active_lease_idx
NoObservation == [some |-> FALSE, acts |-> 0, holds |-> FALSE]
Free == [at |-> "idle"]

VARIABLES
    row,     \* table computer_sessions; state "none": not started; vouched is a history:
             \* the actions an observation has seen or an assertion has answered for
    acts,    \* actions posted to the machine for a session
    call,    \* what each caller is doing
    lock,    \* the manager's lock: the caller that holds it, or "free"
    crashes

vars == <<row, acts, call, lock, crashes>>

Unstarted == [state |-> "none", effect |-> "none", lease |-> "null", late |-> FALSE,
              obs |-> NoObservation, vouched |-> 0, oneShot |-> FALSE]

Init ==
    /\ row = [s \in Sessions |-> Unstarted] /\ acts = [s \in Sessions |-> 0]
    /\ call = [c \in Callers |-> Free] /\ lock = "free" /\ crashes = 0

Live(s) == row[s].state \in ACTIVE_STATES /\ ~row[s].late             \* _check_live
Observable(s) == row[s].state \in OWNING /\ ~row[s].late              \* _check_observable
Known(s) == row[s].state # "none"
\* the caller has the session's id: a one-shot session is its own caller's secret
Names(c, s) == Known(s) /\ ~row[s].oneShot
Idle(c) == call[c].at = "idle"
Goto(c, place) == call' = [call EXCEPT ![c] = place]
Return(c) == Goto(c, Free)
Update(s, r) == row' = [row EXCEPT ![s] = r]
Quiet == UNCHANGED <<acts, lock, crashes>>

-----------------------------------------------------------------------------
(* Time and crashes.                                                       *)

LeaseExpires(s) ==
    /\ row[s].state \in ACTIVE_STATES /\ row[s].lease = "live"
    /\ Update(s, [row[s] EXCEPT !.lease = "expired"]) /\ UNCHANGED call /\ Quiet

DeadlinePasses(s) ==
    /\ row[s].state \in OWNING /\ ~row[s].late
    /\ Update(s, [row[s] EXCEPT !.late = TRUE]) /\ UNCHANGED call /\ Quiet

\* Slip: what was in flight at the crash is forgotten.
ForgetsEffect(r) == [r EXCEPT !.state = "awaiting_review", !.lease = "null",
                              !.effect = IF r.state = "verifying" THEN "unknown" ELSE "none"]
\* mark_unfinished_interrupted
Reviewed(r) == [r EXCEPT !.state = "awaiting_review", !.lease = "null",
                         !.effect = IF r.state \in {"acting", "verifying"} THEN "unknown" ELSE @]

Restart ==
    /\ crashes < MaxCrashes /\ crashes' = crashes + 1
    /\ row' = [s \in Sessions |->
                  IF row[s].state \in ACTIVE_STATES THEN Reviewed(row[s]) ELSE row[s]]
    /\ call' = [c \in Callers |-> Free] /\ lock' = "free" /\ UNCHANGED acts

-----------------------------------------------------------------------------
(* Starting: create_computer_session.                                      *)

Expired(r) ==
    IF r.state \in ACTIVE_STATES /\ r.lease = "expired"
    THEN [r EXCEPT !.lease = "null",
                   !.state = IF r.effect = "unknown" \/ r.state \in {"acting", "verifying"}
                             THEN "awaiting_review" ELSE "interrupted"]
    ELSE r

\* One transaction: the unique index refuses a second owner, and takes the expiry back too.
Start(c, s, oneShot) ==
    /\ Idle(c) /\ ~Known(s) /\ (oneShot => c = "worker")
    /\ LET swept == [t \in Sessions |-> Expired(row[t])] IN
          IF \A t \in Sessions : swept[t].state \notin OWNING
          THEN /\ row' = [swept EXCEPT ![s] = [Unstarted EXCEPT !.state = "active",
                                               !.lease = "live", !.oneShot = oneShot]]
               /\ IF oneShot
                  THEN \E then \in {"observe", "cua"} : Goto(c, [at |-> then, s |-> s])
                  ELSE UNCHANGED call
          ELSE UNCHANGED <<row, call>>
    /\ Quiet

-----------------------------------------------------------------------------
(* Observing, under the lock.                                              *)

\* whether the screenshot and the accessibility tree show the condition asked for
Pictures == BOOLEAN

\* Every outcome of observe: seen, not captured ({"ok": False}), or an exception: the
\* session is closed or late, or the display is not known to _resolve_display.
Seen(s, r, holds) ==
    [r EXCEPT !.lease = "live", !.vouched = acts[s],
              !.obs = [some |-> TRUE, acts |-> acts[s], holds |-> holds]]

Observe(c, s) ==
    /\ Idle(c) /\ Names(c, s) /\ lock = "free"
    /\ Observable(s) /\ \E holds \in Pictures : Update(s, Seen(s, row[s], holds))
    /\ UNCHANGED call /\ Quiet

\* computer_observe without a session: whatever happens it is finished
ObserveOnce(c) ==
    /\ call[c].at = "observe" /\ lock = "free"
    /\ LET s == call[c].s IN
          \/ Observable(s) /\ \E holds \in Pictures : Update(s, Seen(s, row[s], holds))
          \/ UNCHANGED row
    /\ Goto(c, [at |-> "finish", s |-> call[c].s]) /\ Quiet

\* compatibility_cua_action: no finish when the observation raises
CuaObserve(c) ==
    /\ call[c].at = "cua" /\ lock = "free"
    /\ LET s == call[c].s IN
          \/ /\ Observable(s) /\ \E holds \in Pictures : Update(s, Seen(s, row[s], holds))
             /\ \E then \in {"finish", "act"} : Goto(c, [at |-> then, s |-> s])
          \/ Goto(c, [at |-> "finish", s |-> s]) /\ UNCHANGED row
          \/ Return(c) /\ UNCHANGED row
    /\ Quiet

\* focus: the observation is dropped before the new one
Focus(c, s) ==
    /\ Idle(c) /\ Names(c, s) /\ lock = "free" /\ Live(s)
    /\ \/ \E holds \in Pictures : Update(s, Seen(s, row[s], holds))
       \/ Update(s, [row[s] EXCEPT !.obs.some = FALSE, !.obs.holds = FALSE])
    /\ UNCHANGED call /\ Quiet

-----------------------------------------------------------------------------
(* Acting, under the lock; finish and start do not take it.                *)

\* After an action refused: the one-shot call still finishes.
Refused(c, s) == IF row[s].oneShot THEN [at |-> "finish", s |-> s] ELSE Free

Refuse(c, s) == Goto(c, Refused(c, s)) /\ UNCHANGED <<row, lock>>

CallsAct(c, s) == \/ Idle(c) /\ Names(c, s)
                  \/ call[c] = [at |-> "act", s |-> s]

Acting(r) == [r EXCEPT !.state = "acting", !.effect = "unknown"]

Act(c, s) ==
    /\ CallsAct(c, s) /\ lock = "free" /\ acts[s] < MaxActs
    /\ \/ /\ Live(s) /\ row[s].obs.some
          /\ Update(s, Acting(row[s])) /\ lock' = c
          /\ Goto(c, [at |-> "post", s |-> s])
       \* the user is at the machine
       \/ /\ Live(s) /\ row[s].obs.some
          /\ Update(s, [row[s] EXCEPT !.state = "awaiting_review", !.effect = "none"])
          /\ Goto(c, Refused(c, s)) /\ UNCHANGED lock
       \* not live, nothing observed, another window, a stale or a secure target
       \/ Refuse(c, s)
    /\ UNCHANGED <<acts, crashes>>

Post(c) ==
    /\ call[c].at = "post"
    /\ acts' = [acts EXCEPT ![call[c].s] = @ + 1]
    /\ \E ok \in BOOLEAN : Goto(c, [at |-> "posted", s |-> call[c].s, ok |-> ok])
    /\ UNCHANGED <<row, lock, crashes>>

\* A second owner by now: the index refuses the update of the row, which raises.
Usurped(s) == row[s].state \notin OWNING /\ \E t \in Sessions \ {s} : row[t].state \in OWNING
Raise(c, s) == Goto(c, Refused(c, s)) /\ lock' = "free"

Verify(c) ==
    /\ call[c].at = "posted"
    /\ LET s == call[c].s IN
          IF Usurped(s) THEN Raise(c, s) /\ UNCHANGED row
          ELSE /\ Update(s, [row[s] EXCEPT !.state = "verifying"])
               /\ Goto(c, [call[c] EXCEPT !.at = "verify"]) /\ UNCHANGED lock
    /\ UNCHANGED <<acts, crashes>>

Look(c) ==
    /\ call[c].at = "verify"
    /\ LET s == call[c].s IN
          \/ /\ Observable(s)
             /\ \E holds \in Pictures :
                    /\ Update(s, Seen(s, row[s], holds))
                    /\ Goto(c, [at |-> "looked", s |-> s, ok |-> call[c].ok /\ holds])
             /\ UNCHANGED lock
          \/ /\ Observable(s)
             /\ Goto(c, [at |-> "blind", s |-> s]) /\ UNCHANGED <<row, lock>>
          \/ ~Observable(s) /\ Raise(c, s) /\ UNCHANGED row
    /\ UNCHANGED <<acts, crashes>>

Effect(ok) == IF ok THEN "applied" ELSE "applied_unverified"

\* the last write of act
Settle(c) ==
    /\ call[c].at \in {"looked", "blind"}
    /\ LET s == call[c].s IN
          /\ IF Usurped(s) THEN UNCHANGED row
             ELSE IF call[c].at = "looked"
             THEN Update(s, [row[s] EXCEPT !.state = "active", !.lease = "live",
                                           !.effect = Effect(call[c].ok)])
             ELSE Update(s, [row[s] EXCEPT !.state = "awaiting_review", !.effect = "unknown"])
          /\ Goto(c, Refused(c, s))
    /\ lock' = "free"
    /\ UNCHANGED <<acts, crashes>>

-----------------------------------------------------------------------------
(* Reviewing and finishing, without the lock.                              *)

\* assert_condition judges the latest observation, wait_for one of its own.
Assert(c, s) ==
    /\ Idle(c) /\ Names(c, s) /\ row[s].obs.holds
    /\ row[s].state = "awaiting_review" /\ Goto(c, [at |-> "recover", s |-> s])
    /\ UNCHANGED row /\ Quiet

WaitFor(c, s) ==
    /\ Idle(c) /\ Names(c, s) /\ lock = "free" /\ Observable(s)
    /\ \E holds \in Pictures :
           /\ Update(s, Seen(s, row[s], holds))
           /\ IF holds /\ row[s].state = "awaiting_review"
              THEN Goto(c, [at |-> "recover", s |-> s]) ELSE UNCHANGED call
    /\ Quiet

Recover(c) ==
    /\ call[c].at = "recover"
    /\ LET s == call[c].s IN
          IF Usurped(s) THEN UNCHANGED row
          ELSE Update(s, [row[s] EXCEPT !.state = "active", !.effect = "applied", !.lease = "live",
                                        !.vouched = acts[s]])
    /\ Return(c) /\ Quiet

Finish(c, s) ==
    /\ \/ Idle(c) /\ Names(c, s)
       \/ call[c] = [at |-> "finish", s |-> s]
    /\ \E outcome \in {"completed", "failed"} :
           Update(s, [row[s] EXCEPT !.state = outcome, !.lease = "null"])
    /\ Return(c) /\ Quiet

-----------------------------------------------------------------------------
Next ==
    \/ \E s \in Sessions : LeaseExpires(s) \/ DeadlinePasses(s)
    \/ Restart
    \/ \E c \in Callers, s \in Sessions :
           \/ \E oneShot \in BOOLEAN : Start(c, s, oneShot)
           \/ Observe(c, s) \/ Focus(c, s) \/ Act(c, s)
           \/ Assert(c, s) \/ WaitFor(c, s) \/ Finish(c, s)
    \/ \E c \in Callers :
           \/ ObserveOnce(c) \/ CuaObserve(c) \/ Post(c) \/ Verify(c) \/ Look(c)
           \/ Settle(c) \/ Recover(c)

Spec == Init /\ [][Next]_vars

-----------------------------------------------------------------------------
(* Properties.                                                             *)

TypeOK ==
    /\ \A s \in Sessions : /\ row[s].state \in OWNING \cup {"none", "completed", "failed", "interrupted"}
                           /\ acts[s] \in 0..MaxActs /\ row[s].obs.acts \in 0..acts[s]
    /\ lock \in Callers \cup {"free"}

\* What was done to the machine is not forgotten: whoever crashes, finishes, takes over or
\* lets a lease lapse, a session whose last action nobody has answered for has an effect on
\* its record, known or unknown.
UnseenIsOnRecord == \A s \in Sessions : acts[s] > row[s].vouched => row[s].effect # "none"

\* A session that is said to have applied its action has seen it.
AppliedWasSeen ==
    \A s \in Sessions : row[s].effect = "applied" => row[s].obs.acts = acts[s]

\* No one-shot session outlives its call.
OneShotReleases ==
    \A s \in Sessions : row[s].oneShot /\ row[s].state \in ACTIVE_STATES =>
        \E c \in Callers : ~Idle(c) /\ call[c].s = s

\* A finished session does not take the machine again.
FinishedStays ==
    [][\A s \in Sessions : row[s].state \notin OWNING \cup {"none"} => row'[s].state \notin OWNING]_vars

=============================================================================
