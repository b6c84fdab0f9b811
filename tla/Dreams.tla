------------------------------- MODULE Dreams -------------------------------
(***************************************************************************)
(* The nightly dream and the living soul (rau/dream/dreamer.py,            *)
(* rau/identity/store.py, the diary and daily logs of rau/memory/store.py):*)
(* a tick that compacts the day that ended, a run asked for by hand, a     *)
(* hard steer, the backups, a file spoiled by hand, a restart.             *)
(*                                                                         *)
(* A soul is a number: 0 is a file that is missing or does not pass        *)
(* valid_soul, 1 the deterministic seed.  identity.md and backstory.md are *)
(* one version number; every file is replaced whole (write_text and        *)
(* _atomic_text write beside it and rename).  One flag stands for the      *)
(* window of hours and a face that is not busy; the thirty backups that    *)
(* are kept are never reached.                                             *)
(***************************************************************************)
EXTENDS Integers, Sequences, FiniteSets

CONSTANTS
    Manuals,    \* requests of /api/dream/run
    Steers,     \* requests of /api/identity/steer, hard and fresh
    Apart,      \* the user steers while no dream is under way, and dreams come after
    MaxDays,    \* bound: days
    MaxEntries, \* bound: diary entries of a day
    MaxFaults   \* bound: restarts and spoiled files

Days == 1..MaxDays
Dreamers == {0} \union Manuals \* 0: the timer thread
Actors == Dreamers \union Steers
Seed == 1

VARIABLES
    day, night, \* the calendar day; the window is open and should_defer says no
    timer,      \* _timer_state
    lock,       \* _run_lock is held
    stopping,   \* _stop
    diary,      \* entries of each day
    logs,       \* entries each daily log covers; -1: no log
    soul, bak,  \* soul.md and its last backup
    archive,    \* souls with a dated backup
    ident,      \* version of identity.md and backstory.md
    from,       \* of each soul, the version it was made from
    pc, work,   \* of each actor: its place, what it holds
    paid,       \* history: calls this process paid for each day's dream
    done,       \* history: dreams this process applied for each day
    past        \* history: a steer cut short, the souls spoiled, faults so far

clock == <<day, night>>
files == <<diary, logs, soul, bak, archive, ident, from>>
history == <<paid, done>>
vars == <<clock, timer, lock, stopping, files, pc, work, history, past>>

NoTimer == [last |-> 0, failDay |-> 0, failures |-> 0, waits |-> FALSE]
NoWork == [day |-> 0, seen |-> 0, ident |-> 0, prev |-> 0, draft |-> "none", copy |-> 0]

Init ==
    /\ day = 1 /\ night = FALSE /\ timer = NoTimer
    /\ lock = FALSE /\ stopping = FALSE
    /\ diary = [d \in Days |-> 0] /\ logs = [d \in Days |-> -1]
    /\ soul \in {0, 2} /\ bak = 0 /\ archive = {} /\ ident = 0
    /\ from = IF soul = 0 THEN <<0>> ELSE <<0, 0>>
    /\ pc = [a \in Actors |-> "idle"] /\ work = [a \in Actors |-> NoWork]
    /\ paid = [d \in Days |-> 0] /\ done = [d \in Days |-> 0]
    /\ past = [half |-> FALSE, spoiled |-> {}, faults |-> 0]

At(a, place) == pc[a] = place
Goto(a, place) == pc' = [pc EXCEPT ![a] = place]
Moves(a, here, there) == At(a, here) /\ Goto(a, there)
Idle(a) == pc[a] \in {"idle", "done"}
MayStart(a) ==
    At(a, "idle") /\ (Apart => \A b \in Actors : a \in Steers \/ b \in Steers => Idle(b))

LoadedSoul == IF soul # 0 THEN soul ELSE IF bak # 0 THEN bak ELSE Seed

(***************************************************************************)
(* The world: days pass, the diary is written, the window opens and shuts. *)
(***************************************************************************)
Midnight ==
    /\ day < MaxDays /\ day' = day + 1
    /\ UNCHANGED <<night, timer, lock, stopping, files, pc, work, history, past>>
Window ==
    /\ night' = ~night
    /\ UNCHANGED <<day, timer, lock, stopping, files, pc, work, history, past>>
AppendDiary ==
    /\ diary[day] < MaxEntries /\ diary' = [diary EXCEPT ![day] = @ + 1]
    /\ UNCHANGED <<clock, timer, lock, stopping, logs, soul, bak, archive, ident, from, pc, work,
                   history, past>>
RetryIsDue ==
    /\ timer.waits /\ timer' = [timer EXCEPT !.waits = FALSE]
    /\ UNCHANGED <<clock, lock, stopping, files, pc, work, history, past>>

(***************************************************************************)
(* _dream_tick: the once-a-night latch names the day that was compacted,   *)
(* failures are counted by the calendar day.                               *)
(***************************************************************************)
\* Slip: the day that just started is compacted.
CompactsToday(now) == now
Compacts(now) == now - 1

Tick ==
    /\ MayStart(0) /\ ~stopping
    /\ LET fresh == IF timer.failDay = day THEN timer
                    ELSE [timer EXCEPT !.failDay = day, !.failures = 0, !.waits = FALSE]
       IN  /\ timer' = fresh
           /\ IF Compacts(day) > 0 /\ Compacts(day) # fresh.last /\ fresh.failures < 3
                 /\ ~fresh.waits /\ night
              THEN /\ Goto(0, "locks")
                   /\ work' = [work EXCEPT ![0] = [NoWork EXCEPT !.day = Compacts(day)]]
              ELSE UNCHANGED <<pc, work>>
    /\ UNCHANGED <<clock, lock, stopping, files, history, past>>

Ask(m) ==
    /\ m \in Manuals /\ MayStart(m) /\ Goto(m, "locks")
    /\ UNCHANGED <<clock, timer, lock, stopping, files, work, history, past>>

(***************************************************************************)
(* run_dream: the lock is taken or the run is over, the diary and the soul *)
(* are read, the model is paid, the log and the soul are written.          *)
(***************************************************************************)
Ends(a) == Goto(a, IF a = 0 THEN "idle" ELSE "done") /\ work' = [work EXCEPT ![a] = NoWork]

DayOf(a) == IF a \in Manuals THEN day ELSE work[a].day

\* Slip: the run goes ahead beside another one.
LockAnyway(a) ==
    /\ At(a, "locks") /\ lock' = TRUE
    /\ IF stopping THEN Ends(a)
       ELSE Goto(a, "reads") /\ work' = [work EXCEPT ![a].day = DayOf(a)]
    /\ UNCHANGED <<clock, timer, stopping, files, history, past>>

Lock(a) ==
    /\ At(a, "locks")
    /\ IF lock \/ stopping THEN Ends(a) /\ UNCHANGED lock
       ELSE Goto(a, "reads") /\ lock' = TRUE /\ work' = [work EXCEPT ![a].day = DayOf(a)]
    /\ UNCHANGED <<clock, timer, stopping, files, history, past>>

\* the tick goes on to latch the night once run_dream has returned
Returns(a) == IF a = 0 THEN Goto(0, "returns") /\ UNCHANGED work ELSE Ends(a)

\* an empty diary is a night that went well; a request for it latches nothing
Read(a) ==
    /\ At(a, "reads")
    /\ LET w == work[a] IN
       IF diary[w.day] = 0
       THEN Returns(a) /\ lock' = FALSE
       ELSE /\ Goto(a, "pays") /\ UNCHANGED lock
            /\ work' = [work EXCEPT ![a].seen = diary[w.day], ![a].ident = ident,
                                    ![a].prev = LoadedSoul]
    /\ UNCHANGED <<clock, timer, stopping, files, history, past>>

\* The answer has a soul that is accepted, none (the old one is written again), one that is
\* empty, or one that is refused.
Pay(a) ==
    /\ At(a, "pays") /\ paid' = [paid EXCEPT ![work[a].day] = @ + 1]
    /\ IF stopping THEN Ends(a) /\ lock' = FALSE
       ELSE /\ Goto(a, "logs") /\ UNCHANGED lock
            /\ \E draft \in {"good", "same", "empty", "bad"} :
                    work' = [work EXCEPT ![a].draft = draft]
    /\ UNCHANGED <<clock, timer, stopping, files, done, past>>

\* the exception leaves run_dream: the tick counts it and waits
Failed(a) ==
    /\ Ends(a) /\ lock' = FALSE
    /\ timer' = IF a = 0 THEN [timer EXCEPT !.failures = @ + 1, !.waits = TRUE] ELSE timer

CallFails(a) ==
    /\ At(a, "pays") /\ paid' = [paid EXCEPT ![work[a].day] = @ + 1] /\ Failed(a)
    /\ UNCHANGED <<clock, stopping, files, done, past>>

WriteLog(a) ==
    /\ Moves(a, "logs", IF work[a].draft = "empty" THEN "latches"
                        ELSE IF work[a].draft = "bad" THEN "refuses" ELSE "copies")
    /\ logs' = [logs EXCEPT ![work[a].day] = work[a].seen]
    /\ UNCHANGED <<clock, timer, lock, stopping, diary, soul, bak, archive, ident, from, work,
                   history, past>>

Refuse(a) ==
    /\ At(a, "refuses") /\ Failed(a)
    /\ UNCHANGED <<clock, stopping, files, history, past>>

(***************************************************************************)
(* backup_soul: a soul that is no longer valid is not backed up.  It is    *)
(* looked at and then read, which counts as one step.                      *)
(***************************************************************************)
AfterBackup(a) == IF a \in Steers THEN "sources" ELSE "writes"

\* Slip: whatever the file holds becomes the backup.
CopyAnyway(a) ==
    /\ Moves(a, "copies", "archives") /\ work' = [work EXCEPT ![a].copy = soul]
    /\ UNCHANGED <<clock, timer, lock, stopping, files, history, past>>

Copy(a) ==
    /\ Moves(a, "copies", IF soul = 0 THEN AfterBackup(a) ELSE "archives")
    /\ work' = [work EXCEPT ![a].copy = soul]
    /\ UNCHANGED <<clock, timer, lock, stopping, files, history, past>>

Archive(a) ==
    /\ Moves(a, "archives", "saves") /\ archive' = archive \union {work[a].copy}
    /\ UNCHANGED <<clock, timer, lock, stopping, diary, logs, soul, bak, ident, from, work,
                   history, past>>

BackUp(a) ==
    /\ Moves(a, "saves", AfterBackup(a)) /\ bak' = work[a].copy
    /\ UNCHANGED <<clock, timer, lock, stopping, diary, logs, soul, archive, ident, from, work,
                   history, past>>

\* a new soul gets the next number
WriteSoul(a) ==
    /\ At(a, "writes")
    /\ IF work[a].draft = "same" THEN soul' = work[a].prev /\ UNCHANGED from
       ELSE soul' = Len(from) + 1 /\ from' = Append(from, work[a].ident)
    /\ IF a \in Steers
       THEN Ends(a) /\ past' = [past EXCEPT !.half = FALSE]
       ELSE Goto(a, "latches") /\ UNCHANGED <<work, past>>
    /\ UNCHANGED <<clock, timer, lock, stopping, diary, logs, bak, archive, ident, history>>

\* a request latches its day within the lock
Applied(a) ==
    /\ At(a, "latches") /\ Returns(a) /\ lock' = FALSE
    /\ timer' = IF a \in Manuals THEN [timer EXCEPT !.last = work[a].day] ELSE timer
    /\ done' = [done EXCEPT ![work[a].day] = @ + 1]
    /\ UNCHANGED <<clock, stopping, files, paid, past>>

Latch ==
    /\ At(0, "returns") /\ Ends(0)
    /\ timer' = [timer EXCEPT !.last = work[0].day, !.failures = 0]
    /\ UNCHANGED <<clock, lock, stopping, files, history, past>>

(***************************************************************************)
(* hard_steer, apply_hard, apply_fresh: back up, write the sources, distil *)
(* (or compile without a model, which never fails), write the soul.        *)
(***************************************************************************)
Steer(s) ==
    /\ MayStart(s) /\ Goto(s, "copies")
    /\ UNCHANGED <<clock, timer, lock, stopping, files, work, history, past>>

WriteSources(s) ==
    /\ s \in Steers /\ Moves(s, "sources", "writes") /\ ident' = ident + 1
    /\ work' = [work EXCEPT ![s].ident = ident + 1, ![s].draft = "good"]
    /\ UNCHANGED <<clock, timer, lock, stopping, diary, logs, soul, bak, archive, from, history,
                   past>>

(***************************************************************************)
(* Faults: soul.md is spoiled by hand, the process ends and starts again.  *)
(***************************************************************************)
Fault == past.faults < MaxFaults

Spoil ==
    /\ Fault /\ soul # 0 /\ soul' = 0
    /\ past' = [past EXCEPT !.spoiled = @ \union {soul}, !.faults = @ + 1]
    /\ UNCHANGED <<clock, timer, lock, stopping, diary, logs, bak, archive, ident, from, pc, work,
                   history>>

StopDreamer ==
    /\ Fault /\ ~stopping /\ stopping' = TRUE
    /\ UNCHANGED <<clock, timer, lock, files, pc, work, history, past>>

Restart ==
    /\ Fault /\ lock' = FALSE /\ stopping' = FALSE /\ timer' = NoTimer
    /\ pc' = [a \in Actors |-> IF a = 0 \/ At(a, "idle") THEN "idle" ELSE "done"]
    /\ work' = [a \in Actors |-> NoWork]
    /\ paid' = [d \in Days |-> 0] /\ done' = [d \in Days |-> 0]
    /\ past' = [past EXCEPT !.faults = @ + 1,
                            !.half = @ \/ \E s \in Steers : At(s, "writes")]
    /\ UNCHANGED <<clock, files>>

Next ==
    \/ Midnight \/ Window \/ AppendDiary \/ RetryIsDue
    \/ Tick \/ Latch \/ \E m \in Manuals : Ask(m)
    \/ \E a \in Dreamers : \/ Lock(a) \/ Read(a) \/ Pay(a) \/ CallFails(a) \/ WriteLog(a)
                           \/ Refuse(a) \/ Applied(a)
    \/ \E a \in Actors : Copy(a) \/ Archive(a) \/ BackUp(a) \/ WriteSoul(a)
    \/ \E s \in Steers : Steer(s) \/ WriteSources(s)
    \/ Spoil \/ StopDreamer \/ Restart

Spec == Init /\ [][Next]_vars

-----------------------------------------------------------------------------
TypeOK ==
    /\ day \in Days /\ {night, lock, stopping} \subseteq BOOLEAN
    /\ timer.last \in 0..MaxDays /\ timer.failures \in 0..3
    /\ logs \in [Days -> -1..MaxEntries] /\ diary \in [Days -> 0..MaxEntries]
    /\ {soul, bak} \subseteq 0..Len(from) /\ archive \subseteq 0..Len(from)
    /\ ident \in 0..Cardinality(Steers)
    /\ \A a \in Actors : work[a].day \in 0..MaxDays

\* "keeping a backup of the old one": a soul that was in force is in force still or has a
\* backup, unless somebody else spoiled the file.
NoSoulIsLost == \A s \in 2..Len(from) : s = soul \/ s \in archive \/ s \in past.spoiled

\* A soul that has been backed up is never followed by the seed: one fault leaves soul.md or
\* its backup good, and what a spoiled file holds is not backed up.
NeverPoisoned ==
    (archive # {} /\ past.faults < 2 /\ \A a \in Actors : ~At(a, "saves"))
        => soul # 0 \/ bak # 0

\* The soul in force was made from the sources that are on disk, once nobody is at work.
SteerStands ==
    (soul \notin {0, Seed} /\ past.spoiled = {} /\ ~past.half /\ \A a \in Actors : Idle(a)) => from[soul] = ident

\* "Retries bounded failures": however often the tick comes, a process pays for a day's dream
\* three times at most.
PaidPerNight == \A d \in Days : paid[d] <= 3

\* A daily log is of the whole day it is named for.
NightIsWhole == \A d \in Days : logs[d] # -1 => logs[d] = diary[d]

\* "records which day has already been compacted so a manual and scheduled dream cannot
\* double-apply it" (README.md).
AppliedOnce == \A d \in Days : done[d] <= 1
=============================================================================
