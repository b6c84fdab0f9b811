------------------------------- MODULE Presence -------------------------------
(***************************************************************************)
(* The presence heartbeat of rau/heartbeat/presence.py: how long the user  *)
(* has been away, what a turn is told about it, and the at most two        *)
(* sentences Rau says unasked during one silence.                          *)
(*                                                                         *)
(* note_user_reply() runs in the hub, the voice session or the host        *)
(* pipeline; begin_user_turn() and end_user_turn() in the brain, for the   *)
(* user's turns and for the ones that narrate a finished job; the nudge in *)
(* the scheduler's timer thread; the sentence in the control thread.  Only *)
(* _lock covers more than one statement, and append_heartbeat_event(),     *)
(* which reads the list and writes it back, does not take it.              *)
(***************************************************************************)
EXTENDS Integers, Sequences, SequencesExt, FiniteSets

CONSTANTS
    Replies,    \* turns of the user
    Weaves,     \* turns of weave_result()
    MaxTime,    \* bound: the clock
    MaxCrashes, \* bound: restarts
    First, Soft, Second, Hard, Retry, TurnMax, \* the seconds constants
    EventsCap,  \* HEARTBEAT_EVENTS_CAP
    Locales,    \* languages the user may switch between
    Sayings     \* sentences the model may say more than once

MaxNudges == 2 \* MAX_NUDGES_PER_SILENCE
Turns == Replies \cup Weaves
NeverSeen == 0 \* last_user_ts before the first contact

VARIABLES
    now,      \* time.time()
    p,        \* the presence record of state
    disk,     \* the presence file
    events,   \* heartbeat_events: [kind, line, ts]
    open,     \* the turn of _active_*: [gap, tier, at, told]; {} before one begins
    lock,     \* the turn inside end_user_turn(); {} when _lock is free
    pc,       \* where each turn stands
    told,     \* what each turn's prompt said: [tier, events]
    nudge,    \* the timer thread: [at, ...] with what maybe_nudge() read
    queue,    \* presence_speak commands
    room,     \* "quiet", or "working" while a job or another voice forbids a nudge
    locale,
    said,     \* nudges spoken, by the contact they followed
    left,     \* the contact before each reply
    crashes

turnVars == <<open, lock, pc, told, left>>
roomVars == <<room, locale>>
vars == <<now, p, disk, events, turnVars, nudge, queue, roomVars, said, crashes>>

Fresh == [user |-> NeverSeen, count |-> 0, last |-> 0, attempt |-> 0]
Resting == [at |-> "idle", user |-> 0, count |-> 0, locale |-> "none", line |-> 0,
            kind |-> "nudge", ts |-> 0, list |-> << >>]

Init ==
    /\ now = 1
    /\ p = Fresh
    /\ disk = [p |-> Fresh, events |-> << >>]
    /\ events = << >>
    /\ open = {}
    /\ lock = {}
    /\ pc = [t \in Turns |-> IF t \in Weaves THEN "replied" ELSE "new"]
    /\ told = [t \in Turns |-> {}]
    /\ nudge = Resting
    /\ queue = << >>
    /\ room = "quiet"
    /\ locale \in Locales
    /\ said = [c \in 0..MaxTime |-> 0]
    /\ left = [t \in Turns |-> 0]
    /\ crashes = 0

-----------------------------------------------------------------------------
(* The turns *)

TierOf(user) ==
    CASE user = NeverSeen -> "first"
      [] user # NeverSeen /\ now - user >= Hard -> "hard"
      [] user # NeverSeen /\ now - user \in Soft..(Hard - 1) -> "soft"
      [] OTHER -> "none"

Snapshot ==
    LET tier == TierOf(p.user)
    IN [user |-> p.user, tier |-> tier, at |-> now,
        told |-> IF tier = "none" THEN {} ELSE {e \in ToSet(events) : e.ts > p.user}]

BeginUserTurn ==
    IF open # {} /\ \A o \in open : now - o.at <= TurnMax THEN open ELSE {Snapshot}

Save(q, es) == disk' = [p |-> q, events |-> es]

\* The events that are none of the consumed, in their order.
Untold(es, consumed) ==
    LET kept[i \in 0..Len(es)] ==
            IF i = 0 THEN << >>
            ELSE IF es[i].ts \in {c.ts : c \in consumed} THEN kept[i - 1]
            ELSE Append(kept[i - 1], es[i])
    IN  kept[Len(es)]

\* note_user_reply() opens the turn before it overwrites the last contact.
Arrive(t) ==
    /\ pc[t] = "new"
    /\ lock = {}
    /\ pc' = [pc EXCEPT ![t] = "arrived"]
    /\ left' = [left EXCEPT ![t] = p.user]
    /\ open' = BeginUserTurn
    /\ UNCHANGED <<now, p, disk, events, lock, told, nudge, queue, roomVars, said, crashes>>

NoteUserReply(t) ==
    /\ pc[t] = "arrived"
    /\ pc' = [pc EXCEPT ![t] = "replied"]
    /\ p' = [Fresh EXCEPT !.user = now]
    /\ Save(p', events)
    /\ UNCHANGED <<now, events, open, lock, told, left, nudge, queue, roomVars, said, crashes>>

BrainBegins(t) ==
    /\ pc[t] = "replied"
    /\ lock = {}
    /\ pc' = [pc EXCEPT ![t] = "begun"]
    /\ open' = BeginUserTurn
    /\ UNCHANGED <<now, p, disk, events, lock, told, left, nudge, queue, roomVars, said, crashes>>

\* time_context_block() and between_sessions_block() of the prompt.
Prompt(t) ==
    /\ pc[t] = "begun"
    /\ pc' = [pc EXCEPT ![t] = "told"]
    /\ told' = [told EXCEPT ![t] =
          IF open = {} THEN {[tier |-> TierOf(p.user), events |-> {}]}
          ELSE {[tier |-> o.tier, events |-> o.told] : o \in open}]
    /\ UNCHANGED <<now, p, disk, events, open, lock, left, nudge, queue, roomVars, said, crashes>>

\* end_user_turn() takes the consumed events off the list it reads here ...
BrainEnds(t) ==
    /\ pc[t] \in {"begun", "told"}
    /\ lock = {}
    /\ open' = {}
    /\ LET consumed == UNION {o.told : o \in open}
       IN IF consumed = {}
          THEN /\ pc' = [pc EXCEPT ![t] = "done"]
               /\ UNCHANGED lock
          ELSE /\ pc' = [pc EXCEPT ![t] = "ending"]
               /\ lock' = {[turn |-> t, keep |-> Untold(events, consumed)]}
    /\ UNCHANGED <<now, p, disk, events, told, left, nudge, queue, roomVars, said, crashes>>

\* ... and writes it here.
Consume(t) ==
    /\ pc[t] = "ending"
    /\ \E l \in lock :
          /\ l.turn = t
          /\ events' = l.keep
          /\ Save(p, l.keep)
    /\ lock' = {}
    /\ pc' = [pc EXCEPT ![t] = "done"]
    /\ UNCHANGED <<now, p, open, told, left, nudge, queue, roomVars, said, crashes>>

-----------------------------------------------------------------------------
(* maybe_nudge() and the rest of the timer's tick *)

CanInitiate ==
    /\ room = "quiet"
    /\ p.count < MaxNudges
    /\ p.user # NeverSeen
    /\ now - p.user >= First
    /\ p.attempt = 0 \/ now - p.attempt >= Retry
    /\ p.count = 1 => now - (IF p.last = 0 THEN p.user ELSE p.last) >= Second

\* heartbeat_nudge_allowed() is one more reason for room # "quiet".
StartNudge ==
    /\ nudge.at = "idle"
    /\ CanInitiate
    /\ nudge' = [nudge EXCEPT !.at = "asked", !.user = p.user, !.count = p.count,
                              !.locale = locale]
    /\ p' = [p EXCEPT !.attempt = now]
    /\ Save(p', events)
    /\ UNCHANGED <<now, events, turnVars, queue, roomVars, said, crashes>>

NoLine ==
    /\ nudge.at = "asked"
    /\ nudge' = Resting
    /\ UNCHANGED <<now, p, disk, events, turnVars, queue, roomVars, said, crashes>>

\* _generate_nudge() answers: the situation is read again.
StillWanted ==
    p.user = nudge.user /\ p.count = nudge.count /\ locale = nudge.locale /\ room = "quiet"

Answer(line) ==
    /\ nudge.at = "asked"
    /\ nudge' = IF StillWanted THEN [nudge EXCEPT !.at = "answered", !.line = line] ELSE Resting
    /\ UNCHANGED <<now, p, disk, events, turnVars, queue, roomVars, said, crashes>>

\* Slip: the nudge is not charged to the silence.
NotCharged ==
    /\ nudge.at = "answered"
    /\ p' = [p EXCEPT !.last = now]
    /\ nudge' = [nudge EXCEPT !.at = "append", !.kind = "nudge", !.ts = now]
    /\ UNCHANGED <<now, disk, events, turnVars, queue, roomVars, said, crashes>>

Charge ==
    /\ nudge.at = "answered"
    /\ p' = [p EXCEPT !.count = nudge.count + 1, !.last = now]
    /\ nudge' = [nudge EXCEPT !.at = "append", !.kind = "nudge", !.ts = now]
    /\ UNCHANGED <<now, disk, events, turnVars, queue, roomVars, said, crashes>>

\* _heartbeat_tick() of a running job.
Progress ==
    /\ nudge.at = "idle"
    /\ room = "working"
    /\ p.user # NeverSeen /\ now - p.user >= Soft
    /\ nudge' = [nudge EXCEPT !.at = "append", !.kind = "task_progress", !.line = 0, !.ts = now]
    /\ UNCHANGED <<now, p, disk, events, turnVars, queue, roomVars, said, crashes>>

\* append_heartbeat_event() reads the list ...
ReadEvents ==
    /\ nudge.at = "append"
    /\ nudge' = [nudge EXCEPT !.at = "write", !.list = events]
    /\ UNCHANGED <<now, p, disk, events, turnVars, queue, roomVars, said, crashes>>

Afterwards == IF nudge.kind = "nudge" THEN [nudge EXCEPT !.at = "push", !.list = << >>] ELSE Resting

\* ... and writes it back with one more, unless it would repeat the last one.
WriteEvents ==
    /\ nudge.at = "write"
    /\ LET last == IF nudge.list = << >> THEN {} ELSE {Last(nudge.list)}
           all == Append(nudge.list, [kind |-> nudge.kind, line |-> nudge.line, ts |-> nudge.ts])
           repeats == \E e \in last : e.kind = nudge.kind /\ e.line = nudge.line
       IN /\ events' = IF repeats THEN events
                       ELSE IF Len(all) > EventsCap THEN Tail(all) ELSE all
          /\ IF repeats THEN UNCHANGED disk ELSE Save(p, events')
    /\ nudge' = Afterwards
    /\ UNCHANGED <<now, p, turnVars, queue, roomVars, said, crashes>>

PushSpeech ==
    /\ nudge.at = "push"
    /\ queue' = Append(queue, [user |-> nudge.user, locale |-> nudge.locale])
    /\ nudge' = Resting
    /\ UNCHANGED <<now, p, disk, events, turnVars, roomVars, said, crashes>>

PresenceSpeechIsCurrent(c) == c.user = p.user /\ c.locale = locale /\ room = "quiet"

Speak ==
    /\ queue # << >>
    /\ queue' = Tail(queue)
    /\ said' = IF PresenceSpeechIsCurrent(Head(queue))
               THEN [said EXCEPT ![p.user] = @ + 1] ELSE said
    /\ UNCHANGED <<now, p, disk, events, turnVars, nudge, roomVars, crashes>>

-----------------------------------------------------------------------------
(* The clock, the room and the process *)

Tick ==
    /\ now < MaxTime
    /\ now' = now + 1
    /\ UNCHANGED <<p, disk, events, turnVars, nudge, queue, roomVars, said, crashes>>

Surroundings ==
    /\ room' \in {"quiet", "working"}
    /\ locale' \in Locales
    /\ <<room', locale'>> # <<room, locale>>
    /\ UNCHANGED <<now, p, disk, events, turnVars, nudge, queue, said, crashes>>

\* The process dies; load_presence() of the next one.
Restart ==
    /\ crashes < MaxCrashes
    /\ crashes' = crashes + 1
    /\ p' = disk.p
    /\ events' = disk.events
    /\ open' = {}
    /\ lock' = {}
    /\ pc' = [t \in Turns |-> IF pc[t] = "new" \/ (t \in Weaves /\ pc[t] = "replied")
                              THEN pc[t] ELSE "done"]
    /\ nudge' = Resting
    /\ queue' = << >>
    /\ UNCHANGED <<now, disk, told, left, roomVars, said>>

Next ==
    \/ \E t \in Turns : \/ Arrive(t) \/ NoteUserReply(t) \/ BrainBegins(t)
                        \/ Prompt(t) \/ BrainEnds(t) \/ Consume(t)
    \/ StartNudge \/ NoLine \/ Charge \/ ReadEvents \/ WriteEvents \/ PushSpeech
    \/ \E line \in {now} \cup Sayings : Answer(line)
    \/ Progress
    \/ Speak \/ Tick \/ Surroundings \/ Restart

Spec == Init /\ [][Next]_vars

-----------------------------------------------------------------------------
(* Properties *)

TypeOK ==
    /\ now \in 1..MaxTime
    /\ p.user \in 0..MaxTime /\ p.count \in 0..MaxNudges
    /\ Len(events) <= EventsCap
    /\ Cardinality(open) <= 1 /\ Cardinality(lock) <= 1
    /\ nudge.at \in {"idle", "asked", "answered", "append", "write", "push"}

\* However the user's replies, the language, a job and a restart fall between
\* the model's answer and the loudspeaker, one silence hears two unasked
\* sentences at most (MAX_NUDGES_PER_SILENCE).
TwoPerSilence == \A c \in DOMAIN said : said[c] <= MaxNudges

\* What happened while the user was away is told to the user: no turn that
\* narrates a job is told of it in their stead, and takes it off the list.
AwayIsToldToTheUser == \A t \in Weaves : \A x \in told[t] : x.events = {}

\* A user who comes back after a stretch is greeted as one who was away.
ReturnIsNoticed ==
    \A t \in Replies : \A x \in told[t] :
        left[t] # NeverSeen /\ p.user - left[t] >= Hard /\ pc[t] = "told" => x.tier = "hard"

\* An event is told in one turn only.
ToldOnce ==
    \A t, u \in Turns : t # u =>
        \A x \in told[t], y \in told[u] : x.events \cap y.events = {}
=============================================================================
