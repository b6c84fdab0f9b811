---------------------------- MODULE VoiceSession ----------------------------
(***************************************************************************)
(* One live voice conversation: rau/voice/session.py, the socket loop of   *)
(* rau/hub/server.py that drives it, and the history and diary of the turn *)
(* in rau/face/brain.py.                                                   *)
(*                                                                         *)
(* Coroutines share one event loop, and give it up only at an await that   *)
(* may yield.  A coroutine that is Pressed has not: it goes on before      *)
(* anybody else.  The two threads of a turn (worker and producer)          *)
(* interleave with the coroutines and reach the session only               *)
(* through callbacks that the loop runs in the order they were scheduled;  *)
(* a stretch without a yield meets what they share in one step at most, so *)
(* they too are taken to wait for its end.                                 *)
(***************************************************************************)
EXTENDS Integers, Sequences, FiniteSets

CONSTANTS
    MaxUtterances, \* bound: utterances the user begins
    MaxTurns,      \* bound: turns
    MaxTokens,     \* bound: tokens of one reply
    PipeCap,       \* TOKEN_PIPE_MAXSIZE
    Scripts        \* bound: what a user may do, and how often he may speak and be answered

ASSUME VoiceBounds ==
    /\ {MaxUtterances, MaxTurns, MaxTokens, PipeCap} \subseteq Nat \ {0}
    /\ \A s \in Scripts : s.utterances \in 0..MaxUtterances /\ s.turns \in 0..MaxTurns

Utterances == 1..MaxUtterances
Turns == 1..MaxTurns
Recv == <<"recv", 0>>
Stt(u) == <<"stt", u>>
Dog(u) == <<"dog", u>>
Speakers == {Recv} \union {Stt(u) : u \in Utterances}
Coros == Speakers \union {Dog(u) : u \in Utterances}
Nobody == <<"nobody", 0>>

VARIABLES
    script,    \* the one of Scripts the user follows; never changes
    pc,        \* where each coroutine stands
    goal,      \* the command the socket loop carries out
    victim,    \* the turn a coroutine is cancelling, or handing over from
    phase,     \* VoiceSession.phase
    closed,    \* VoiceSession.closed
    mic,       \* the utterance of self._mic; 0: None
    micShut,   \* _MicStream.closed of self._mic
    sttTask,   \* the utterance of self._stt_task; 0: None
    dogTask,   \* the utterance of self._stt_watchdog; 0: None
    valid,     \* is the epoch an utterance was given still the current one?
    hit,       \* coroutines with a cancel() they have not seen yet
    commitLock,\* holder of _stt_commit_lock
    turnLock,  \* holder of _turn_lock
    heardAll,  \* history: utterances begun
    active,    \* self._active_turn; 0: None
    turns,     \* _turn_seq
    bornAt,    \* history: utterances begun when each turn was created
    cancel,    \* turn.cancel of each turn
    told,      \* turn.interrupted_sent
    work,      \* place of the turn's worker thread
    prod,      \* place of its producer thread
    reply,     \* turn.reply is a StreamingReply
    tokens,    \* tokens in its pipe
    spent,     \* tokens produced
    eof,       \* the pipe's sentinel was put
    foreground,\* the voice turn that is _active_foreground_turn; 0: none of them
    slot,      \* the turn's assistant message in _history
    deferred,  \* reply.diary_deferred
    diary,     \* history: what was written of the reply to the diary
    ready,     \* callbacks scheduled on the loop, first come first run
    over       \* history: a turn was heard over an utterance begun after it

loopVars == <<pc, goal, victim, hit>>
micVars == <<mic, micShut, sttTask, dogTask, valid, commitLock, heardAll>>
turnVars == <<active, turns, bornAt, turnLock>>
threadVars == <<work, prod, tokens, spent, eof>>
brainVars == <<foreground, slot, deferred, diary, reply>>
outVars == <<ready, over>>
vars == <<script, loopVars, micVars, turnVars, threadVars, brainVars, outVars,
          phase, closed, cancel, told>>

Free(lock) == lock = Nobody
\* c has come to where it stands without a yield: it goes on before anybody else
Pressed(c) ==
    \/ pc[c] \in {"turn", "last", "join"}
    \/ pc[c] \in {"stopstt", "final", "empty"} /\ Free(commitLock)
    \/ pc[c] = "turnlock" /\ Free(turnLock)
Yielded == \A c \in Speakers : ~Pressed(c)
\* c may take a step, and stands at p
At(c, p) == pc[c] = p /\ (Yielded \/ Pressed(c))
Goto(c, p) == pc' = [pc EXCEPT ![c] = p]
Ended(c) == pc[c] \in {"unborn", "done"}

Speaking == phase \in {"thinking", "speaking"}
IsCurrent(t) == ~closed /\ active = t

Init ==
    /\ script \in Scripts
    /\ pc = [c \in Coros |-> IF c = Recv THEN "idle" ELSE "unborn"]
    /\ goal = "none" /\ victim = [c \in Speakers |-> 0] /\ hit = {}
    /\ phase = "idle" /\ closed = FALSE
    /\ mic = 0 /\ micShut = FALSE /\ sttTask = 0 /\ dogTask = 0 /\ heardAll = 0
    /\ valid = [u \in Utterances |-> FALSE]
    /\ commitLock = Nobody /\ turnLock = Nobody
    /\ active = 0 /\ turns = 0
    /\ bornAt = [t \in Turns |-> 0]
    /\ cancel = [t \in Turns |-> FALSE] /\ told = [t \in Turns |-> FALSE]
    /\ work = [t \in Turns |-> "new"] /\ prod = [t \in Turns |-> "new"]
    /\ tokens = [t \in Turns |-> 0] /\ spent = [t \in Turns |-> 0]
    /\ eof = [t \in Turns |-> FALSE]
    /\ foreground = 0
    /\ slot = [t \in Turns |-> "none"] /\ deferred = [t \in Turns |-> FALSE]
    /\ reply = [t \in Turns |-> FALSE] /\ diary = [t \in Turns |-> <<>>]
    /\ ready = <<>> /\ over = FALSE

(***************************************************************************)
(* The socket loop takes one command at a time.                            *)
(***************************************************************************)
Interrupt(c, t) ==
    /\ cancel' = [cancel EXCEPT ![t] = TRUE]
    /\ victim' = [victim EXCEPT ![c] = t]
    /\ Goto(c, "pipe")

Command(what) ==
    /\ what \in script.commands
    /\ At(Recv, "idle") /\ ~closed
    /\ goal' = what
    /\ UNCHANGED <<script, micVars, turnVars, threadVars, brainVars, outVars, phase, closed, told>>

SpeechStart ==
    /\ heardAll < script.utterances
    /\ Command("speech") /\ Goto(Recv, "stopstt")
    /\ UNCHANGED <<script, victim, hit, cancel>>

Stop ==
    /\ Command("stop") /\ Goto(Recv, "stopstt")
    /\ UNCHANGED <<script, victim, hit, cancel>>

\* feed() refuses a frame and closes the microphone; the socket loop drops the utterance
FeedFails ==
    /\ "drop" \in script.commands
    /\ mic # 0 /\ ~micShut
    /\ At(Recv, "idle") /\ ~closed
    /\ goal' = "drop" /\ micShut' = TRUE
    /\ Goto(Recv, "stopstt")
    /\ UNCHANGED <<script, victim, hit, mic, sttTask, dogTask, valid, commitLock, heardAll, turnVars,
                   threadVars, brainVars, outVars, phase, closed, cancel, told>>

\* _TokenPipe.close makes room for the sentinel by dropping backlog
\* Slip: the sentinel is put beside a full backlog.
SentinelForced(t) == eof' = [eof EXCEPT ![t] = TRUE] /\ UNCHANGED tokens

Sentinel(t) ==
    /\ eof' = [eof EXCEPT ![t] = TRUE]
    /\ tokens' = [tokens EXCEPT ![t] = IF @ = PipeCap THEN @ - 1 ELSE @]

\* close() ends the turn without telling anybody, and kills its pipe
Close ==
    /\ Command("close")
    /\ IF active = 0 THEN Goto(Recv, "stopstt") /\ UNCHANGED <<cancel, victim>>
       ELSE Interrupt(Recv, active)
    /\ UNCHANGED hit

\* a text is sent on only while the script leaves a turn for it
Room ==
    LET onTheirWay == {u \in Utterances : pc[Stt(u)] \notin
                        {"unborn", "stream", "close", "closing", "empty", "done"}}
    IN  turns + Cardinality(onTheirWay) + (IF goal = "text" THEN 1 ELSE 0) < script.turns

Typed ==
    /\ Room
    /\ Command("text") /\ Goto(Recv, "turnlock")
    /\ UNCHANGED <<script, victim, hit, cancel>>

(***************************************************************************)
(* _cancel_turn, called by the socket loop or by the tail of an utterance. *)
(* The flag is set at once; each of the following steps awaits.            *)
(***************************************************************************)
Barge ==
    /\ active # 0 /\ phase = "speaking" /\ ~cancel[active]
    /\ Command("barge") /\ Interrupt(Recv, active)
    /\ UNCHANGED hit

\* where _cancel_turn returns to: the rest of begin_turn, or of the command
AfterCancel(c) == IF c = Recv /\ goal # "text" THEN "last" ELSE "join"

ClosePipe(c) ==
    /\ At(c, "pipe")
    /\ Goto(c, IF c = Recv /\ goal = "close" THEN "stopstt" ELSE "notice")
    /\ Sentinel(victim[c])
    /\ UNCHANGED <<script, goal, victim, hit, micVars, turnVars, work, prod, spent,
                   brainVars, outVars, phase, closed, cancel, told>>

\* `cancelled` and say_end(interrupted) are sent, then the reply's history is looked at
Notice(c) ==
    /\ At(c, "notice") /\ Goto(c, "history")
    /\ told' = [told EXCEPT ![victim[c]] = TRUE]
    /\ UNCHANGED <<script, goal, victim, hit, micVars, turnVars, threadVars, brainVars, outVars, phase,
                   closed, cancel>>

(***************************************************************************)
(* finish_interrupted_turn of a committed reply: under the history lock the *)
(* message found in its slot is cut to what was heard; whoever cut it      *)
(* claims the diary.                                                       *)
(***************************************************************************)
Cuts(t) == slot[t] = "full"
Truncate(t) == slot' = [slot EXCEPT ![t] = IF @ = "full" THEN "heard" ELSE @]
\* Slip: the deferred entry is written without being claimed.
WriteDiary(t, text) ==
    /\ deferred' = [deferred EXCEPT ![t] = FALSE]
    /\ diary' = [diary EXCEPT ![t] = Append(@, text)]

ClaimDiary(t, text) ==
    /\ deferred' = [deferred EXCEPT ![t] = FALSE]
    /\ diary' = [diary EXCEPT ![t] = IF deferred[t] THEN Append(@, text) ELSE @]

CutHistory(c) ==
    /\ At(c, "history")
    /\ LET t == victim[c] IN
        IF reply[t]
        THEN /\ Truncate(t)
             /\ IF Cuts(t) THEN Goto(c, "diary") ELSE Goto(c, AfterCancel(c))
        ELSE Goto(c, AfterCancel(c)) /\ UNCHANGED slot
    /\ UNCHANGED <<script, goal, victim, hit, micVars, turnVars, threadVars, foreground, deferred,
                   diary, reply, outVars, phase, closed, cancel, told>>

CutDiary(c) ==
    /\ At(c, "diary") /\ Goto(c, AfterCancel(c))
    /\ ClaimDiary(victim[c], "heard")
    /\ UNCHANGED <<script, goal, victim, hit, micVars, turnVars, threadVars, foreground, slot, reply,
                   outVars, phase, closed, cancel, told>>

(***************************************************************************)
(* stop_stt, then the rest of speech_start, stop, close or of a dropped    *)
(* utterance.                                                              *)
(***************************************************************************)
\* _cancel_stt_watchdog: a cancel of a watchdog that awaits its task goes on to the task
Unwatch == dogTask' = 0
HitDog ==
    IF dogTask = 0 \/ Ended(Dog(dogTask)) THEN {}
    ELSE {Dog(dogTask)} \union (IF pc[Dog(dogTask)] = "wait" THEN {Stt(dogTask)} ELSE {})

\* Slip: the epoch moves on without the lock a tail commits under.
StopSttUnlocked ==
    /\ At(Recv, "stopstt")
    /\ valid' = [u \in Utterances |-> FALSE]
    /\ Unwatch
    /\ sttTask' = 0 /\ mic' = 0 /\ micShut' = FALSE
    /\ IF sttTask # 0 /\ ~Ended(Stt(sttTask))
       THEN /\ hit' = hit \union HitDog \union {Stt(sttTask)}
            /\ victim' = [victim EXCEPT ![Recv] = sttTask]
            /\ Goto(Recv, "awaitstt")
       ELSE /\ hit' = hit \union HitDog
            /\ Goto(Recv, "turn") /\ UNCHANGED victim
    /\ UNCHANGED <<script, goal, commitLock, heardAll, turnVars, threadVars, brainVars, outVars,
                   phase, closed, cancel, told>>

StopStt ==
    /\ At(Recv, "stopstt") /\ Free(commitLock)
    /\ valid' = [u \in Utterances |-> FALSE]
    /\ Unwatch
    /\ sttTask' = 0 /\ mic' = 0 /\ micShut' = FALSE
    /\ IF sttTask # 0 /\ ~Ended(Stt(sttTask))
       THEN /\ hit' = hit \union HitDog \union {Stt(sttTask)}
            /\ victim' = [victim EXCEPT ![Recv] = sttTask]
            /\ Goto(Recv, "awaitstt")
       ELSE /\ hit' = hit \union HitDog
            /\ Goto(Recv, "turn") /\ UNCHANGED victim
    /\ UNCHANGED <<script, goal, commitLock, heardAll, turnVars, threadVars, brainVars, outVars,
                   phase, closed, cancel, told>>

AwaitStt ==
    /\ At(Recv, "awaitstt") /\ Ended(Stt(victim[Recv]))
    /\ Goto(Recv, "turn")
    /\ UNCHANGED <<script, goal, victim, hit, micVars, turnVars, threadVars, brainVars, outVars, phase,
                   closed, cancel, told>>

\* speech_start and stop interrupt the turn they find, but only by the phase
Unheard == active # 0 /\ Speaking /\ ~cancel[active]
StopTurn ==
    /\ At(Recv, "turn")
    /\ IF goal \in {"speech", "stop"} /\ Unheard
       THEN Interrupt(Recv, active)
       ELSE Goto(Recv, "last") /\ UNCHANGED <<cancel, victim>>
    /\ UNCHANGED <<script, goal, hit, micVars, turnVars, threadVars, brainVars, outVars, phase, closed,
                   told>>

\* (names of what was at hand are forgotten with the command)
Rest(c) ==
    /\ victim' = [victim EXCEPT ![c] = 0]
    /\ goal' = IF c = Recv THEN "none" ELSE goal

OpenMic ==
    /\ At(Recv, "last") /\ goal = "speech" /\ Rest(Recv)
    /\ LET u == heardAll + 1 IN
        /\ heardAll' = u /\ mic' = u /\ sttTask' = u
        /\ valid' = [valid EXCEPT ![u] = TRUE]
        /\ pc' = [pc EXCEPT ![Recv] = "idle", ![Stt(u)] = "stream"]
    /\ phase' = "listening"
    /\ UNCHANGED <<script, hit, micShut, dogTask, commitLock, turnVars, threadVars,
                   brainVars, outVars, closed, cancel, told>>

CommandDone ==
    /\ At(Recv, "last") /\ goal # "speech" /\ Goto(Recv, "idle") /\ Rest(Recv)
    /\ phase' = IF goal \in {"stop", "drop"} THEN "idle" ELSE phase
    /\ closed' = (closed \/ goal = "close")
    /\ UNCHANGED <<script, hit, micVars, turnVars, threadVars, brainVars, outVars, cancel,
                   told>>

\* speech_end: the stream is shut; a watchdog waits for the task, if it is still known
SpeechEnd ==
    /\ "end" \in script.commands
    /\ At(Recv, "idle") /\ ~closed /\ mic # 0
    /\ mic' = 0 /\ micShut' = FALSE
    /\ IF micShut \/ sttTask = 0 THEN UNCHANGED <<dogTask, hit, pc>>
       ELSE /\ dogTask' = sttTask
            /\ hit' = hit \union HitDog
            /\ pc' = [pc EXCEPT ![Dog(sttTask)] = "watch"]
    /\ UNCHANGED <<script, goal, victim, sttTask, valid, commitLock, heardAll, turnVars, threadVars,
                   brainVars, outVars, phase, closed, cancel, told>>

(***************************************************************************)
(* begin_turn, called with a typed text or by the tail of an utterance.    *)
(***************************************************************************)
\* (the socket loop alone closes, and not while it or a tail is here)
BeginTurn(c) ==
    /\ At(c, "turnlock") /\ Free(turnLock) /\ ~closed
    /\ turnLock' = c
    /\ IF Unheard THEN Interrupt(c, active)
       ELSE Goto(c, "join") /\ UNCHANGED <<cancel, victim>>
    /\ UNCHANGED <<script, goal, hit, micVars, active, turns, bornAt, threadVars, brainVars, outVars,
                   phase, closed, told>>

\* the previous worker is waited for, but not for long
AwaitsPrevious == active # 0 /\ work[active] \notin {"new", "done"}
JoinPrevious(c) ==
    /\ At(c, "join") /\ AwaitsPrevious /\ Goto(c, "create")
    /\ UNCHANGED <<script, goal, victim, hit, micVars, turnVars, threadVars, brainVars, outVars, phase,
                   closed, cancel, told>>

\* the new turn is published and shown; its thread starts after the await
CreateTurn(c) ==
    /\ At(c, "create") \/ (At(c, "join") /\ ~AwaitsPrevious)
    /\ Goto(c, "start")
    /\ turns' = turns + 1 /\ active' = turns + 1
    /\ bornAt' = [bornAt EXCEPT ![turns + 1] = heardAll]
    /\ phase' = IF closed THEN phase ELSE "thinking"
    /\ UNCHANGED <<script, goal, victim, hit, micVars, turnLock, threadVars, brainVars, outVars, closed,
                   cancel, told>>

Release(lock, c) == IF lock = c THEN Nobody ELSE lock
LeaveTurn(c) ==
    /\ Goto(c, IF c = Recv THEN "idle" ELSE "done") /\ Rest(c)
    /\ turnLock' = Release(turnLock, c) /\ commitLock' = Release(commitLock, c)
    /\ UNCHANGED <<script, hit, mic, micShut, sttTask, dogTask, valid, heardAll, active, turns, bornAt,
                   tokens, spent, eof, brainVars, outVars, phase, closed, cancel, told>>

\* the threads start and the locks are released
StartTurn(c) ==
    /\ At(c, "start") /\ LeaveTurn(c)
    /\ work' = [work EXCEPT ![active] = "speak"]
    /\ prod' = [prod EXCEPT ![active] = "reserve"]

(***************************************************************************)
(* _run_stt: the transcription of one utterance, up to its tail.           *)
(***************************************************************************)
\* the provider's stream ends, fails, or is cancelled, and the provider is closed
SttEnds(u) ==
    /\ At(Stt(u), "stream")
    /\ Goto(Stt(u), IF Stt(u) \in hit THEN "closing" ELSE "close")
    /\ hit' = hit \ {Stt(u)}
    /\ UNCHANGED <<script, goal, victim, micVars, turnVars, threadVars, brainVars, outVars, phase,
                   closed, cancel, told>>

\* in the hyper profile an endpoint shuts the microphone from this side
Endpoint(u) ==
    /\ At(Stt(u), "stream") /\ Stt(u) \notin hit /\ Goto(Stt(u), "close")
    /\ IF mic = u THEN mic' = 0 /\ micShut' = FALSE ELSE UNCHANGED <<mic, micShut>>
    /\ UNCHANGED <<script, goal, victim, hit, sttTask, dogTask, valid, commitLock, heardAll, turnVars,
                   threadVars, brainVars, outVars, phase, closed, cancel, told>>

\* the finally of _run_stt: the task forgets itself and its watchdog, unless somebody did
SttSettles(u) ==
    /\ pc[Stt(u)] \in {"close", "closing"} /\ Yielded /\ Stt(u) \notin hit
    /\ IF sttTask = u
       THEN sttTask' = 0 /\ Unwatch /\ hit' = (hit \union HitDog) \ {Stt(u)}
       ELSE UNCHANGED <<hit, sttTask, dogTask>>
    /\ IF pc[Stt(u)] = "closing" \/ closed THEN Goto(Stt(u), "done")
       ELSE \E tail \in {"empty"} \union (IF Room THEN {"final"} ELSE {}) : Goto(Stt(u), tail)
    /\ UNCHANGED <<script, goal, victim, mic, micShut, valid, commitLock, heardAll, turnVars, threadVars,
                   brainVars, outVars, phase, closed, cancel, told>>

\* a cancel that lands while the provider is being closed skips the rest of the finally
SttDropped(u) ==
    /\ pc[Stt(u)] \in {"close", "closing"} /\ Stt(u) \in hit /\ Yielded
    /\ Goto(Stt(u), "done") /\ hit' = hit \ {Stt(u)}
    /\ UNCHANGED <<script, goal, victim, micVars, turnVars, threadVars, brainVars, outVars, phase,
                   closed, cancel, told>>

\* the tail of an utterance with words: checked before the words are sent and after
SttFinal(u) ==
    /\ At(Stt(u), "final") /\ Free(commitLock)
    /\ IF valid[u] /\ ~closed
       THEN Goto(Stt(u), "begin") /\ commitLock' = Stt(u)
       ELSE Goto(Stt(u), "done") /\ UNCHANGED commitLock
    /\ UNCHANGED <<script, goal, victim, hit, mic, micShut, sttTask, dogTask, valid, heardAll, turnVars,
                   threadVars, brainVars, outVars, phase, closed, cancel, told>>

SttBegins(u) ==
    /\ At(Stt(u), "begin")
    /\ IF valid[u] /\ ~closed
       THEN Goto(Stt(u), "turnlock") /\ UNCHANGED commitLock
       ELSE Goto(Stt(u), "done") /\ commitLock' = Nobody
    /\ UNCHANGED <<script, goal, victim, hit, mic, micShut, sttTask, dogTask, valid, heardAll, turnVars,
                   threadVars, brainVars, outVars, phase, closed, cancel, told>>

\* the tail of an utterance without words
SttEmpty(u) ==
    /\ At(Stt(u), "empty") /\ Free(commitLock) /\ Goto(Stt(u), "done")
    /\ phase' = IF valid[u] /\ ~closed /\ phase = "listening" THEN "idle" ELSE phase
    /\ UNCHANGED <<script, goal, victim, hit, micVars, turnVars, threadVars, brainVars, outVars, closed,
                   cancel, told>>

(***************************************************************************)
(* The watchdog of a transcription (_watch_stt_finalization).              *)
(***************************************************************************)
Forget(u) == dogTask' = IF dogTask = u THEN 0 ELSE dogTask
DogRests ==
    UNCHANGED <<script, goal, victim, mic, micShut, valid, commitLock, heardAll, turnVars, threadVars,
                brainVars, outVars, closed, cancel, told>>

\* the task ended in time, or the watchdog was called off where it can be
DogLeaves(u) ==
    /\ \/ At(Dog(u), "watch") /\ (Ended(Stt(u)) \/ Dog(u) \in hit)
       \/ At(Dog(u), "tell") /\ Dog(u) \in hit
    /\ Goto(Dog(u), "done") /\ hit' = hit \ {Dog(u)}
    /\ Forget(u)
    /\ DogRests /\ UNCHANGED <<sttTask, phase>>

DogTimesOut(u) ==
    /\ At(Dog(u), "watch") /\ ~Ended(Stt(u)) /\ Dog(u) \notin hit
    /\ IF sttTask = u
       THEN hit' = hit \union {Stt(u)} /\ Goto(Dog(u), "wait") /\ UNCHANGED dogTask
       ELSE Goto(Dog(u), "done") /\ Forget(u) /\ UNCHANGED hit
    /\ DogRests /\ UNCHANGED <<sttTask, phase>>

\* it waits for the cancelled task, swallows any cancel of its own, and forgets the task
DogWaited(u) ==
    /\ At(Dog(u), "wait") /\ Ended(Stt(u))
    /\ sttTask' = 0 /\ hit' = hit \ {Dog(u)}
    /\ Goto(Dog(u), "tell")
    /\ DogRests /\ UNCHANGED <<dogTask, phase>>

DogSettles(u) ==
    /\ At(Dog(u), "tell") /\ Dog(u) \notin hit
    /\ phase' = IF closed THEN phase ELSE "idle"
    /\ Goto(Dog(u), "done") /\ Forget(u)
    /\ DogRests /\ UNCHANGED <<hit, sttTask>>

(***************************************************************************)
(* The producer thread of a turn: chat_streaming and what follows it.      *)
(***************************************************************************)
ThreadRests == UNCHANGED <<script, loopVars, micVars, turnVars, phase, closed, told, over>>
ProducerRests == ThreadRests /\ UNCHANGED <<work, ready>>
Produces(t, from, to) == Yielded /\ prod[t] = from /\ prod' = [prod EXCEPT ![t] = to]

\* the newest turn is the foreground: it stops the one before it, its speech included
Claim(t) ==
    /\ foreground' = t
    /\ cancel' = IF foreground = 0 THEN cancel ELSE [cancel EXCEPT ![foreground] = TRUE]
Leaves(t) == foreground' = IF foreground = t THEN 0 ELSE foreground

Reserve(t) ==
    /\ Produces(t, "reserve", "generate") /\ Claim(t)
    /\ slot' = [slot EXCEPT ![t] = "pending"]
    /\ ProducerRests /\ UNCHANGED <<tokens, spent, eof, deferred, diary, reply>>

\* put() blocks while the pipe is full, and gives up once the turn is cancelled
Token(t) ==
    /\ Produces(t, "generate", "generate") /\ ~cancel[t] /\ spent[t] < MaxTokens
    /\ tokens[t] < PipeCap
    /\ tokens' = [tokens EXCEPT ![t] = @ + 1] /\ spent' = [spent EXCEPT ![t] = @ + 1]
    /\ ProducerRests /\ UNCHANGED <<eof, cancel, brainVars>>

\* the reply is complete: its slot holds all of it, whatever was cancelled meanwhile
Complete(t) ==
    /\ Produces(t, "generate", "return") /\ Leaves(t)
    /\ slot' = [slot EXCEPT ![t] = "full"]
    /\ deferred' = [deferred EXCEPT ![t] = TRUE]
    /\ ProducerRests /\ UNCHANGED <<tokens, spent, eof, diary, reply, cancel>>

\* Cancelled is raised, and the slot and the diary get what was heard
Cancelled(t) ==
    /\ Produces(t, "generate", "close") /\ cancel[t] /\ Leaves(t)
    /\ slot' = [slot EXCEPT ![t] = "heard"] /\ diary' = [diary EXCEPT ![t] = Append(@, "heard")]
    /\ ProducerRests /\ UNCHANGED <<tokens, spent, eof, deferred, reply, cancel>>

\* the model fails: an uncancelled turn keeps what it had generated
ModelFails(t) ==
    /\ Produces(t, "generate", "close") /\ ~cancel[t] /\ Leaves(t)
    /\ slot' = [slot EXCEPT ![t] = "failed"]
    /\ ProducerRests /\ UNCHANGED <<tokens, spent, eof, deferred, diary, reply, cancel>>

\* the turn thread can see the reply only now
Return(t) ==
    /\ Produces(t, "return", "finally") /\ reply' = [reply EXCEPT ![t] = TRUE]
    /\ ProducerRests /\ UNCHANGED <<tokens, spent, eof, foreground, slot, deferred, diary, cancel>>

\* Slip: only the flag set before the reply is looked at.
NoLateCut(t) ==
    /\ Produces(t, "finally", "close")
    /\ ProducerRests /\ UNCHANGED <<tokens, spent, eof, brainVars, cancel>>

\* a cancel that landed before the reply could be seen is made good here
LateCut(t) ==
    /\ Yielded /\ prod[t] = "finally"
    /\ prod' = [prod EXCEPT ![t] = IF cancel[t] /\ Cuts(t) THEN "latediary" ELSE "close"]
    /\ IF cancel[t] THEN Truncate(t) ELSE UNCHANGED slot
    /\ ProducerRests /\ UNCHANGED <<tokens, spent, eof, foreground, deferred, diary, reply, cancel>>

LateDiary(t) ==
    /\ Produces(t, "latediary", "close") /\ ClaimDiary(t, "heard")
    /\ ProducerRests /\ UNCHANGED <<tokens, spent, eof, foreground, slot, reply, cancel>>

EndOfPipe(t) ==
    /\ Produces(t, "close", "done") /\ Sentinel(t)
    /\ ProducerRests /\ UNCHANGED <<spent, brainVars, cancel>>

(***************************************************************************)
(* The worker thread of a turn (_turn_body).                               *)
(***************************************************************************)
Works(t, from, to) == Yielded /\ work[t] = from /\ work' = [work EXCEPT ![t] = to]
Schedule(callbacks) == ready' = ready \o callbacks
WorkerRests ==
    ThreadRests /\ UNCHANGED <<prod, spent, eof, foreground, slot, reply, cancel>>

\* one chunk: while the turn may speak, its phase and audio are scheduled; once speech failed,
\* or when it is not the turn's any more, the pipe is drained in silence
Speak(t) ==
    /\ Works(t, "speak", "speak") /\ tokens[t] > 0
    /\ tokens' = [tokens EXCEPT ![t] = @ - 1]
    /\ \/ ~cancel[t] /\ IsCurrent(t) /\ Schedule(<< <<"speech", t>> >>)
       \/ UNCHANGED ready
    /\ WorkerRests /\ UNCHANGED <<deferred, diary>>

\* the pipe ends, or is empty in a cancelled turn; the producer is waited for, but not for long
PipeEnds(t) ==
    /\ Works(t, "speak", "play")
    /\ tokens[t] = 0 /\ (eof[t] \/ cancel[t])
    /\ WorkerRests /\ UNCHANGED <<tokens, ready, deferred, diary>>

\* playback drains or is cut; then the worker looks at the flag, once
Judge(t) ==
    /\ Yielded /\ work[t] = "play"
    /\ work' = [work EXCEPT ![t] = IF cancel[t] THEN IF reply[t] THEN "cut" ELSE "notify"
                                   ELSE IF reply[t] THEN "commit" ELSE "finish"]
    /\ WorkerRests /\ UNCHANGED <<tokens, ready, deferred, diary>>

Cut(t) ==
    /\ Yielded /\ work[t] = "cut" /\ work' = [work EXCEPT ![t] = IF Cuts(t) THEN "cutdiary" ELSE "notify"]
    /\ Truncate(t)
    /\ ThreadRests /\ UNCHANGED <<prod, tokens, spent, eof, foreground, reply, cancel,
                                  ready, deferred, diary>>

WorkerDiary(t) ==
    /\ Works(t, "cutdiary", "notify") /\ ClaimDiary(t, "heard")
    /\ WorkerRests /\ UNCHANGED <<tokens, ready>>

\* Slip: the interrupted worker leaves without a word.
LeaveSilently(t) ==
    /\ Works(t, "notify", "done")
    /\ WorkerRests /\ UNCHANGED <<tokens, ready, deferred, diary>>

Notify(t) ==
    /\ Works(t, "notify", "done")
    /\ Schedule(<< <<"interrupted", t>> >>)
    /\ WorkerRests /\ UNCHANGED <<tokens, deferred, diary>>

\* commit_streamed_turn
Commit(t) ==
    /\ Works(t, "commit", "finish") /\ ClaimDiary(t, "full")
    /\ WorkerRests /\ UNCHANGED <<tokens, ready>>

Finish(t) ==
    /\ Works(t, "finish", "done")
    /\ Schedule(<< <<"idle", t>> >>)
    /\ WorkerRests /\ UNCHANGED <<tokens, deferred, diary>>

(***************************************************************************)
(* The loop runs what the threads scheduled, first come first run.         *)
(***************************************************************************)
MaySend(t) == IsCurrent(t) /\ ~cancel[t]

Callback ==
    /\ Yielded /\ ready # <<>> /\ ready' = Tail(ready)
    /\ LET what == Head(ready)[1]
           t == Head(ready)[2] IN
        /\ phase' = CASE what = "speech" /\ MaySend(t) -> "speaking"
                      [] what # "speech" /\ IsCurrent(t) -> "idle"
                      [] OTHER -> phase
        /\ over' = (over \/ (what = "speech" /\ MaySend(t) /\ bornAt[t] < heardAll))
        /\ told' = [told EXCEPT ![t] = @ \/ (what = "interrupted" /\ ~closed)]
    /\ UNCHANGED <<script, loopVars, micVars, turnVars, threadVars, brainVars, closed, cancel>>

\* a typed message over HTTP takes the foreground, and a voice turn's speech with it
ChatPreempts ==
    /\ "chat" \in script.commands /\ Yielded /\ foreground # 0
    /\ cancel' = [cancel EXCEPT ![foreground] = TRUE] /\ foreground' = 0
    /\ UNCHANGED <<script, loopVars, micVars, turnVars, threadVars, slot, deferred, diary, reply, outVars,
                   phase, closed, told>>

CancelTurn == \E c \in Speakers : ClosePipe(c) \/ Notice(c) \/ CutHistory(c) \/ CutDiary(c)
Begin == \E c \in Speakers :
    BeginTurn(c) \/ JoinPrevious(c) \/ CreateTurn(c) \/ StartTurn(c)
CommandSteps == StopStt \/ AwaitStt \/ StopTurn \/ OpenMic \/ CommandDone
Transcription == \E u \in Utterances :
    SttEnds(u) \/ SttSettles(u) \/ SttDropped(u) \/ SttFinal(u) \/ SttBegins(u) \/ SttEmpty(u)
Watchdog == \E u \in Utterances :
    DogLeaves(u) \/ DogTimesOut(u) \/ DogWaited(u) \/ DogSettles(u)
Producer(t) ==
    \/ Reserve(t) \/ Token(t) \/ Complete(t) \/ Cancelled(t) \/ ModelFails(t)
    \/ Return(t) \/ LateCut(t) \/ LateDiary(t) \/ EndOfPipe(t)
Worker(t) ==
    \/ Speak(t) \/ PipeEnds(t) \/ Judge(t) \/ Cut(t)
    \/ WorkerDiary(t) \/ Notify(t) \/ Commit(t) \/ Finish(t)
User == SpeechStart \/ Stop \/ FeedFails \/ Close \/ Typed \/ Barge \/ SpeechEnd \/ ChatPreempts

Next ==
    \/ User \/ CommandSteps \/ CancelTurn \/ Begin \/ Transcription \/ Watchdog
    \/ \E u \in Utterances : Endpoint(u)
    \/ \E t \in Turns : Producer(t) \/ Worker(t)
    \/ Callback

Spec == Init /\ [][Next]_vars

-----------------------------------------------------------------------------
(***************************************************************************)
(* Properties.                                                             *)
(***************************************************************************)
Places == {"idle", "stopstt", "awaitstt", "turn", "last", "turnlock", "join", "create", "start",
           "give up", "pipe", "notice", "history", "diary", "unborn", "stream", "close",
           "closing", "final", "begin", "empty", "watch", "wait", "tell", "done"}

\* Every variable has its type, and a pipe holds its sentinel within its capacity.
TypeOK ==
    /\ pc \in [Coros -> Places] /\ hit \subseteq Coros
    /\ phase \in {"idle", "listening", "thinking", "speaking"}
    /\ {mic, sttTask, dogTask, heardAll} \subseteq 0..MaxUtterances
    /\ {active, turns, foreground} \subseteq 0..MaxTurns
    /\ {commitLock, turnLock} \subseteq Speakers \union {Nobody}
    /\ \A t \in Turns : tokens[t] \in 0..(IF eof[t] THEN PipeCap - 1 ELSE PipeCap)
    /\ spent \in [Turns -> 0..MaxTokens]
    /\ slot \in [Turns -> {"none", "pending", "full", "heard", "failed"}]

\* At most one entry for a reply reaches the diary: the interruption from the socket
\* loop, the producer's and the worker's, and the worker's commit claim it once.
DiaryOnce == \A t \in Turns : Len(diary[t]) <= 1

\* Once both threads of a turn have ended and nobody is in the middle of cancelling it, a turn
\* whose user was told it was interrupted keeps in the history only what was heard: whichever
\* of the three found the reply first, and however late it came.
Rests(t) == work[t] = "done" /\ prod[t] = "done" /\ \A c \in Speakers : victim[c] # t \/ pc[c] \notin {"pipe", "notice", "history", "diary"}
InterruptedIsTruncated ==
    \A t \in Turns : Rests(t) /\ told[t] => slot[t] \notin {"full", "pending"}

\* The phase says thinking or speaking only while a turn is there to end it: its threads are
\* about to start or still run, or its return to idle is on its way.
Minded ==
    \/ work[active] # "done"
    \/ \E i \in DOMAIN ready : ready[i] \in {<<"idle", active>>, <<"interrupted", active>>}
SpeakingHasATurn == Speaking /\ ~closed => active # 0 /\ Minded

\* speech_start: "letting TTS talk over the new user, the one thing this fallback exists to
\* prevent".
NeverTalksOver == ~over

\* A tail that is starting a turn speaks for the current utterance until it lets go of its
\* locks: stop, speech_start and close, which invalidate utterances, wait for it or forestall it.
Starting == {"turnlock", "join", "create", "start", "pipe", "notice", "history", "diary"}
OnlyValidTailsStart == \A u \in Utterances : pc[Stt(u)] \in Starting => valid[u]
=============================================================================
