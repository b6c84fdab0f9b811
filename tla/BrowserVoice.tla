----------------------------- MODULE BrowserVoice -----------------------------
(***************************************************************************)
(* The browser's end of a voice conversation: web/src/voice                *)
(* (useVoiceSession.ts, playback.ts, vad.ts) and, of the hub's end         *)
(* (hub/server.py, voice/session.py), what the socket shows of it.         *)
(*                                                                         *)
(* VoiceSession is about the coroutines and threads of the hub, and takes  *)
(* a command as it comes.  Here a command of the hub is one step, and the  *)
(* two ends and the loudspeaker are the actors: what is on the wire when   *)
(* the user cuts in decides what he hears.                                 *)
(*                                                                         *)
(* Audio is a stretch that belongs to a turn, the microphone's a stretch   *)
(* that belongs to an utterance; how loud a frame is, how long a silence   *)
(* and what a transcript says are choices.  Captions, levels and errors    *)
(* are left out.                                                           *)
(***************************************************************************)
EXTENDS Integers, Sequences, SequencesExt

CONSTANTS
    Push,          \* push-to-talk, or the microphone is always open?
    Hyper,         \* is the profile "hyper"?
    Prompt,        \* does the loudspeaker answer a flush before the page does anything else?
    Fluent,        \* does no utterance break off or time out over a reply?
    Onset,         \* loud frames that make speech (onsetMs)
    Barge,         \* loud frames that interrupt (bargeMs)
    Parts,         \* bound: stretches of audio of a reply
    MaxTurns,      \* bound: turns
    MaxUtterances, \* bound: utterances
    MaxDrops,      \* bound: connections lost
    MaxWire        \* bound: commands on their way before the user acts again

VARIABLES
    phase,         \* phaseRef
    streaming,     \* streamingRef
    barging,       \* bargingRef
    muted,         \* mutedRef
    held,          \* are there frames in heldRef?
    vad,           \* [on, loud]: is there speech, and how much of it so far
    keyDown,       \* pushHeld
    starting,      \* pushStarting
    live,          \* is the socket open?
    gen,           \* connections so far
    queue,         \* the turns whose audio the loudspeaker still has to play
    waits,         \* who waits for a flush: <<why, gen>>
    resumed,       \* who has just been told that it is done
    utterances,    \* speech_starts sent
    shown,         \* history: the turn the last "speaking" was about
    cut,           \* history: turns the user cut off while he was shown "speaking"
    up,            \* commands on their way to the hub
    down,          \* messages on their way to the page
    sphase,        \* VoiceSession.phase
    turn,          \* turns begun
    active,        \* self._active_turn; 0: None
    cancelled,     \* its cancel
    work,          \* parts its worker has sent; Parts + 1: it has ended
    hearing,       \* history: the utterance begun with the hub, and neither ended nor stopped
    mic,           \* the utterance of self._mic; 0: None
    stt            \* the utterance that is being transcribed; 0: none

pageVars == <<phase, streaming, barging, muted, held, vad, keyDown, starting>>
sockVars == <<live, gen, utterances>>
playVars == <<queue, waits, resumed>>
hubVars == <<sphase, turn, active, cancelled, work, hearing, mic, stt>>
vars == <<pageVars, sockVars, playVars, shown, cut, up, down, hubVars>>

Over == Parts + 1
Silence == [on |-> FALSE, loud |-> 0]

Init ==
    /\ phase = "idle" /\ streaming = FALSE /\ barging = FALSE /\ muted = FALSE
    /\ held = FALSE /\ vad = Silence /\ keyDown = FALSE /\ starting = FALSE
    /\ live = TRUE /\ gen = 1 /\ utterances = 0
    /\ queue = <<>> /\ waits = <<>> /\ resumed = <<>>
    /\ shown = 0 /\ cut = {} /\ up = <<>> /\ down = <<>>
    /\ sphase = "idle" /\ turn = 0 /\ active = 0 /\ cancelled = FALSE /\ work = Over
    /\ hearing = 0 /\ mic = 0 /\ stt = 0

\* What a resumed await does comes before any other event of the page.
Free == resumed = <<>> /\ (Prompt => waits = <<>>)
\* The user is not asked for more while so much is on its way.
Calm == Free /\ Len(up) < MaxWire

(***************************************************************************)
(* What the page sends.  Frames one after another are one stretch.         *)
(***************************************************************************)
Start == <<"start", utterances + 1>>
Frames(n) == <<"frames", n>>
Sent(cs) == up' = IF live THEN up \o cs ELSE up
WithFrames(n) == IF up # <<>> /\ Last(up) = Frames(n) THEN <<>> ELSE <<Frames(n)>>

\* Quiet first, and ask the hub afterwards: nothing that still arrives is played
Silenced == muted' = TRUE /\ queue' = <<>> /\ cut' = cut \union {shown}
Flush(why) == Silenced /\ waits' = Append(waits, <<why, gen>>)

(***************************************************************************)
(* A frame of an open microphone.                                          *)
(***************************************************************************)
\* What the next frame makes of the VAD; a silence ends speech when it is as long as the
\* transcript asks for
Heard(loud, ends) ==
    LET l == IF vad.loud < Barge THEN vad.loud + 1 ELSE Barge
    IN CASE loud -> [on |-> vad.on \/ l >= Onset, loud |-> l]
         [] ~loud /\ vad.on /\ ~ends -> vad
         [] OTHER -> Silence

\* While Rau talks, what the user says is held back until it is enough to interrupt him
HoldBack(v) ==
    /\ phase = "speaking" /\ ~streaming
    /\ held' = TRUE
    /\ IF ~barging /\ v.loud >= Barge
       THEN barging' = TRUE /\ Flush("barge")
       ELSE UNCHANGED <<barging, muted, queue, waits, cut>>
    /\ UNCHANGED <<streaming, up, utterances>>

Stream(v, ends) ==
    LET starts == ~streaming /\ v.on
        on == streaming \/ starts
        n == IF starts THEN utterances + 1 ELSE utterances
        drained == IF ~on THEN <<>> ELSE IF starts THEN <<Start, Frames(n)>> ELSE WithFrames(n)
    IN /\ ~(phase = "speaking" /\ ~streaming)
       /\ Sent(drained \o IF ends THEN <<<<"end", n>>>> ELSE <<>>)
       /\ utterances' = n
       /\ streaming' = (on /\ ~ends)
       /\ held' = (~on /\ ~ends)
       /\ UNCHANGED <<barging, muted, queue, waits, cut>>

Frame(loud, ends) ==
    /\ ~Push /\ live /\ Calm
    /\ loud => ~ends /\ (streaming \/ utterances < MaxUtterances)
    /\ ends => vad.on
    /\ vad' = Heard(loud, ends)
    /\ HoldBack(vad') \/ Stream(vad', ends)
    /\ UNCHANGED <<phase, keyDown, starting, live, gen, resumed, shown, down, hubVars>>

(***************************************************************************)
(* Push-to-talk.                                                           *)
(***************************************************************************)
BeginPush ==
    IF phase = "speaking"
    THEN /\ barging' = TRUE /\ starting' = TRUE /\ Flush("push")
         /\ UNCHANGED <<streaming, up, utterances>>
    ELSE /\ Sent(<<Start>> \o IF held' THEN <<Frames(utterances + 1)>> ELSE <<>>)
         /\ streaming' = TRUE /\ utterances' = utterances + 1
         /\ UNCHANGED <<barging, starting, muted, queue, waits, cut>>

KeyDown ==
    /\ Push /\ Calm /\ ~keyDown /\ utterances < MaxUtterances
    /\ keyDown' = TRUE /\ held' = FALSE /\ vad' = Silence
    /\ IF starting \/ streaming \/ ~live
       THEN UNCHANGED <<barging, starting, streaming, muted, queue, waits, cut, up, utterances>>
       ELSE BeginPush
    /\ UNCHANGED <<phase, live, gen, resumed, shown, down, hubVars>>

PushFrame ==
    /\ Push /\ live /\ Calm /\ keyDown
    /\ \/ ~streaming /\ ~starting /\ utterances < MaxUtterances
          /\ held' = TRUE /\ BeginPush
       \/ streaming /\ Sent(WithFrames(utterances)) /\ held' = FALSE
          /\ UNCHANGED <<streaming, barging, starting, muted, queue, waits, cut, utterances>>
       \/ ~streaming /\ starting /\ held' = TRUE
          /\ UNCHANGED <<streaming, barging, starting, muted, queue, waits, cut, up, utterances>>
    /\ UNCHANGED <<phase, vad, keyDown, live, gen, resumed, shown, down, hubVars>>

\* The key is released, or the window loses the keyboard
KeyUp ==
    /\ Push /\ Free /\ keyDown
    /\ keyDown' = FALSE
    /\ IF streaming
       THEN Sent(<<<<"end", utterances>>>>) /\ streaming' = FALSE /\ held' = FALSE
       ELSE UNCHANGED <<up, streaming, held>>
    /\ UNCHANGED <<phase, barging, muted, vad, starting, sockVars, playVars, shown, cut, down,
                   hubVars>>

(***************************************************************************)
(* The loudspeaker has dropped what it had, or the page no longer waits.   *)
(***************************************************************************)
FlushDone ==
    /\ waits # <<>> /\ resumed = <<>>
    /\ resumed' = waits /\ waits' = <<>>
    /\ UNCHANGED <<pageVars, sockVars, queue, shown, cut, up, down, hubVars>>

\* bargeIn() goes on, and after it beginPush(), whose key may have been released meanwhile
CutIn(why, same) ==
    LET on == same \/ streaming
        shut == why = "push" /\ ~keyDown /\ on
    IN /\ utterances' = IF same THEN utterances + 1 ELSE utterances
       /\ Sent((IF same THEN <<<<"barge", 0>>, Start>> ELSE <<>>)
               \o (IF same /\ held THEN <<Frames(utterances + 1)>> ELSE <<>>)
               \o IF shut THEN <<<<"end", utterances'>>>> ELSE <<>>)
       /\ streaming' = (on /\ ~shut)
       /\ barging' = (barging /\ ~same)
       /\ held' = (held /\ ~same /\ ~shut)
       /\ starting' = IF why = "push" THEN FALSE ELSE starting

Resume ==
    /\ resumed # <<>>
    /\ LET why == Head(resumed)[1]
           same == live /\ Head(resumed)[2] = gen
       IN IF why = "stop"
          THEN /\ up' = IF same THEN Append(up, <<"barge", 0>>) ELSE up
               /\ UNCHANGED <<utterances, streaming, barging, held, starting>>
          ELSE CutIn(why, same)
    /\ resumed' = Tail(resumed)
    /\ UNCHANGED <<phase, muted, vad, keyDown, live, gen, queue, waits, shown, cut, down, hubVars>>

Play ==
    /\ queue # <<>>
    /\ queue' = Tail(queue)
    /\ UNCHANGED <<pageVars, sockVars, waits, resumed, shown, cut, up, down, hubVars>>

(***************************************************************************)
(* The buttons.                                                            *)
(***************************************************************************)
\* stop(): silent at once, and the hub is told; idle without waiting for its answer
Stop ==
    /\ Calm
    /\ IF phase = "speaking"
       THEN Flush("stop") /\ UNCHANGED <<streaming, up>>
       ELSE Sent(<<<<"stop", 0>>>>) /\ streaming' = FALSE /\ UNCHANGED <<muted, queue, waits, cut>>
    /\ phase' = "idle" /\ vad' = Silence /\ held' = FALSE
    /\ UNCHANGED <<barging, keyDown, starting, sockVars, resumed, shown, down, hubVars>>

Typed == {i \in 1..Len(up) : up[i][1] = "text"}
SendText ==
    /\ Calm /\ live /\ turn < MaxTurns /\ Typed = {}
    /\ Sent(<<<<"text", 0>>>>)
    /\ IF phase = "speaking" THEN Silenced ELSE UNCHANGED <<muted, queue, cut>>
    /\ UNCHANGED <<phase, streaming, barging, held, vad, keyDown, starting, sockVars, waits, resumed,
                   shown, down, hubVars>>

(***************************************************************************)
(* A message of the hub's.                                                 *)
(***************************************************************************)
Phases == {"idle", "listening", "thinking", "speaking"}
PhaseComes(m) ==
    /\ m[1] \in Phases
    /\ phase' = m[1]
    /\ queue' = IF m[1] = "thinking" THEN <<>> ELSE queue
    /\ muted' = (muted /\ m[1] \notin {"thinking", "idle"})
    /\ shown' = IF m[1] = "speaking" THEN m[2] ELSE shown
    /\ UNCHANGED <<streaming, held, vad>>

AudioComes(m) ==
    /\ m[1] = "audio"
    /\ queue' = IF muted THEN queue ELSE Append(queue, m[2])
    /\ UNCHANGED <<phase, muted, shown, streaming, held, vad>>

EndpointComes(m) ==
    /\ m[1] = "endpoint"
    /\ streaming' = FALSE /\ held' = FALSE /\ vad' = Silence
    /\ UNCHANGED <<phase, muted, shown, queue>>

Receive ==
    /\ live /\ Free /\ down # <<>>
    /\ LET m == Head(down) IN PhaseComes(m) \/ AudioComes(m) \/ EndpointComes(m)
    /\ down' = Tail(down)
    /\ UNCHANGED <<barging, keyDown, starting, sockVars, waits, resumed, cut, up, hubVars>>

(***************************************************************************)
(* The connection.                                                         *)
(***************************************************************************)
\* The hub closes the session of a socket that is gone; the page forgets all about it
Drop ==
    /\ live /\ gen <= MaxDrops /\ resumed = <<>>
    /\ live' = FALSE /\ up' = <<>> /\ down' = <<>>
    /\ streaming' = FALSE /\ barging' = FALSE /\ muted' = FALSE /\ held' = FALSE
    /\ vad' = Silence /\ queue' = <<>> /\ phase' = "idle"
    /\ sphase' = "idle" /\ active' = 0 /\ cancelled' = FALSE /\ work' = Over
    /\ hearing' = 0 /\ mic' = 0 /\ stt' = 0
    /\ UNCHANGED <<keyDown, starting, gen, utterances, waits, resumed, shown, cut, turn>>

Connect ==
    /\ ~live /\ Free
    /\ live' = TRUE /\ gen' = gen + 1
    /\ UNCHANGED <<pageVars, utterances, playVars, shown, cut, up, down, hubVars>>

(***************************************************************************)
(* The hub.  A phase is told when it changes, and only then.               *)
(***************************************************************************)
Told(p, t) == IF sphase = p THEN <<>> ELSE <<<<p, t>>>>
SetPhase(p, t) == sphase' = p /\ down' = down \o Told(p, t)
Busy == active # 0 /\ sphase \in {"thinking", "speaking"}

\* begin_turn(): the turn before it is no longer current, whatever its worker still does
BeginTurn(before) ==
    /\ turn < MaxTurns
    /\ turn' = turn + 1 /\ active' = turn' /\ cancelled' = FALSE /\ work' = 0
    /\ sphase' = "thinking" /\ down' = down \o before \o Told("thinking", turn')

OnStart(c) ==
    /\ c[1] = "start"
    /\ cancelled' = (cancelled \/ Busy)
    /\ hearing' = c[2] /\ mic' = c[2] /\ stt' = c[2]
    /\ SetPhase("listening", 0)
    /\ UNCHANGED <<turn, active, work>>

\* A frame nobody listens to is dropped; one too many ends the utterance
OnFrames(c) ==
    /\ c[1] = "frames"
    /\ \/ UNCHANGED <<hubVars, down>>
       \/ /\ mic # 0 /\ ~(Fluent /\ Busy) /\ mic' = 0 /\ stt' = 0
          /\ SetPhase("idle", 0)
          /\ UNCHANGED <<turn, active, cancelled, work, hearing>>

OnEnd(c) ==
    /\ c[1] = "end"
    /\ hearing' = 0 /\ mic' = 0
    /\ UNCHANGED <<sphase, turn, active, cancelled, work, stt, down>>

OnBarge(c) ==
    /\ c[1] = "barge"
    /\ cancelled' = (cancelled \/ (active # 0 /\ sphase = "speaking"))
    /\ UNCHANGED <<sphase, turn, active, work, hearing, mic, stt, down>>

OnText(c) ==
    /\ c[1] = "text"
    /\ IF turn < MaxTurns THEN BeginTurn(<<>>)
       ELSE UNCHANGED <<turn, active, cancelled, work, sphase, down>>
    /\ UNCHANGED <<hearing, mic, stt>>

OnStop(c) ==
    /\ c[1] = "stop"
    /\ hearing' = 0 /\ mic' = 0 /\ stt' = 0 /\ cancelled' = (cancelled \/ Busy)
    /\ SetPhase("idle", 0)
    /\ UNCHANGED <<turn, active, work>>

Serve ==
    /\ live /\ up # <<>>
    /\ LET c == Head(up)
       IN OnStart(c) \/ OnFrames(c) \/ OnEnd(c) \/ OnBarge(c) \/ OnText(c) \/ OnStop(c)
    /\ up' = Tail(up)
    /\ UNCHANGED <<pageVars, sockVars, playVars, shown, cut>>

\* The transcript of an utterance that was ended begins a turn
Transcribed ==
    /\ stt # 0 /\ mic # stt
    /\ BeginTurn(<<>>) /\ stt' = 0
    /\ UNCHANGED <<hearing, mic, pageVars, sockVars, playVars, shown, cut, up>>

\* The provider fails, or has heard nothing
NothingHeard ==
    /\ stt # 0
    /\ stt' = 0
    /\ IF sphase = "listening" THEN SetPhase("idle", 0) ELSE UNCHANGED <<sphase, down>>
    /\ UNCHANGED <<turn, active, cancelled, work, hearing, mic, pageVars, sockVars, playVars, shown, cut, up>>

\* The watchdog has waited long enough for the transcript
TimesOut ==
    /\ stt # 0 /\ mic # stt /\ ~(Fluent /\ Busy)
    /\ stt' = 0 /\ SetPhase("idle", 0)
    /\ UNCHANGED <<turn, active, cancelled, work, hearing, mic, pageVars, sockVars, playVars, shown, cut, up>>

\* In the hyper profile the provider says when the user has done speaking
Endpoint ==
    /\ Hyper /\ stt # 0
    /\ BeginTurn(<<<<"endpoint", 0>>>>)
    /\ mic' = (IF mic = stt THEN 0 ELSE mic) /\ stt' = 0
    /\ UNCHANGED <<hearing, pageVars, sockVars, playVars, shown, cut, up>>

\* A sentence is announced when it begins, and not again while it lasts
Say ==
    /\ active # 0 /\ ~cancelled /\ work < Parts
    /\ work' = work + 1
    /\ \/ sphase' = "speaking"
          /\ down' = down \o Told("speaking", active) \o <<<<"audio", active>>>>
       \/ work # 0 /\ sphase' = sphase
          /\ down' = down \o <<<<"audio", active>>>>
    /\ UNCHANGED <<turn, active, cancelled, hearing, mic, stt, pageVars, sockVars, playVars, shown, cut, up>>

\* The worker ends, on its own or cancelled: the session is idle, whoever speaks by then
WorkerEnds ==
    /\ active # 0 /\ work # Over
    /\ work' = Over
    /\ SetPhase("idle", active)
    /\ UNCHANGED <<turn, active, cancelled, hearing, mic, stt, pageVars, sockVars, playVars, shown, cut, up>>

Next ==
    \/ \E loud, ends \in BOOLEAN : Frame(loud, ends)
    \/ KeyDown \/ PushFrame \/ KeyUp
    \/ FlushDone \/ Resume \/ Play
    \/ Stop \/ SendText
    \/ Receive \/ Drop \/ Connect
    \/ Serve \/ Transcribed \/ NothingHeard \/ TimesOut \/ Endpoint \/ Say \/ WorkerEnds

Spec == Init /\ [][Next]_vars

(***************************************************************************)
(* Properties                                                              *)
(***************************************************************************)
\* The variables have their types.
TypeOK ==
    /\ phase \in Phases /\ sphase \in Phases
    /\ {streaming, barging, muted, held, keyDown, starting, live, cancelled} \subseteq BOOLEAN
    /\ vad \in [on : BOOLEAN, loud : 0..Barge]
    /\ gen \in 1..(MaxDrops + 1)
    /\ {shown, turn, active} \subseteq 0..MaxTurns /\ cut \subseteq 0..MaxTurns
    /\ queue \in Seq(1..MaxTurns)
    /\ waits \in Seq({"barge", "push", "stop"} \X (1..(MaxDrops + 1)))
    /\ work \in 0..Over
    /\ utterances \in Nat /\ {hearing, mic, stt} \subseteq 0..utterances

\* Nothing of a reply the user cut off is played after the cut, whatever of it was still on its
\* way and whatever lifts the mute (useVoiceSession.ts bargeIn, stop, sendText).  Not so when
\* an utterance breaks off or times out over the reply: the hub says "idle", which lifts the mute
\* and lets the hub drop the barge, and the worker goes on.
CutIsFinal == \A i \in 1..Len(queue) : queue[i] \notin cut

\* A reply the user did not cut off is not muted: no cut outlasts its own reply, though a phase
\* is told only when it changes (useVoiceSession.ts onmessage, session.py set_phase).
UncutIsHeard == muted /\ down # <<>> /\ Head(down)[1] = "audio" => Head(down)[2] \in cut

\* What the user says reaches the hub in an utterance of its own: it was announced on this very
\* connection, and the one before it was closed, or the speech_start would throw away what was
\* said into it (useVoiceSession.ts, session.py speech_start).
WordsAreHeard ==
    up # <<>> =>
        /\ Head(up)[1] = "start" => mic = 0
        /\ Head(up)[1] = "frames" => hearing = Head(up)[2]

Settled == live /\ up = <<>> /\ down = <<>> /\ waits = <<>> /\ resumed = <<>>

\* When all is said, the hub listens to nobody who has stopped talking: a quick press of the
\* key, a stop and a lost connection all shut the microphone (useVoiceSession.ts beginPush).
MicIsShut ==
    Settled /\ (IF Push THEN ~keyDown ELSE ~streaming) => mic = 0 /\ ~streaming

\* When all is said, page and hub are in the same phase, although the page goes idle without
\* waiting and the hub tells a phase only once (useVoiceSession.ts stop, session.py set_phase).
PhaseAgrees == Settled /\ ~(cancelled /\ work # Over) => phase = sphase

\* Nothing of a reply the hub has cancelled is left to be played.  It does not hold: audio that
\* was on its way when the user spoke, or pressed stop, before the page was told "speaking" is
\* queued, and neither "cancelled" nor "idle" drops it (useVoiceSession.ts 542, 678).
CancelledIsSilent == Settled /\ cancelled /\ work = Over => active \notin ToSet(queue)

=============================================================================
