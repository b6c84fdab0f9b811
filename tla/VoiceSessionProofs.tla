------------------------- MODULE VoiceSessionProofs -------------------------
(***************************************************************************)
(* The voice session's invariants, for every number of utterances, turns   *)
(* and tokens, every capacity of the token pipe and every script.          *)
(*                                                                         *)
(* They are proved in layers.  What the coroutines hold (the two locks)    *)
(* makes a turn be created once and started once; what the threads of a    *)
(* turn may have done follows from that, turn by turn.                     *)
(*                                                                         *)
(* After them, what a turn says: the table a word's reading is taken from  *)
(* (Lexicon), for any tables, the syllables of a loanword (Hangulize), for *)
(* words of any length, and what the user hears of a reply (RealtimeTts),  *)
(* for replies of any length.                                              *)
(***************************************************************************)
EXTENDS VoiceSession, FiniteSetTheorems, WellFoundedInduction, TLAPS

Cancelling == {"pipe", "notice", "history", "diary"}

\* Where each coroutine can stand.
RecvPlaces == {"idle", "stopstt", "awaitstt", "turn", "last", "turnlock", "join", "create", "start"}
              \union Cancelling
SttPlaces == {"unborn", "stream", "close", "closing", "final", "begin", "empty", "turnlock", "join",
              "create", "start", "done"} \union Cancelling
DogPlaces == {"unborn", "watch", "wait", "tell", "done"}
Goals == {"none", "speech", "stop", "drop", "close", "text", "barge", "end"}
Workings == {"new", "speak", "play", "cut", "cutdiary", "notify", "commit", "finish", "done"}
Producings == {"new", "reserve", "generate", "return", "finally", "latediary", "close", "done"}
Entries == {<<>>, <<"heard">>, <<"full">>}

\* The coroutines and what they share.
Standing ==
    /\ pc \in [Coros -> Places] /\ pc[Recv] \in RecvPlaces
    /\ \A u \in Utterances : pc[Stt(u)] \in SttPlaces /\ pc[Dog(u)] \in DogPlaces
LoopTypes ==
    /\ Standing
    /\ goal \in Goals /\ victim \in [Speakers -> Nat] /\ hit \subseteq Coros
    /\ script \in Scripts
    /\ phase \in {"idle", "listening", "thinking", "speaking"} /\ closed \in BOOLEAN
MicTypes ==
    /\ {mic, sttTask, dogTask, heardAll} \subseteq 0..MaxUtterances
    /\ valid \in [Utterances -> BOOLEAN]
    /\ goal = "speech" => heardAll < script.utterances
LockTypes == {commitLock, turnLock} \subseteq Speakers \union {Nobody}

\* The turns and their threads.
TurnTypes ==
    /\ active \in Nat /\ turns \in Nat /\ foreground \in 0..MaxTurns
    /\ cancel \in [Turns -> BOOLEAN] /\ told \in [Turns -> BOOLEAN]
    /\ work \in [Turns -> Workings] /\ prod \in [Turns -> Producings]
    /\ tokens \in [Turns -> Nat] /\ spent \in [Turns -> 0..MaxTokens] /\ eof \in [Turns -> BOOLEAN]
    /\ slot \in [Turns -> {"none", "pending", "full", "heard", "failed"}]
    /\ deferred \in [Turns -> BOOLEAN] /\ reply \in [Turns -> BOOLEAN]
    /\ ready \in Seq({"speech", "idle", "interrupted"} \X Turns)

\* c is in begin_turn behind the turn lock; an utterance that was not begun is nowhere.
Holds(c) ==
    \/ pc[c] \in {"join", "create", "start"}
    \/ pc[c] \in Cancelling /\ (c = Recv => goal = "text")
LockInv ==
    /\ \A c \in Speakers : Holds(c) => turnLock = c
    /\ \A u \in Utterances : pc[Stt(u)] \in {"begin"} \union Starting => commitLock = Stt(u)
    /\ \A u \in Utterances : pc[Stt(u)] \in Starting => valid[u]
    /\ pc[Recv] \in {"turnlock", "join", "create", "start"} => goal = "text"
    /\ \A u \in Utterances : u > heardAll => pc[Stt(u)] = "unborn"

\* A turn is started once: nobody has started the one that is to be started next.
FreshInv ==
    /\ active <= turns
    /\ \A t \in Turns : t > turns => work[t] = "new" /\ prod[t] = "new"
    /\ \A c \in Speakers : pc[c] = "start" =>
          /\ active = turns
          /\ active \in Turns => work[active] = "new" /\ prod[active] = "new"

\* The turns that are promised to somebody on his way.
Coming == {u \in Utterances : pc[Stt(u)] \in {"final", "begin", "turnlock", "join", "create"} \union Cancelling}
Promised == IF goal = "text" /\ pc[Recv] # "start" THEN 1 ELSE 0
RoomInv == turns + Cardinality(Coming) + Promised <= script.turns

\* A pipe that was shut gets no more tokens: its producer is done or sees the flag.
PipeInv ==
    /\ \A c \in Speakers : pc[c] \in Cancelling /\ victim[c] \in Turns => cancel[victim[c]]
    /\ \A t \in Turns : /\ tokens[t] <= PipeCap
                        /\ eof[t] => tokens[t] < PipeCap /\ (cancel[t] \/ prod[t] = "done")

\* The diary entry is deferred by the reply's completion and claimed once.
DiaryInv ==
    /\ diary \in [Turns -> Entries]
    /\ \A t \in Turns :
        /\ deferred[t] => diary[t] = <<>>
        /\ prod[t] \in {"new", "reserve", "generate"} => diary[t] = <<>> /\ ~deferred[t]

\* The turn is interrupted, and its reply is cut or somebody is about to.
WillBeCut(t) ==
    /\ cancel[t]
    /\ \/ slot[t] # "full"
       \/ prod[t] \in {"return", "finally"}
       \/ \E c \in Speakers : victim[c] = t /\ pc[c] = "history"
IsTold(t) ==
    \/ told[t] \/ work[t] \in {"cutdiary", "notify"}
    \/ \E i \in DOMAIN ready : ready[i] = <<"interrupted", t>>
ToldInv(t) ==
    /\ IsTold(t) => WillBeCut(t)
    /\ work[t] = "cut" => cancel[t] /\ reply[t]
    /\ slot[t] = "full" /\ ~reply[t] => prod[t] = "return"
    /\ prod[t] \in {"return", "finally", "latediary", "close", "done"} => slot[t] \in {"full", "heard", "failed"}
    /\ prod[t] \in {"new", "reserve", "generate"} => slot[t] # "full"

\* Behind the speech of a turn that has ended comes the end of the turn.
Endings(t) == {<<"idle", t>>, <<"interrupted", t>>}
Followed(i, t) == \E j \in DOMAIN ready : j > i /\ ready[j] \in Endings(t)
ReadyInv ==
    /\ \A i \in DOMAIN ready : \A t \in Turns :
          ready[i] = <<"speech", t>> => work[t] # "done" \/ Followed(i, t)
    /\ SpeakingHasATurn

VoiceInv ==
    /\ LoopTypes /\ MicTypes /\ LockTypes /\ TurnTypes
    /\ LockInv /\ FreshInv /\ RoomInv /\ PipeInv /\ DiaryInv /\ ReadyInv
    /\ \A t \in Turns : ToldInv(t)
-----------------------------------------------------------------------------
(***************************************************************************)
(* Names.                                                                  *)
(***************************************************************************)

\* The coroutines are told apart by their names.
LEMMA Coroutines ==
    /\ Recv \in Speakers /\ Speakers \subseteq Coros /\ Nobody \notin Speakers
    /\ \A u \in Utterances : Stt(u) \in Speakers /\ Dog(u) \in Coros /\ Dog(u) \notin Speakers
                             /\ Stt(u) # Recv
    /\ \A c \in Speakers : c = Recv \/ \E u \in Utterances : c = Stt(u)
    /\ \A u, v \in Utterances : (Stt(u) = Stt(v) => u = v) /\ (Dog(u) = Dog(v) => u = v)
BY DEF Recv, Stt, Dog, Speakers, Coros, Nobody

\* The bounds are numbers, and a script stays within them.
LEMMA Bounds ==
    /\ MaxUtterances \in Nat /\ MaxTurns \in Nat /\ MaxTokens \in Nat /\ PipeCap \in Nat
    /\ MaxUtterances > 0 /\ MaxTurns > 0 /\ MaxTokens > 0 /\ PipeCap > 0
    /\ \A s \in Scripts : s.utterances \in 0..MaxUtterances /\ s.turns \in 0..MaxTurns
BY VoiceBounds

-----------------------------------------------------------------------------
(***************************************************************************)
(* Types.                                                                  *)
(***************************************************************************)
Types == LoopTypes /\ MicTypes /\ LockTypes /\ TurnTypes

LEMMA TypesInit == Init => Types
<1> SUFFICES ASSUME Init PROVE Types
  OBVIOUS
<1>1. LoopTypes
  BY Coroutines DEF Init, LoopTypes, Standing, Places, RecvPlaces, SttPlaces, DogPlaces, Goals,
      Stt, Dog, Recv, Coros
<1>2. MicTypes
  <2>1. 0 \in 0..MaxUtterances
    BY Bounds
  <2> QED
    BY <2>1 DEF Init, MicTypes
<1>3. LockTypes
  BY DEF Init, LockTypes
<1>4. TurnTypes
  <2>1. 0 \in 0..MaxTurns /\ 0 \in 0..MaxTokens
    BY Bounds
  <2>2. ready \in Seq({"speech", "idle", "interrupted"} \X Turns)
    BY DEF Init
  <2> QED
    BY <2>1, <2>2 DEF Init, TurnTypes, Workings, Producings
<1> QED
  BY <1>1, <1>2, <1>3, <1>4 DEF Types

\* A coroutine stays within its places.
LEMMA RecvMoves ==
    ASSUME Standing, NEW p \in RecvPlaces, Goto(Recv, p)
    PROVE Standing'
BY Coroutines DEF Standing, Goto, Places, RecvPlaces, Cancelling

LEMMA SttMoves ==
    ASSUME Standing, NEW u \in Utterances, NEW p \in SttPlaces, Goto(Stt(u), p)
    PROVE Standing'
<1>1. p \in Places
  BY DEF Places, SttPlaces, Cancelling
<1> QED
  BY <1>1, Coroutines DEF Standing, Goto

LEMMA DogMoves ==
    ASSUME Standing, NEW u \in Utterances, NEW p \in DogPlaces, Goto(Dog(u), p)
    PROVE Standing'
BY Coroutines DEF Standing, Goto, Places, DogPlaces

LEMMA SpeakerMoves ==
    ASSUME Standing, NEW c \in Speakers, NEW p \in IF c = Recv THEN RecvPlaces ELSE SttPlaces, Goto(c, p)
    PROVE Standing'
BY Coroutines, RecvMoves, SttMoves DEF Goto

LEMMA NobodyMoves == ASSUME Standing, UNCHANGED pc PROVE Standing'
BY DEF Standing

\* Every step keeps the coroutines to their places.
LEMMA StandingStep == ASSUME Types, [Next]_vars PROVE Standing'
<1>a. Standing
  BY DEF Types, LoopTypes
<1>b. /\ {"idle", "stopstt", "awaitstt", "turn", "last", "turnlock"} \subseteq RecvPlaces
      /\ {"stream", "close", "closing", "final", "begin", "empty", "turnlock", "done"} \subseteq SttPlaces
      /\ Cancelling \union {"join", "create", "start"} \subseteq RecvPlaces \intersect SttPlaces
      /\ DogPlaces = {"unborn", "watch", "wait", "tell", "done"}
  BY DEF RecvPlaces, SttPlaces, DogPlaces, Cancelling
<1>c. Cancelling = {"pipe", "notice", "history", "diary"}
  BY DEF Cancelling
<1>d. \A c \in Speakers : AfterCancel(c) \in IF c = Recv THEN RecvPlaces ELSE SttPlaces
  <2>1. AfterCancel(Recv) \in {"last", "join"} /\ \A c \in Speakers : c # Recv => AfterCancel(c) = "join"
    BY DEF AfterCancel
  <2>2. {"last", "join"} \subseteq RecvPlaces /\ "join" \in SttPlaces
    BY DEF RecvPlaces, SttPlaces
  <2> QED
    BY <2>1, <2>2
<1>1. CASE User
  <2>1. CASE SpeechStart
    BY <2>1, <1>a, <1>b, <1>c, RecvMoves DEF SpeechStart, Command, loopVars
  <2>2. CASE Stop
    BY <2>2, <1>a, <1>b, <1>c, RecvMoves DEF Stop, Command, loopVars
  <2>3. CASE FeedFails
    BY <2>3, <1>a, <1>b, <1>c, RecvMoves DEF FeedFails, loopVars
  <2>4. CASE Close
    BY <2>4, <1>a, <1>b, <1>c, RecvMoves DEF Close, Command, Interrupt, loopVars
  <2>5. CASE Typed
    BY <2>5, <1>a, <1>b, <1>c, RecvMoves DEF Typed, Command, loopVars
  <2>6. CASE Barge
    BY <2>6, <1>a, <1>b, <1>c, RecvMoves DEF Barge, Command, Interrupt, loopVars
  <2>7. CASE SpeechEnd
    <3>1. CASE UNCHANGED pc
      BY <3>1, <1>a, NobodyMoves
    <3>2. CASE ~UNCHANGED pc
      <4>1. sttTask \in Utterances /\ Goto(Dog(sttTask), "watch")
        BY <3>2, <2>7 DEF SpeechEnd, Types, MicTypes, Utterances, Goto
      <4> QED
        BY <4>1, <1>b, <1>a, DogMoves
    <3> QED
      BY <3>1, <3>2
  <2>8. CASE ChatPreempts
    BY <2>8, <1>a, NobodyMoves DEF ChatPreempts, loopVars
  <2> QED
    BY <1>1, <2>1, <2>2, <2>3, <2>4, <2>5, <2>6, <2>7, <2>8 DEF User
<1>2. CASE CommandSteps
  <2>1. CASE StopStt
    BY <2>1, <1>a, <1>b, <1>c, RecvMoves DEF StopStt, loopVars
  <2>2. CASE AwaitStt
    BY <2>2, <1>a, <1>b, <1>c, RecvMoves DEF AwaitStt, loopVars
  <2>3. CASE StopTurn
    BY <2>3, <1>a, <1>b, <1>c, RecvMoves DEF StopTurn, Interrupt, loopVars
  <2>4. CASE CommandDone
    BY <2>4, <1>a, <1>b, <1>c, RecvMoves DEF CommandDone, loopVars
  <2>5. CASE OpenMic
    <3>1. heardAll + 1 \in Utterances
      BY <2>5, Bounds DEF OpenMic, Types, MicTypes, LoopTypes, Utterances
    <3>2. pc' = [pc EXCEPT ![Recv] = "idle", ![Stt(heardAll + 1)] = "stream"]
      BY <2>5 DEF OpenMic
    <3> QED
      <4>1. pc' \in [Coros -> Places]
        BY ONLY <3>1, <3>2, <1>a, Coroutines DEF Standing, Places
      <4>2. pc'[Recv] = "idle" /\ pc'[Stt(heardAll + 1)] = "stream"
        BY ONLY <3>1, <3>2, <1>a, Coroutines DEF Standing
      <4>3. \A d \in Coros \ {Recv, Stt(heardAll + 1)} : pc'[d] = pc[d]
        BY ONLY <3>1, <3>2, <1>a, Coroutines DEF Standing
      <4> QED
        BY ONLY <3>1, <4>1, <4>2, <4>3, <1>a, <1>b, Coroutines DEF Standing
  <2> QED
    BY <1>2, <2>1, <2>2, <2>3, <2>4, <2>5 DEF CommandSteps
<1>3. CASE CancelTurn
  <2> SUFFICES ASSUME NEW c \in Speakers, ClosePipe(c) \/ Notice(c) \/ CutHistory(c) \/
      CutDiary(c) PROVE Standing'
    BY <1>3 DEF CancelTurn
  <2>1. CASE ClosePipe(c)
    BY <2>1, <1>a, <1>b, <1>c, <1>d, SpeakerMoves DEF ClosePipe, loopVars
  <2>2. CASE Notice(c)
    BY <2>2, <1>a, <1>b, <1>c, <1>d, SpeakerMoves DEF Notice, loopVars
  <2>3. CASE CutHistory(c)
    BY <2>3, <1>a, <1>b, <1>c, <1>d, SpeakerMoves DEF CutHistory, loopVars
  <2>4. CASE CutDiary(c)
    BY <2>4, <1>a, <1>b, <1>c, <1>d, SpeakerMoves DEF CutDiary, loopVars
  <2> QED
    BY <2>1, <2>2, <2>3, <2>4
<1>4. CASE Begin
  <2> SUFFICES ASSUME NEW c \in Speakers, BeginTurn(c) \/ JoinPrevious(c) \/ CreateTurn(c) \/
      StartTurn(c) PROVE Standing'
    BY <1>4 DEF Begin
  <2>1. CASE BeginTurn(c)
    BY <2>1, <1>a, <1>b, <1>c, <1>d, SpeakerMoves DEF BeginTurn, Interrupt, loopVars
  <2>2. CASE JoinPrevious(c)
    BY <2>2, <1>a, <1>b, <1>c, <1>d, SpeakerMoves DEF JoinPrevious, loopVars
  <2>3. CASE CreateTurn(c)
    BY <2>3, <1>a, <1>b, <1>c, <1>d, SpeakerMoves DEF CreateTurn, loopVars
  <2>4. CASE StartTurn(c)
    BY <2>4, <1>a, <1>b, <1>c, SpeakerMoves DEF StartTurn, LeaveTurn, loopVars
  <2> QED
    BY <2>1, <2>2, <2>3, <2>4
<1>5. CASE Transcription
  <2> SUFFICES ASSUME NEW u \in Utterances, SttEnds(u) \/ SttSettles(u) \/ SttDropped(u) \/
      SttFinal(u) \/ SttBegins(u) \/ SttEmpty(u) PROVE Standing'
    BY <1>5 DEF Transcription
  <2>1. CASE SttEnds(u)
    BY <2>1, <1>a, <1>b, <1>c, SttMoves DEF SttEnds, loopVars
  <2>2. CASE SttSettles(u)
    BY <2>2, <1>a, <1>b, <1>c, SttMoves DEF SttSettles, loopVars
  <2>3. CASE SttDropped(u)
    BY <2>3, <1>a, <1>b, <1>c, SttMoves DEF SttDropped, loopVars
  <2>4. CASE SttFinal(u)
    BY <2>4, <1>a, <1>b, <1>c, SttMoves DEF SttFinal, loopVars
  <2>5. CASE SttBegins(u)
    BY <2>5, <1>a, <1>b, <1>c, SttMoves DEF SttBegins, loopVars
  <2>6. CASE SttEmpty(u)
    BY <2>6, <1>a, <1>b, <1>c, SttMoves DEF SttEmpty, loopVars
  <2> QED
    BY <2>1, <2>2, <2>3, <2>4, <2>5, <2>6
<1>6. CASE Watchdog
  <2> SUFFICES ASSUME NEW u \in Utterances, DogLeaves(u) \/ DogTimesOut(u) \/ DogWaited(u) \/
      DogSettles(u) PROVE Standing'
    BY <1>6 DEF Watchdog
  <2>1. CASE DogLeaves(u)
    BY <2>1, <1>a, <1>b, <1>c, DogMoves DEF DogLeaves, loopVars
  <2>2. CASE DogTimesOut(u)
    BY <2>2, <1>a, <1>b, <1>c, DogMoves DEF DogTimesOut, loopVars
  <2>3. CASE DogWaited(u)
    BY <2>3, <1>a, <1>b, <1>c, DogMoves DEF DogWaited, loopVars
  <2>4. CASE DogSettles(u)
    BY <2>4, <1>a, <1>b, <1>c, DogMoves DEF DogSettles, loopVars
  <2> QED
    BY <2>1, <2>2, <2>3, <2>4
<1>7. CASE \E u \in Utterances : Endpoint(u)
  <2> SUFFICES ASSUME NEW u \in Utterances, Endpoint(u) PROVE Standing'
    BY <1>7
  <2>1. CASE Endpoint(u)
    BY <2>1, <1>a, <1>b, <1>c, SttMoves DEF Endpoint, loopVars
  <2> QED
    BY <2>1
<1>8. CASE \E t \in Turns : Producer(t)
  BY <1>8, <1>a, NobodyMoves DEF Producer, Reserve, ProducerRests, ThreadRests, Token, Complete,
      Cancelled, ModelFails, Return, LateCut, LateDiary, EndOfPipe, loopVars
<1>9. CASE \E t \in Turns : Worker(t)
  BY <1>9, <1>a, NobodyMoves DEF Worker, Speak, WorkerRests, ThreadRests, PipeEnds, Judge, Cut,
      WorkerDiary, Notify, Commit, Finish, loopVars
<1>10. CASE Callback
  BY <1>10, <1>a, NobodyMoves DEF Callback, loopVars
<1>11. CASE UNCHANGED vars
  BY <1>11, <1>a, NobodyMoves DEF vars, loopVars
<1> QED
  BY <1>1, <1>2, <1>3, <1>4, <1>5, <1>6, <1>7, <1>8, <1>9, <1>10, <1>11 DEF Next
\* What else the loop has.
LEMMA LoopTypesStep == ASSUME Types, [Next]_vars PROVE LoopTypes'
<1>a. Standing'
  BY StandingStep
<1>b. /\ goal \in Goals /\ victim \in [Speakers -> Nat] /\ hit \subseteq Coros /\ script \in Scripts
      /\ phase \in {"idle", "listening", "thinking", "speaking"} /\ closed \in BOOLEAN
      /\ active \in Nat /\ sttTask \in 0..MaxUtterances /\ dogTask \in 0..MaxUtterances
  BY DEF Types, LoopTypes, MicTypes, TurnTypes
<1>c. HitDog \subseteq Coros
  BY <1>b, Bounds, Coroutines DEF HitDog, Utterances
<1>d. sttTask # 0 => Stt(sttTask) \in Coros
  BY <1>b, Bounds, Coroutines DEF Utterances
<1>e. Goals = {"none", "speech", "stop", "drop", "close", "text", "barge", "end"}
  BY DEF Goals
<1>1. CASE User
  <2>1. CASE SpeechStart
    BY <2>1, <1>a, <1>b, <1>c, <1>d, <1>e, Coroutines DEF SpeechStart, Command, loopVars,
        LoopTypes
  <2>2. CASE Stop
    BY <2>2, <1>a, <1>b, <1>c, <1>d, <1>e, Coroutines DEF Stop, Command, loopVars, LoopTypes
  <2>3. CASE FeedFails
    BY <2>3, <1>a, <1>b, <1>c, <1>d, <1>e, Coroutines DEF FeedFails, loopVars, LoopTypes
  <2>4. CASE Close
    BY <2>4, <1>a, <1>b, <1>c, <1>d, <1>e, Coroutines DEF Close, Command, Interrupt, loopVars,
        LoopTypes
  <2>5. CASE Typed
    BY <2>5, <1>a, <1>b, <1>c, <1>d, <1>e, Coroutines DEF Typed, Command, loopVars, LoopTypes
  <2>6. CASE Barge
    BY <2>6, <1>a, <1>b, <1>c, <1>d, <1>e, Coroutines DEF Barge, Command, Interrupt, loopVars,
        LoopTypes
  <2>7. CASE SpeechEnd
    BY <2>7, <1>a, <1>b, <1>c, <1>d, <1>e, Coroutines DEF SpeechEnd, loopVars, LoopTypes
  <2>8. CASE ChatPreempts
    BY <2>8, <1>a, <1>b, <1>c, <1>d, <1>e, Coroutines DEF ChatPreempts, loopVars, LoopTypes
  <2> QED
    BY <1>1, <2>1, <2>2, <2>3, <2>4, <2>5, <2>6, <2>7, <2>8 DEF User
<1>2. CASE CommandSteps
  <2>1. CASE StopStt
    BY <2>1, <1>a, <1>b, <1>c, <1>d, <1>e, Coroutines DEF StopStt, loopVars, LoopTypes
  <2>2. CASE AwaitStt
    BY <2>2, <1>a, <1>b, <1>c, <1>d, <1>e, Coroutines DEF AwaitStt, loopVars, LoopTypes
  <2>3. CASE StopTurn
    BY <2>3, <1>a, <1>b, <1>c, <1>d, <1>e, Coroutines DEF StopTurn, Interrupt, loopVars, LoopTypes
  <2>4. CASE OpenMic
    BY <2>4, <1>a, <1>b, <1>c, <1>d, <1>e, Coroutines DEF OpenMic, Rest, loopVars, LoopTypes
  <2>5. CASE CommandDone
    BY <2>5, <1>a, <1>b, <1>c, <1>d, <1>e, Coroutines DEF CommandDone, Rest, loopVars, LoopTypes
  <2> QED
    BY <1>2, <2>1, <2>2, <2>3, <2>4, <2>5 DEF CommandSteps
<1>3. CASE CancelTurn
  <2> SUFFICES ASSUME NEW c \in Speakers, ClosePipe(c) \/ Notice(c) \/ CutHistory(c) \/
      CutDiary(c) PROVE LoopTypes'
    BY <1>3 DEF CancelTurn
  <2>1. CASE ClosePipe(c)
    BY <2>1, <1>a, <1>b, <1>c, <1>d, <1>e, Coroutines DEF ClosePipe, loopVars, LoopTypes
  <2>2. CASE Notice(c)
    BY <2>2, <1>a, <1>b, <1>c, <1>d, <1>e, Coroutines DEF Notice, loopVars, LoopTypes
  <2>3. CASE CutHistory(c)
    BY <2>3, <1>a, <1>b, <1>c, <1>d, <1>e, Coroutines DEF CutHistory, loopVars, LoopTypes
  <2>4. CASE CutDiary(c)
    BY <2>4, <1>a, <1>b, <1>c, <1>d, <1>e, Coroutines DEF CutDiary, loopVars, LoopTypes
  <2> QED
    BY <2>1, <2>2, <2>3, <2>4
<1>4. CASE Begin
  <2> SUFFICES ASSUME NEW c \in Speakers, BeginTurn(c) \/ JoinPrevious(c) \/ CreateTurn(c) \/
      StartTurn(c) PROVE LoopTypes'
    BY <1>4 DEF Begin
  <2>1. CASE BeginTurn(c)
    BY <2>1, <1>a, <1>b, <1>c, <1>d, <1>e, Coroutines DEF BeginTurn, Interrupt, loopVars,
        LoopTypes
  <2>2. CASE JoinPrevious(c)
    BY <2>2, <1>a, <1>b, <1>c, <1>d, <1>e, Coroutines DEF JoinPrevious, loopVars, LoopTypes
  <2>3. CASE CreateTurn(c)
    BY <2>3, <1>a, <1>b, <1>c, <1>d, <1>e, Coroutines DEF CreateTurn, loopVars, LoopTypes
  <2>4. CASE StartTurn(c)
    BY <2>4, <1>a, <1>b, <1>c, <1>d, <1>e, Coroutines DEF StartTurn, LeaveTurn, Rest, loopVars,
        LoopTypes
  <2> QED
    BY <2>1, <2>2, <2>3, <2>4
<1>5. CASE Transcription
  <2> SUFFICES ASSUME NEW u \in Utterances, SttEnds(u) \/ SttSettles(u) \/ SttDropped(u) \/
      SttFinal(u) \/ SttBegins(u) \/ SttEmpty(u) PROVE LoopTypes'
    BY <1>5 DEF Transcription
  <2>1. CASE SttEnds(u)
    BY <2>1, <1>a, <1>b, <1>c, <1>d, <1>e, Coroutines DEF SttEnds, loopVars, LoopTypes
  <2>2. CASE SttSettles(u)
    BY <2>2, <1>a, <1>b, <1>c, <1>d, <1>e, Coroutines DEF SttSettles, loopVars, LoopTypes
  <2>3. CASE SttDropped(u)
    BY <2>3, <1>a, <1>b, <1>c, <1>d, <1>e, Coroutines DEF SttDropped, loopVars, LoopTypes
  <2>4. CASE SttFinal(u)
    BY <2>4, <1>a, <1>b, <1>c, <1>d, <1>e, Coroutines DEF SttFinal, loopVars, LoopTypes
  <2>5. CASE SttBegins(u)
    BY <2>5, <1>a, <1>b, <1>c, <1>d, <1>e, Coroutines DEF SttBegins, loopVars, LoopTypes
  <2>6. CASE SttEmpty(u)
    BY <2>6, <1>a, <1>b, <1>c, <1>d, <1>e, Coroutines DEF SttEmpty, loopVars, LoopTypes
  <2> QED
    BY <2>1, <2>2, <2>3, <2>4, <2>5, <2>6
<1>6. CASE Watchdog
  <2> SUFFICES ASSUME NEW u \in Utterances, DogLeaves(u) \/ DogTimesOut(u) \/ DogWaited(u) \/
      DogSettles(u) PROVE LoopTypes'
    BY <1>6 DEF Watchdog
  <2>1. CASE DogLeaves(u)
    BY <2>1, <1>a, <1>b, <1>c, <1>d, <1>e, Coroutines DEF DogLeaves, DogRests, loopVars, LoopTypes
  <2>2. CASE DogTimesOut(u)
    BY <2>2, <1>a, <1>b, <1>c, <1>d, <1>e, Coroutines DEF DogTimesOut, DogRests, loopVars,
        LoopTypes
  <2>3. CASE DogWaited(u)
    BY <2>3, <1>a, <1>b, <1>c, <1>d, <1>e, Coroutines DEF DogWaited, DogRests, loopVars, LoopTypes
  <2>4. CASE DogSettles(u)
    BY <2>4, <1>a, <1>b, <1>c, <1>d, <1>e, Coroutines DEF DogSettles, DogRests, loopVars,
        LoopTypes
  <2> QED
    BY <2>1, <2>2, <2>3, <2>4
<1>7. CASE \E u \in Utterances : Endpoint(u)
  BY <1>7, <1>a, <1>b DEF Endpoint, loopVars, LoopTypes
<1>8. CASE \E t \in Turns : Producer(t)
  BY <1>8, <1>a, <1>b DEF Producer, Reserve, ProducerRests, ThreadRests, Token, Complete,
      Cancelled, ModelFails, Return, LateCut, LateDiary, EndOfPipe, loopVars, LoopTypes
<1>9. CASE \E t \in Turns : Worker(t)
  BY <1>9, <1>a, <1>b DEF Worker, Speak, WorkerRests, ThreadRests, PipeEnds, Judge, Cut,
      WorkerDiary, Notify, Commit, Finish, loopVars, LoopTypes
<1>10. CASE Callback
  BY <1>10, <1>a, <1>b DEF Callback, loopVars, LoopTypes
<1>11. CASE UNCHANGED vars
  BY <1>11, <1>a, <1>b DEF vars, loopVars, LoopTypes
<1> QED
  BY <1>1, <1>2, <1>3, <1>4, <1>5, <1>6, <1>7, <1>8, <1>9, <1>10, <1>11 DEF Next

\* The microphone and the tasks that hear it.
LEMMA MicTypesStep == ASSUME Types, [Next]_vars PROVE MicTypes'
<1>a. MicTypes /\ script \in Scripts
  BY DEF Types, LoopTypes
<1>b. /\ {mic, sttTask, dogTask, heardAll} \subseteq 0..MaxUtterances /\ valid \in [Utterances -> BOOLEAN]
      /\ (goal = "speech" => heardAll < script.utterances) /\ 0 \in 0..MaxUtterances
  BY <1>a, Bounds DEF MicTypes
<1>1. CASE User
  <2>1. CASE SpeechStart
    BY <2>1, <1>b DEF SpeechStart, Command, loopVars, micVars, MicTypes
  <2>2. CASE FeedFails
    BY <2>2, <1>b DEF FeedFails, loopVars, micVars, MicTypes
  <2>3. CASE SpeechEnd
    BY <2>3, <1>b DEF SpeechEnd, loopVars, micVars, MicTypes
  <2>4. CASE Stop \/ Close \/ Typed \/ Barge \/ ChatPreempts
    BY <2>4, <1>b DEF Stop, Command, Close, Interrupt, Typed, Barge, ChatPreempts, loopVars,
        micVars, MicTypes
  <2> QED
    BY <1>1, <2>1, <2>2, <2>3, <2>4 DEF User
<1>2. CASE CommandSteps
  <2>1. CASE OpenMic
    <3>1. heardAll + 1 \in 0..MaxUtterances
      BY <2>1, <1>a, <1>b, Bounds DEF OpenMic
    <3> QED
      BY <2>1, <3>1, <1>b DEF OpenMic, Rest, MicTypes
  <2>2. CASE StopStt
    BY <2>2, <1>b DEF StopStt, Unwatch, loopVars, micVars, MicTypes
  <2>3. CASE CommandDone
    BY <2>3, <1>b DEF CommandDone, Rest, loopVars, micVars, MicTypes
  <2>4. CASE AwaitStt \/ StopTurn
    BY <2>4, <1>b DEF AwaitStt, StopTurn, Interrupt, loopVars, micVars, MicTypes
  <2> QED
    BY <1>2, <2>1, <2>2, <2>3, <2>4 DEF CommandSteps
<1>3. CASE CancelTurn
  BY <1>3, <1>b DEF CancelTurn, ClosePipe, Notice, CutHistory, CutDiary, loopVars, micVars,
      MicTypes
<1>4. CASE Begin
  <2> SUFFICES ASSUME NEW c \in Speakers, BeginTurn(c) \/ JoinPrevious(c) \/ CreateTurn(c) \/
      StartTurn(c) PROVE MicTypes'
    BY <1>4 DEF Begin
  <2>1. CASE StartTurn(c)
    BY <2>1, <1>b DEF StartTurn, LeaveTurn, Rest, loopVars, micVars, MicTypes
  <2>2. CASE BeginTurn(c) \/ JoinPrevious(c) \/ CreateTurn(c)
    BY <2>2, <1>b DEF BeginTurn, Interrupt, JoinPrevious, CreateTurn, loopVars, micVars, MicTypes
  <2> QED
    BY <2>1, <2>2
<1>5. CASE Transcription
  <2> SUFFICES ASSUME NEW u \in Utterances, SttEnds(u) \/ SttSettles(u) \/ SttDropped(u) \/
      SttFinal(u) \/ SttBegins(u) \/ SttEmpty(u) PROVE MicTypes'
    BY <1>5 DEF Transcription
  <2>1. CASE SttSettles(u)
    BY <2>1, <1>b DEF SttSettles, Unwatch, loopVars, micVars, MicTypes
  <2>2. CASE SttEnds(u) \/ SttDropped(u) \/ SttFinal(u) \/ SttBegins(u) \/ SttEmpty(u)
    BY <2>2, <1>b DEF SttEnds, SttDropped, SttFinal, SttBegins, SttEmpty, loopVars, micVars,
        MicTypes
  <2> QED
    BY <2>1, <2>2
<1>6. CASE Watchdog
  <2> SUFFICES ASSUME NEW u \in Utterances, DogLeaves(u) \/ DogTimesOut(u) \/ DogWaited(u) \/
      DogSettles(u) PROVE MicTypes'
    BY <1>6 DEF Watchdog
  <2>1. CASE DogLeaves(u)
    BY <2>1, <1>b DEF DogLeaves, DogRests, Forget, loopVars, micVars, MicTypes
  <2>2. CASE DogTimesOut(u)
    BY <2>2, <1>b DEF DogTimesOut, DogRests, Forget, loopVars, micVars, MicTypes
  <2>3. CASE DogWaited(u)
    BY <2>3, <1>b DEF DogWaited, DogRests, loopVars, micVars, MicTypes
  <2>4. CASE DogSettles(u)
    BY <2>4, <1>b DEF DogSettles, DogRests, Forget, loopVars, micVars, MicTypes
  <2> QED
    BY <2>1, <2>2, <2>3, <2>4
<1>7. CASE \E u \in Utterances : Endpoint(u)
  <2> SUFFICES ASSUME NEW u \in Utterances, Endpoint(u) PROVE MicTypes'
    BY <1>7
  <2>1. CASE Endpoint(u)
    BY <2>1, <1>b DEF Endpoint, loopVars, micVars, MicTypes
  <2> QED
    BY <2>1
<1>8. CASE \E t \in Turns : Producer(t)
  BY <1>8, <1>b DEF Producer, Reserve, ProducerRests, ThreadRests, Token, Complete, Cancelled,
      ModelFails, Return, LateCut, LateDiary, EndOfPipe, loopVars, micVars, MicTypes
<1>9. CASE \E t \in Turns : Worker(t)
  BY <1>9, <1>b DEF Worker, Speak, WorkerRests, ThreadRests, PipeEnds, Judge, Cut, WorkerDiary,
      Notify, Commit, Finish, loopVars, micVars, MicTypes
<1>10. CASE Callback
  BY <1>10, <1>b DEF Callback, loopVars, micVars, MicTypes
<1>11. CASE UNCHANGED vars
  BY <1>11, <1>b DEF vars, loopVars, micVars, MicTypes
<1> QED
  BY <1>1, <1>2, <1>3, <1>4, <1>5, <1>6, <1>7, <1>8, <1>9, <1>10, <1>11 DEF Next

\* The locks.
LEMMA LockTypesStep == ASSUME Types, [Next]_vars PROVE LockTypes'
<1>a. LockTypes /\ Nobody \in Speakers \union {Nobody}
  BY DEF Types
<1>1. CASE User
  BY <1>1, <1>a DEF User, SpeechStart, Command, Stop, FeedFails, Close, Typed, Barge, SpeechEnd,
      ChatPreempts, micVars, turnVars, LockTypes
<1>2. CASE CommandSteps
  BY <1>2, <1>a DEF CommandSteps, StopStt, AwaitStt, StopTurn, OpenMic, CommandDone, micVars,
      turnVars, LockTypes
<1>3. CASE CancelTurn
  BY <1>3, <1>a DEF CancelTurn, ClosePipe, Notice, CutHistory, CutDiary, micVars, turnVars,
      LockTypes
<1>4. CASE Begin
  <2> SUFFICES ASSUME NEW c \in Speakers, BeginTurn(c) \/ JoinPrevious(c) \/ CreateTurn(c) \/
      StartTurn(c) PROVE LockTypes'
    BY <1>4 DEF Begin
  <2>1. CASE BeginTurn(c)
    BY <2>1, <1>a, Coroutines DEF BeginTurn, micVars, turnVars, LockTypes
  <2>2. CASE StartTurn(c)
    BY <2>2, <1>a, Coroutines DEF StartTurn, LeaveTurn, Release, micVars, turnVars, LockTypes
  <2>3. CASE JoinPrevious(c) \/ CreateTurn(c)
    BY <2>3, <1>a DEF JoinPrevious, CreateTurn, micVars, turnVars, LockTypes
  <2> QED
    BY <2>1, <2>2, <2>3
<1>5. CASE Transcription
  <2> SUFFICES ASSUME NEW u \in Utterances, SttEnds(u) \/ SttSettles(u) \/ SttDropped(u) \/
      SttFinal(u) \/ SttBegins(u) \/ SttEmpty(u) PROVE LockTypes'
    BY <1>5 DEF Transcription
  <2>1. CASE SttFinal(u)
    BY <2>1, <1>a, Coroutines DEF SttFinal, micVars, turnVars, LockTypes
  <2>2. CASE SttBegins(u)
    BY <2>2, <1>a, Coroutines DEF SttBegins, micVars, turnVars, LockTypes
  <2>3. CASE SttEnds(u) \/ SttSettles(u) \/ SttDropped(u) \/ SttEmpty(u)
    BY <2>3, <1>a DEF SttEnds, SttSettles, SttDropped, SttEmpty, micVars, turnVars, LockTypes
  <2> QED
    BY <2>1, <2>2, <2>3
<1>6. CASE Watchdog
  BY <1>6, <1>a DEF Watchdog, DogLeaves, DogRests, DogTimesOut, DogWaited, DogSettles, micVars,
      turnVars, LockTypes
<1>7. CASE \E u \in Utterances : Endpoint(u)
  BY <1>7, <1>a DEF Endpoint, micVars, turnVars, LockTypes
<1>8. CASE \E t \in Turns : Producer(t)
  BY <1>8, <1>a DEF Producer, Reserve, ProducerRests, ThreadRests, Token, Complete, Cancelled,
      ModelFails, Return, LateCut, LateDiary, EndOfPipe, micVars, turnVars, LockTypes
<1>9. CASE \E t \in Turns : Worker(t)
  BY <1>9, <1>a DEF Worker, Speak, WorkerRests, ThreadRests, PipeEnds, Judge, Cut, WorkerDiary,
      Notify, Commit, Finish, micVars, turnVars, LockTypes
<1>10. CASE Callback
  BY <1>10, <1>a DEF Callback, micVars, turnVars, LockTypes
<1>11. CASE UNCHANGED vars
  BY <1>11, <1>a DEF vars, micVars, turnVars, LockTypes
<1> QED
  BY <1>1, <1>2, <1>3, <1>4, <1>5, <1>6, <1>7, <1>8, <1>9, <1>10, <1>11 DEF Next
\* A function keeps its type when one value is replaced, in its domain or not.
LEMMA Excepts ==
    ASSUME NEW S, NEW T, NEW f \in [S -> T], NEW x, NEW y, x \in S => y \in T
    PROVE [f EXCEPT ![x] = y] \in [S -> T]
OBVIOUS

\* The turns and their threads.
LEMMA TurnTypesStep == ASSUME Types, [Next]_vars PROVE TurnTypes'
<1>a. TurnTypes /\ PipeCap \in Nat /\ PipeCap > 0
  BY Bounds DEF Types
<1>b. /\ Workings = {"new", "speak", "play", "cut", "cutdiary", "notify", "commit", "finish", "done"}
      /\ Producings = {"new", "reserve", "generate", "return", "finally", "latediary", "close", "done"}
  BY DEF Workings, Producings
<1>c. \A t \in Turns : t \in 0..MaxTurns /\ 0 \in 0..MaxTurns
  BY Bounds DEF Turns
<1>1. CASE User
  <2>1. CASE Close
    BY <2>1, <1>a, <1>b, <1>c DEF Close, Command, Interrupt, turnVars, threadVars, brainVars,
        outVars, TurnTypes
  <2>2. CASE Barge
    BY <2>2, <1>a, <1>b, <1>c DEF Barge, Command, Interrupt, turnVars, threadVars, brainVars,
        outVars, TurnTypes
  <2>3. CASE ChatPreempts
    <3>1. cancel' \in [Turns -> BOOLEAN] /\ foreground' \in 0..MaxTurns
      BY <2>3, Bounds, Excepts, <1>a DEF ChatPreempts, TurnTypes
    <3> QED
      BY <3>1, <2>3, <1>a DEF ChatPreempts, TurnTypes, turnVars, threadVars, brainVars, outVars
  <2>4. CASE SpeechStart \/ Stop \/ FeedFails \/ Typed \/ SpeechEnd
    BY <2>4, <1>a DEF SpeechStart, Command, Stop, FeedFails, Typed, SpeechEnd, turnVars,
        threadVars, brainVars, outVars, TurnTypes
  <2> QED
    BY <1>1, <2>1, <2>2, <2>3, <2>4 DEF User
<1>2. CASE CommandSteps
  <2>1. CASE StopTurn
    BY <2>1, <1>a, <1>b, <1>c DEF StopTurn, Interrupt, turnVars, threadVars, brainVars, outVars,
        TurnTypes
  <2>2. CASE StopStt \/ AwaitStt \/ OpenMic \/ CommandDone
    BY <2>2, <1>a DEF StopStt, AwaitStt, OpenMic, Rest, CommandDone, turnVars, threadVars,
        brainVars, outVars, TurnTypes
  <2> QED
    BY <1>2, <2>1, <2>2 DEF CommandSteps
<1>3. CASE CancelTurn
  <2> SUFFICES ASSUME NEW c \in Speakers, ClosePipe(c) \/ Notice(c) \/ CutHistory(c) \/
      CutDiary(c) PROVE TurnTypes'
    BY <1>3 DEF CancelTurn
  <2>1. CASE Notice(c)
    BY <2>1, <1>a, <1>b, <1>c DEF Notice, turnVars, threadVars, brainVars, outVars, TurnTypes
  <2>2. CASE CutDiary(c)
    BY <2>2, <1>a, <1>b, <1>c DEF CutDiary, ClaimDiary, turnVars, threadVars, brainVars, outVars,
        TurnTypes
  <2>3. CASE ClosePipe(c)
    <3>1. eof' \in [Turns -> BOOLEAN] /\ tokens' \in [Turns -> Nat]
      <4>1. PICK v : Sentinel(v)
        BY <2>3 DEF ClosePipe
      <4> QED
        BY <4>1, Excepts, <1>a DEF Sentinel, TurnTypes
    <3>2. prod' \in [Turns -> Producings]
      BY <2>3, <1>a, <1>b DEF ClosePipe, Produces, TurnTypes
    <3> QED
      BY <3>1, <3>2, <2>3, <1>a DEF ClosePipe, ProducerRests, ThreadRests, TurnTypes, turnVars,
          brainVars, outVars
  <2>4. CASE CutHistory(c)
    <3>1. slot' \in [Turns -> {"none", "pending", "full", "heard", "failed"}]
      <4>1. UNCHANGED slot \/ Truncate(victim[c])
        BY <2>4 DEF CutHistory
      <4> QED
        BY <4>1, Excepts, <1>a DEF Truncate, TurnTypes
    <3> QED
      BY <3>1, <2>4, <1>a DEF CutHistory, TurnTypes, turnVars, threadVars, outVars
  <2> QED
    BY <2>1, <2>2, <2>3, <2>4
<1>4. CASE Begin
  <2> SUFFICES ASSUME NEW c \in Speakers, BeginTurn(c) \/ JoinPrevious(c) \/ CreateTurn(c) \/
      StartTurn(c) PROVE TurnTypes'
    BY <1>4 DEF Begin
  <2>1. CASE BeginTurn(c)
    BY <2>1, <1>a, <1>b, <1>c DEF BeginTurn, Interrupt, turnVars, threadVars, brainVars, outVars,
        TurnTypes
  <2>2. CASE CreateTurn(c)
    BY <2>2, <1>a, <1>b, <1>c DEF CreateTurn, turnVars, threadVars, brainVars, outVars, TurnTypes
  <2>3. CASE StartTurn(c)
    BY <2>3, <1>a, <1>b, <1>c DEF StartTurn, LeaveTurn, Rest, turnVars, threadVars, brainVars,
        outVars, TurnTypes
  <2>4. CASE JoinPrevious(c)
    BY <2>4, <1>a DEF JoinPrevious, turnVars, threadVars, brainVars, outVars, TurnTypes
  <2> QED
    BY <2>1, <2>2, <2>3, <2>4
<1>5. CASE Transcription
  BY <1>5, <1>a DEF Transcription, SttEnds, SttSettles, SttDropped, SttFinal, SttBegins, SttEmpty,
      turnVars, threadVars, brainVars, outVars, TurnTypes
<1>6. CASE Watchdog
  BY <1>6, <1>a DEF Watchdog, DogLeaves, DogRests, DogTimesOut, DogWaited, DogSettles, turnVars,
      threadVars, brainVars, outVars, TurnTypes
<1>7. CASE \E u \in Utterances : Endpoint(u)
  BY <1>7, <1>a DEF Endpoint, turnVars, threadVars, brainVars, outVars, TurnTypes
<1>8. CASE \E t \in Turns : Producer(t)
  <2> SUFFICES ASSUME NEW t \in Turns, Reserve(t) \/ Token(t) \/ Complete(t) \/ Cancelled(t) \/
      ModelFails(t) \/ Return(t) \/ LateCut(t) \/ LateDiary(t) \/ EndOfPipe(t) PROVE TurnTypes'
    BY <1>8 DEF Producer
  <2>1. CASE Reserve(t)
    BY <2>1, <1>a, <1>b, <1>c DEF Reserve, Produces, Claim, ProducerRests, ThreadRests, turnVars,
        threadVars, brainVars, outVars, TurnTypes
  <2>2. CASE Complete(t)
    BY <2>2, <1>a, <1>b, <1>c DEF Complete, Produces, Leaves, ProducerRests, ThreadRests,
        turnVars, threadVars, brainVars, outVars, TurnTypes
  <2>3. CASE Cancelled(t)
    BY <2>3, <1>a, <1>b, <1>c DEF Cancelled, Produces, Leaves, ProducerRests, ThreadRests,
        turnVars, threadVars, brainVars, outVars, TurnTypes
  <2>4. CASE ModelFails(t)
    BY <2>4, <1>a, <1>b, <1>c DEF ModelFails, Produces, Leaves, ProducerRests, ThreadRests,
        turnVars, threadVars, brainVars, outVars, TurnTypes
  <2>5. CASE Return(t)
    BY <2>5, <1>a, <1>b, <1>c DEF Return, Produces, ProducerRests, ThreadRests, turnVars,
        threadVars, brainVars, outVars, TurnTypes
  <2>6. CASE LateCut(t)
    BY <2>6, <1>a, <1>b, <1>c DEF LateCut, Truncate, ProducerRests, ThreadRests, turnVars,
        threadVars, brainVars, outVars, TurnTypes
  <2>7. CASE LateDiary(t)
    BY <2>7, <1>a, <1>b, <1>c DEF LateDiary, Produces, ClaimDiary, ProducerRests, ThreadRests,
        turnVars, threadVars, brainVars, outVars, TurnTypes
  <2>8. CASE EndOfPipe(t)
    <3>1. eof' \in [Turns -> BOOLEAN] /\ tokens' \in [Turns -> Nat]
      <4>1. PICK v : Sentinel(v)
        BY <2>8 DEF EndOfPipe
      <4> QED
        BY <4>1, Excepts, <1>a DEF Sentinel, TurnTypes
    <3>2. prod' \in [Turns -> Producings]
      BY <2>8, <1>a, <1>b DEF EndOfPipe, Produces, TurnTypes
    <3> QED
      BY <3>1, <3>2, <2>8, <1>a DEF EndOfPipe, ProducerRests, ThreadRests, TurnTypes, turnVars,
          brainVars, outVars
  <2>9. CASE Token(t)
    <3>1. tokens' \in [Turns -> Nat] /\ spent' \in [Turns -> 0..MaxTokens]
      BY <2>9, Bounds, <1>a DEF Token, TurnTypes
    <3> QED
      BY <3>1, <2>9, <1>a, <1>b DEF Token, Produces, ProducerRests, ThreadRests, TurnTypes,
          turnVars, brainVars
  <2> QED
    BY <2>1, <2>2, <2>3, <2>4, <2>5, <2>6, <2>7, <2>8, <2>9
<1>9. CASE \E t \in Turns : Worker(t)
  <2> SUFFICES ASSUME NEW t \in Turns, Speak(t) \/ PipeEnds(t) \/ Judge(t) \/ Cut(t) \/
      WorkerDiary(t) \/ Notify(t) \/ Commit(t) \/ Finish(t) PROVE TurnTypes'
    BY <1>9 DEF Worker
  <2>1. CASE PipeEnds(t)
    BY <2>1, <1>a, <1>b, <1>c DEF PipeEnds, Works, WorkerRests, ThreadRests, turnVars, threadVars,
        brainVars, outVars, TurnTypes
  <2>2. CASE Judge(t)
    BY <2>2, <1>a, <1>b, <1>c DEF Judge, WorkerRests, ThreadRests, turnVars, threadVars,
        brainVars, outVars, TurnTypes
  <2>3. CASE Cut(t)
    BY <2>3, <1>a, <1>b, <1>c DEF Cut, Truncate, ThreadRests, turnVars, threadVars, brainVars,
        outVars, TurnTypes
  <2>4. CASE WorkerDiary(t)
    BY <2>4, <1>a, <1>b, <1>c DEF WorkerDiary, Works, ClaimDiary, WorkerRests, ThreadRests,
        turnVars, threadVars, brainVars, outVars, TurnTypes
  <2>5. CASE Commit(t)
    BY <2>5, <1>a, <1>b, <1>c DEF Commit, Works, ClaimDiary, WorkerRests, ThreadRests, turnVars,
        threadVars, brainVars, outVars, TurnTypes
  <2>6. CASE Speak(t)
    <3>1. ready' \in Seq({"speech", "idle", "interrupted"} \X Turns)
      <4>1. ready \in Seq({"speech", "idle", "interrupted"} \X Turns)
        BY <1>a DEF TurnTypes
      <4>2. UNCHANGED ready \/ ready' = ready \o << <<"speech", t>> >>
        BY <2>6 DEF Speak, Schedule
      <4> QED
        BY <4>1, <4>2
    <3>2. tokens' \in [Turns -> Nat]
      BY <2>6, <1>a DEF Speak, TurnTypes
    <3> QED
      BY <3>1, <3>2, <2>6, <1>a, <1>b DEF Speak, Works, WorkerRests, ThreadRests, TurnTypes, turnVars
  <2>7. CASE Notify(t)
    <3>1. ready' \in Seq({"speech", "idle", "interrupted"} \X Turns)
      BY <2>7, <1>a DEF Notify, Schedule, TurnTypes
    <3> QED
      BY <3>1, <2>7, <1>a, <1>b DEF Notify, Works, WorkerRests, ThreadRests, TurnTypes, turnVars
  <2>8. CASE Finish(t)
    <3>1. ready' \in Seq({"speech", "idle", "interrupted"} \X Turns)
      BY <2>8, <1>a DEF Finish, Schedule, TurnTypes
    <3> QED
      BY <3>1, <2>8, <1>a, <1>b DEF Finish, Works, WorkerRests, ThreadRests, TurnTypes, turnVars
  <2> QED
    BY <2>1, <2>2, <2>3, <2>4, <2>5, <2>6, <2>7, <2>8
<1>10. CASE Callback
  <2>1. ready' \in Seq({"speech", "idle", "interrupted"} \X Turns)
    BY <1>10, <1>a DEF Callback, TurnTypes
  <2>2. told' \in [Turns -> BOOLEAN]
    <3> DEFINE t == Head(ready)[2]
               b == told[t] \/ (Head(ready)[1] = "interrupted" /\ ~closed)
    <3>1. told' = [told EXCEPT ![t] = b]
      BY <1>10 DEF Callback
    <3>2. b \in BOOLEAN
      OBVIOUS
    <3> HIDE DEF t, b
    <3> QED
      BY <3>1, <3>2, Excepts, <1>a DEF TurnTypes
  <2> QED
    BY <2>1, <2>2, <1>10, <1>a DEF Callback, TurnTypes, turnVars, threadVars, brainVars
<1>11. CASE UNCHANGED vars
  BY <1>11, <1>a DEF vars, turnVars, threadVars, brainVars, outVars, TurnTypes
<1> QED
  BY <1>1, <1>2, <1>3, <1>4, <1>5, <1>6, <1>7, <1>8, <1>9, <1>10, <1>11 DEF Next
-----------------------------------------------------------------------------
(***************************************************************************)
(* What the coroutines hold.                                               *)
(***************************************************************************)
LEMMA LocksInit == Init => LockInv
BY Coroutines DEF Init, LockInv, Holds, Cancelling, Starting, Coros

\* Every step of those who hold a lock leaves it to them, and only the holder gives it back.
LEMMA LocksStep == ASSUME Types, LockInv, [Next]_vars PROVE LockInv'
<1>a. pc \in [Coros -> Places] /\ valid \in [Utterances -> BOOLEAN] /\ LockInv
      /\ heardAll \in Nat /\ Utterances \subseteq Nat
  BY Bounds DEF Utterances, Types, LoopTypes, MicTypes, Standing
<1>1. CASE User
  <2>1. CASE SpeechStart
    BY <2>1, <1>a, Coroutines DEF SpeechStart, Command, loopVars, micVars, turnVars, LockInv,
        Holds, Cancelling, Starting, Goto, At
  <2>2. CASE Stop
    BY <2>2, <1>a, Coroutines DEF Stop, Command, loopVars, micVars, turnVars, LockInv, Holds,
        Cancelling, Starting, Goto, At
  <2>3. CASE FeedFails
    BY <2>3, <1>a, Coroutines DEF FeedFails, loopVars, micVars, turnVars, LockInv, Holds,
        Cancelling, Starting, Goto, At
  <2>4. CASE Close
    BY <2>4, <1>a, Coroutines DEF Close, Command, Interrupt, loopVars, micVars, turnVars, LockInv,
        Holds, Cancelling, Starting, Goto, At
  <2>5. CASE Typed
    BY <2>5, <1>a, Coroutines DEF Typed, Command, loopVars, micVars, turnVars, LockInv, Holds,
        Cancelling, Starting, Goto, At
  <2>6. CASE Barge
    BY <2>6, <1>a, Coroutines DEF Barge, Command, Interrupt, loopVars, micVars, turnVars, LockInv,
        Holds, Cancelling, Starting, Goto, At
  <2>7. CASE SpeechEnd
    <3>1. sttTask # 0 => sttTask \in Utterances
      BY DEF Types, MicTypes, Utterances
    <3>2. UNCHANGED <<goal, valid, commitLock, turnLock, heardAll>>
      BY <2>7 DEF SpeechEnd, turnVars
    <3>3. UNCHANGED pc \/ (sttTask # 0 /\ pc' = [pc EXCEPT ![Dog(sttTask)] = "watch"])
      BY <2>7 DEF SpeechEnd
    <3>4. ASSUME NEW c \in Speakers PROVE pc'[c] = pc[c]
      <4>1. c \in Coros /\ (sttTask # 0 => Dog(sttTask) # c)
        BY <3>1, Coroutines
      <4> QED
        BY <4>1, <3>3, <1>a
    <3> QED
      BY <3>2, <3>4, <1>a, Coroutines DEF LockInv, Holds
  <2>8. CASE ChatPreempts
    BY <2>8, <1>a DEF ChatPreempts, loopVars, micVars, turnVars, LockInv, Holds
  <2> QED
    BY <1>1, <2>1, <2>2, <2>3, <2>4, <2>5, <2>6, <2>7, <2>8 DEF User
<1>2. CASE CommandSteps
  <2>1. CASE StopStt
    BY <2>1, <1>a, Coroutines DEF StopStt, loopVars, micVars, turnVars, Free, LockInv, Holds,
        Cancelling, Starting, Goto, At
  <2>2. CASE AwaitStt
    BY <2>2, <1>a, Coroutines DEF AwaitStt, loopVars, micVars, turnVars, LockInv, Holds,
        Cancelling, Starting, Goto, At
  <2>3. CASE StopTurn
    BY <2>3, <1>a, Coroutines DEF StopTurn, Interrupt, loopVars, micVars, turnVars, LockInv,
        Holds, Cancelling, Starting, Goto, At
  <2>4. CASE CommandDone
    BY <2>4, <1>a, Coroutines DEF CommandDone, Rest, loopVars, micVars, turnVars, LockInv, Holds,
        Cancelling, Starting, Goto, At
  <2>5. CASE OpenMic
    <3>1. heardAll + 1 \in Utterances
      BY <2>5, Bounds DEF OpenMic, Types, MicTypes, LoopTypes, Utterances
    <3> QED
      BY <3>1, <2>5, <1>a, Coroutines DEF OpenMic, Rest, turnVars, LockInv, Holds, Cancelling, Starting
  <2> QED
    BY <1>2, <2>1, <2>2, <2>3, <2>4, <2>5 DEF CommandSteps
<1>3. CASE CancelTurn
  <2> SUFFICES ASSUME NEW c \in Speakers, ClosePipe(c) \/ Notice(c) \/ CutHistory(c) \/
      CutDiary(c) PROVE LockInv'
    BY <1>3 DEF CancelTurn
  <2>1. CASE ClosePipe(c)
    BY <2>1, <1>a, Coroutines DEF ClosePipe, loopVars, micVars, turnVars, AfterCancel, LockInv,
        Holds, Cancelling, Starting, Goto, At
  <2>2. CASE Notice(c)
    BY <2>2, <1>a, Coroutines DEF Notice, loopVars, micVars, turnVars, LockInv, Holds, Cancelling,
        Starting, Goto, At
  <2>3. CASE CutHistory(c)
    BY <2>3, <1>a, Coroutines DEF CutHistory, loopVars, micVars, turnVars, AfterCancel, LockInv,
        Holds, Cancelling, Starting, Goto, At
  <2>4. CASE CutDiary(c)
    BY <2>4, <1>a, Coroutines DEF CutDiary, loopVars, micVars, turnVars, AfterCancel, LockInv,
        Holds, Cancelling, Starting, Goto, At
  <2> QED
    BY <2>1, <2>2, <2>3, <2>4
<1>4. CASE Begin
  <2> SUFFICES ASSUME NEW c \in Speakers, BeginTurn(c) \/ JoinPrevious(c) \/ CreateTurn(c) \/
      StartTurn(c) PROVE LockInv'
    BY <1>4 DEF Begin
  <2>1. CASE BeginTurn(c)
    BY <2>1, <1>a, Coroutines DEF BeginTurn, Interrupt, loopVars, micVars, turnVars, Free,
        LockInv, Holds, Cancelling, Starting, Goto, At
  <2>2. CASE JoinPrevious(c)
    BY <2>2, <1>a, Coroutines DEF JoinPrevious, loopVars, micVars, turnVars, LockInv, Holds,
        Cancelling, Starting, Goto, At
  <2>3. CASE CreateTurn(c)
    BY <2>3, <1>a, Coroutines DEF CreateTurn, loopVars, micVars, turnVars, LockInv, Holds,
        Cancelling, Starting, Goto, At
  <2>4. CASE StartTurn(c)
    BY <2>4, <1>a, Coroutines DEF StartTurn, LeaveTurn, Rest, Release, loopVars, micVars,
        turnVars, LockInv, Holds, Cancelling, Starting, Goto, At
  <2> QED
    BY <2>1, <2>2, <2>3, <2>4
<1>5. CASE Transcription
  <2> SUFFICES ASSUME NEW u \in Utterances, SttEnds(u) \/ SttSettles(u) \/ SttDropped(u) \/
      SttFinal(u) \/ SttBegins(u) \/ SttEmpty(u) PROVE LockInv'
    BY <1>5 DEF Transcription
  <2>1. CASE SttEnds(u)
    BY <2>1, <1>a, Coroutines DEF SttEnds, loopVars, micVars, turnVars, LockInv, Holds,
        Cancelling, Starting, Goto, At
  <2>2. CASE SttSettles(u)
    BY <2>2, <1>a, Coroutines DEF SttSettles, loopVars, micVars, turnVars, LockInv, Holds,
        Cancelling, Starting, Goto, At
  <2>3. CASE SttDropped(u)
    BY <2>3, <1>a, Coroutines DEF SttDropped, loopVars, micVars, turnVars, LockInv, Holds,
        Cancelling, Starting, Goto, At
  <2>4. CASE SttFinal(u)
    BY <2>4, <1>a, Coroutines DEF SttFinal, loopVars, micVars, turnVars, Free, LockInv, Holds,
        Cancelling, Starting, Goto, At
  <2>5. CASE SttBegins(u)
    BY <2>5, <1>a, Coroutines DEF SttBegins, loopVars, micVars, turnVars, LockInv, Holds,
        Cancelling, Starting, Goto, At
  <2>6. CASE SttEmpty(u)
    BY <2>6, <1>a, Coroutines DEF SttEmpty, loopVars, micVars, turnVars, LockInv, Holds,
        Cancelling, Starting, Goto, At
  <2> QED
    BY <2>1, <2>2, <2>3, <2>4, <2>5, <2>6
<1>6. CASE Watchdog
  <2> SUFFICES ASSUME NEW u \in Utterances, DogLeaves(u) \/ DogTimesOut(u) \/ DogWaited(u) \/
      DogSettles(u) PROVE LockInv'
    BY <1>6 DEF Watchdog
  <2>1. CASE DogLeaves(u)
    BY <2>1, <1>a, Coroutines DEF DogLeaves, DogRests, loopVars, micVars, turnVars, LockInv,
        Holds, Cancelling, Starting, Goto, At
  <2>2. CASE DogTimesOut(u)
    BY <2>2, <1>a, Coroutines DEF DogTimesOut, DogRests, loopVars, micVars, turnVars, LockInv,
        Holds, Cancelling, Starting, Goto, At
  <2>3. CASE DogWaited(u)
    BY <2>3, <1>a, Coroutines DEF DogWaited, DogRests, loopVars, micVars, turnVars, LockInv,
        Holds, Cancelling, Starting, Goto, At
  <2>4. CASE DogSettles(u)
    BY <2>4, <1>a, Coroutines DEF DogSettles, DogRests, loopVars, micVars, turnVars, LockInv,
        Holds, Cancelling, Starting, Goto, At
  <2> QED
    BY <2>1, <2>2, <2>3, <2>4
<1>7. CASE \E u \in Utterances : Endpoint(u)
  <2> SUFFICES ASSUME NEW u \in Utterances, Endpoint(u) PROVE LockInv'
    BY <1>7
  <2>1. CASE Endpoint(u)
    BY <2>1, <1>a, Coroutines DEF Endpoint, loopVars, micVars, turnVars, LockInv, Holds,
        Cancelling, Starting, Goto, At
  <2> QED
    BY <2>1
<1>8. CASE \E t \in Turns : Producer(t)
  BY <1>8, <1>a DEF Producer, Reserve, ProducerRests, ThreadRests, Token, Complete, Cancelled,
      ModelFails, Return, LateCut, LateDiary, EndOfPipe, loopVars, micVars, turnVars, LockInv,
      Holds
<1>9. CASE \E t \in Turns : Worker(t)
  BY <1>9, <1>a DEF Worker, Speak, WorkerRests, ThreadRests, PipeEnds, Judge, Cut, WorkerDiary,
      Notify, Commit, Finish, loopVars, micVars, turnVars, LockInv, Holds
<1>10. CASE Callback
  BY <1>10, <1>a DEF Callback, loopVars, micVars, turnVars, LockInv, Holds
<1>11. CASE UNCHANGED vars
  BY <1>11, <1>a DEF vars, loopVars, micVars, turnVars, LockInv, Holds
<1> QED
  BY <1>1, <1>2, <1>3, <1>4, <1>5, <1>6, <1>7, <1>8, <1>9, <1>10, <1>11 DEF Next
-----------------------------------------------------------------------------
(***************************************************************************)
(* A turn is started once.                                                 *)
(***************************************************************************)
LEMMA FreshInit == Init => FreshInv
BY Coroutines DEF Init, FreshInv, Coros

\* Threads of a turn that runs are those of a turn that was created and started.
LEMMA FreshStep == ASSUME Types, LockInv, FreshInv, [Next]_vars PROVE FreshInv'
<1>a. /\ pc \in [Coros -> Places] /\ active \in Nat /\ turns \in Nat /\ Turns = 1..MaxTurns /\ MaxTurns \in Nat
      /\ work \in [Turns -> Workings] /\ prod \in [Turns -> Producings]
  BY Bounds DEF Types, LoopTypes, Standing, TurnTypes, Turns
<1>b. FreshInv
  OBVIOUS
<1>c. \A c, d \in Speakers : pc[c] \in {"join", "create", "start"} /\ pc[d] = "start" => c = d
  BY DEF LockInv, Holds
<1>1. CASE User
  <2>1. CASE SpeechStart
    BY <2>1, <1>a, <1>b, Coroutines DEF SpeechStart, Command, loopVars, turnVars, threadVars,
        FreshInv, Goto, At
  <2>2. CASE Stop
    BY <2>2, <1>a, <1>b, Coroutines DEF Stop, Command, loopVars, turnVars, threadVars, FreshInv,
        Goto, At
  <2>3. CASE FeedFails
    BY <2>3, <1>a, <1>b, Coroutines DEF FeedFails, loopVars, turnVars, threadVars, FreshInv, Goto,
        At
  <2>4. CASE Close
    BY <2>4, <1>a, <1>b, Coroutines DEF Close, Command, Interrupt, loopVars, turnVars, threadVars,
        FreshInv, Goto, At
  <2>5. CASE Typed
    BY <2>5, <1>a, <1>b, Coroutines DEF Typed, Command, loopVars, turnVars, threadVars, FreshInv,
        Goto, At
  <2>6. CASE Barge
    BY <2>6, <1>a, <1>b, Coroutines DEF Barge, Command, Interrupt, loopVars, turnVars, threadVars,
        FreshInv, Goto, At
  <2>7. CASE SpeechEnd
    <3>1. sttTask # 0 => sttTask \in Utterances
      BY DEF Types, MicTypes, Utterances
    <3> QED
      BY <3>1, <2>7, <1>a, <1>b, Coroutines DEF SpeechEnd, turnVars, threadVars, FreshInv
  <2>8. CASE ChatPreempts
    BY <2>8, <1>a, <1>b DEF ChatPreempts, loopVars, turnVars, threadVars, FreshInv
  <2> QED
    BY <1>1, <2>1, <2>2, <2>3, <2>4, <2>5, <2>6, <2>7, <2>8 DEF User
<1>2. CASE CommandSteps
  <2>1. CASE StopStt
    BY <2>1, <1>a, <1>b, Coroutines DEF StopStt, loopVars, turnVars, threadVars, FreshInv, Goto,
        At
  <2>2. CASE AwaitStt
    BY <2>2, <1>a, <1>b, Coroutines DEF AwaitStt, loopVars, turnVars, threadVars, FreshInv, Goto,
        At
  <2>3. CASE StopTurn
    BY <2>3, <1>a, <1>b, Coroutines DEF StopTurn, Interrupt, loopVars, turnVars, threadVars,
        FreshInv, Goto, At
  <2>4. CASE CommandDone
    BY <2>4, <1>a, <1>b, Coroutines DEF CommandDone, Rest, loopVars, turnVars, threadVars,
        FreshInv, Goto, At
  <2>5. CASE OpenMic
    <3>1. heardAll + 1 \in Utterances
      BY <2>5, Bounds DEF OpenMic, Types, MicTypes, LoopTypes, Utterances
    <3> QED
      BY <3>1, <2>5, <1>a, <1>b, Coroutines DEF OpenMic, turnVars, threadVars, FreshInv
  <2> QED
    BY <1>2, <2>1, <2>2, <2>3, <2>4, <2>5 DEF CommandSteps
<1>3. CASE CancelTurn
  <2> SUFFICES ASSUME NEW c \in Speakers, ClosePipe(c) \/ Notice(c) \/ CutHistory(c) \/
      CutDiary(c) PROVE FreshInv'
    BY <1>3 DEF CancelTurn
  <2>1. CASE ClosePipe(c)
    BY <2>1, <1>a, <1>b, Coroutines DEF ClosePipe, loopVars, turnVars, threadVars, AfterCancel,
        FreshInv, Goto, At
  <2>2. CASE Notice(c)
    BY <2>2, <1>a, <1>b, Coroutines DEF Notice, loopVars, turnVars, threadVars, FreshInv, Goto, At
  <2>3. CASE CutHistory(c)
    BY <2>3, <1>a, <1>b, Coroutines DEF CutHistory, loopVars, turnVars, threadVars, AfterCancel,
        FreshInv, Goto, At
  <2>4. CASE CutDiary(c)
    BY <2>4, <1>a, <1>b, Coroutines DEF CutDiary, loopVars, turnVars, threadVars, AfterCancel,
        FreshInv, Goto, At
  <2> QED
    BY <2>1, <2>2, <2>3, <2>4
<1>4. CASE Begin
  <2> SUFFICES ASSUME NEW c \in Speakers, BeginTurn(c) \/ JoinPrevious(c) \/ CreateTurn(c) \/
      StartTurn(c) PROVE FreshInv'
    BY <1>4 DEF Begin
  <2>1. CASE BeginTurn(c)
    BY <2>1, <1>a, <1>b, Coroutines, <1>c DEF BeginTurn, Interrupt, loopVars, turnVars,
        threadVars, FreshInv, Goto, At
  <2>2. CASE JoinPrevious(c)
    BY <2>2, <1>a, <1>b, Coroutines, <1>c DEF JoinPrevious, loopVars, turnVars, threadVars,
        FreshInv, Goto, At
  <2>3. CASE CreateTurn(c)
    BY <2>3, <1>a, <1>b, Coroutines, <1>c DEF CreateTurn, loopVars, turnVars, threadVars,
        FreshInv, Goto, At
  <2>4. CASE StartTurn(c)
    BY <2>4, <1>a, <1>b, Coroutines, <1>c DEF StartTurn, LeaveTurn, Rest, loopVars, turnVars,
        threadVars, FreshInv, Goto, At
  <2> QED
    BY <2>1, <2>2, <2>3, <2>4
<1>5. CASE Transcription
  <2> SUFFICES ASSUME NEW u \in Utterances, SttEnds(u) \/ SttSettles(u) \/ SttDropped(u) \/
      SttFinal(u) \/ SttBegins(u) \/ SttEmpty(u) PROVE FreshInv'
    BY <1>5 DEF Transcription
  <2>1. CASE SttEnds(u)
    BY <2>1, <1>a, <1>b, Coroutines DEF SttEnds, loopVars, turnVars, threadVars, FreshInv, Goto,
        At
  <2>2. CASE SttSettles(u)
    BY <2>2, <1>a, <1>b, Coroutines DEF SttSettles, loopVars, turnVars, threadVars, FreshInv,
        Goto, At
  <2>3. CASE SttDropped(u)
    BY <2>3, <1>a, <1>b, Coroutines DEF SttDropped, loopVars, turnVars, threadVars, FreshInv,
        Goto, At
  <2>4. CASE SttFinal(u)
    BY <2>4, <1>a, <1>b, Coroutines DEF SttFinal, loopVars, turnVars, threadVars, FreshInv, Goto,
        At
  <2>5. CASE SttBegins(u)
    BY <2>5, <1>a, <1>b, Coroutines DEF SttBegins, loopVars, turnVars, threadVars, FreshInv, Goto,
        At
  <2>6. CASE SttEmpty(u)
    BY <2>6, <1>a, <1>b, Coroutines DEF SttEmpty, loopVars, turnVars, threadVars, FreshInv, Goto,
        At
  <2> QED
    BY <2>1, <2>2, <2>3, <2>4, <2>5, <2>6
<1>6. CASE Watchdog
  <2> SUFFICES ASSUME NEW u \in Utterances, DogLeaves(u) \/ DogTimesOut(u) \/ DogWaited(u) \/
      DogSettles(u) PROVE FreshInv'
    BY <1>6 DEF Watchdog
  <2>1. CASE DogLeaves(u)
    BY <2>1, <1>a, <1>b, Coroutines DEF DogLeaves, DogRests, loopVars, turnVars, threadVars,
        FreshInv, Goto, At
  <2>2. CASE DogTimesOut(u)
    BY <2>2, <1>a, <1>b, Coroutines DEF DogTimesOut, DogRests, loopVars, turnVars, threadVars,
        FreshInv, Goto, At
  <2>3. CASE DogWaited(u)
    BY <2>3, <1>a, <1>b, Coroutines DEF DogWaited, DogRests, loopVars, turnVars, threadVars,
        FreshInv, Goto, At
  <2>4. CASE DogSettles(u)
    BY <2>4, <1>a, <1>b, Coroutines DEF DogSettles, DogRests, loopVars, turnVars, threadVars,
        FreshInv, Goto, At
  <2> QED
    BY <2>1, <2>2, <2>3, <2>4
<1>7. CASE \E u \in Utterances : Endpoint(u)
  <2> SUFFICES ASSUME NEW u \in Utterances, Endpoint(u) PROVE FreshInv'
    BY <1>7
  <2>1. CASE Endpoint(u)
    BY <2>1, <1>a, <1>b, Coroutines DEF Endpoint, loopVars, turnVars, threadVars, FreshInv, Goto,
        At
  <2> QED
    BY <2>1
<1>8. CASE \E t \in Turns : Producer(t)
  <2> SUFFICES ASSUME NEW t \in Turns, Reserve(t) \/ Token(t) \/ Complete(t) \/ Cancelled(t) \/
      ModelFails(t) \/ Return(t) \/ LateCut(t) \/ LateDiary(t) \/ EndOfPipe(t) PROVE FreshInv'
    BY <1>8 DEF Producer
  <2>1. CASE Reserve(t)
    BY <2>1, <1>a, <1>b, Coroutines DEF Reserve, Produces, ProducerRests, ThreadRests, loopVars,
        turnVars, threadVars, FreshInv
  <2>2. CASE Token(t)
    BY <2>2, <1>a, <1>b, Coroutines DEF Token, Produces, ProducerRests, ThreadRests, loopVars,
        turnVars, threadVars, FreshInv
  <2>3. CASE Complete(t)
    BY <2>3, <1>a, <1>b, Coroutines DEF Complete, Produces, ProducerRests, ThreadRests, loopVars,
        turnVars, threadVars, FreshInv
  <2>4. CASE Cancelled(t)
    BY <2>4, <1>a, <1>b, Coroutines DEF Cancelled, Produces, ProducerRests, ThreadRests, loopVars,
        turnVars, threadVars, FreshInv
  <2>5. CASE ModelFails(t)
    BY <2>5, <1>a, <1>b, Coroutines DEF ModelFails, Produces, ProducerRests, ThreadRests,
        loopVars, turnVars, threadVars, FreshInv
  <2>6. CASE Return(t)
    BY <2>6, <1>a, <1>b, Coroutines DEF Return, Produces, ProducerRests, ThreadRests, loopVars,
        turnVars, threadVars, FreshInv
  <2>7. CASE LateCut(t)
    BY <2>7, <1>a, <1>b, Coroutines DEF LateCut, ProducerRests, ThreadRests, loopVars, turnVars,
        threadVars, FreshInv
  <2>8. CASE LateDiary(t)
    BY <2>8, <1>a, <1>b, Coroutines DEF LateDiary, Produces, ProducerRests, ThreadRests, loopVars,
        turnVars, threadVars, FreshInv
  <2>9. CASE EndOfPipe(t)
    BY <2>9, <1>a, <1>b, Coroutines DEF EndOfPipe, Produces, ProducerRests, ThreadRests, loopVars,
        turnVars, threadVars, FreshInv
  <2> QED
    BY <2>1, <2>2, <2>3, <2>4, <2>5, <2>6, <2>7, <2>8, <2>9
<1>9. CASE \E t \in Turns : Worker(t)
  <2> SUFFICES ASSUME NEW t \in Turns, Speak(t) \/ PipeEnds(t) \/ Judge(t) \/ Cut(t) \/
      WorkerDiary(t) \/ Notify(t) \/ Commit(t) \/ Finish(t) PROVE FreshInv'
    BY <1>9 DEF Worker
  <2>1. CASE Speak(t)
    BY <2>1, <1>a, <1>b, Coroutines DEF Speak, Works, WorkerRests, ThreadRests, loopVars,
        turnVars, threadVars, FreshInv
  <2>2. CASE PipeEnds(t)
    BY <2>2, <1>a, <1>b, Coroutines DEF PipeEnds, Works, WorkerRests, ThreadRests, loopVars,
        turnVars, threadVars, FreshInv
  <2>3. CASE Judge(t)
    BY <2>3, <1>a, <1>b, Coroutines DEF Judge, WorkerRests, ThreadRests, loopVars, turnVars,
        threadVars, FreshInv
  <2>4. CASE Cut(t)
    BY <2>4, <1>a, <1>b, Coroutines DEF Cut, ThreadRests, loopVars, turnVars, threadVars, FreshInv
  <2>5. CASE WorkerDiary(t)
    BY <2>5, <1>a, <1>b, Coroutines DEF WorkerDiary, Works, WorkerRests, ThreadRests, loopVars,
        turnVars, threadVars, FreshInv
  <2>6. CASE Notify(t)
    BY <2>6, <1>a, <1>b, Coroutines DEF Notify, Works, WorkerRests, ThreadRests, loopVars,
        turnVars, threadVars, FreshInv
  <2>7. CASE Commit(t)
    BY <2>7, <1>a, <1>b, Coroutines DEF Commit, Works, WorkerRests, ThreadRests, loopVars,
        turnVars, threadVars, FreshInv
  <2>8. CASE Finish(t)
    BY <2>8, <1>a, <1>b, Coroutines DEF Finish, Works, WorkerRests, ThreadRests, loopVars,
        turnVars, threadVars, FreshInv
  <2> QED
    BY <2>1, <2>2, <2>3, <2>4, <2>5, <2>6, <2>7, <2>8
<1>10. CASE Callback
  BY <1>10, <1>a, <1>b DEF Callback, loopVars, turnVars, threadVars, FreshInv
<1>11. CASE UNCHANGED vars
  BY <1>11, <1>a, <1>b DEF vars, loopVars, turnVars, threadVars, FreshInv
<1> QED
  BY <1>1, <1>2, <1>3, <1>4, <1>5, <1>6, <1>7, <1>8, <1>9, <1>10, <1>11 DEF Next
-----------------------------------------------------------------------------
(***************************************************************************)
(* There is room for every turn that is on its way.                        *)
(***************************************************************************)
LEMMA ComingIsFinite == IsFiniteSet(Coming) /\ Cardinality(Coming) \in Nat
<1>1. IsFiniteSet(Utterances)
  BY Bounds, FS_Interval DEF Utterances
<1>2. Coming \subseteq Utterances
  BY DEF Coming
<1> QED
  BY <1>1, <1>2, FS_Subset, FS_CardinalityType

\* Nobody has set out, and nobody has arrived.
LEMMA NobodySetsOut ==
    ASSUME Types, RoomInv, UNCHANGED <<script, turns>>,
           Coming' \subseteq Coming, Promised' <= Promised
    PROVE RoomInv'
<1>1. /\ turns \in Nat /\ script.turns \in Nat /\ script' = script /\ turns' = turns
      /\ Promised \in {0, 1} /\ Promised' \in {0, 1}
  BY Bounds DEF Types, TurnTypes, LoopTypes, Promised
<1>2. Cardinality(Coming') \in Nat /\ Cardinality(Coming') <= Cardinality(Coming)
  BY ComingIsFinite, FS_Subset, FS_CardinalityType
<1>3. Cardinality(Coming)' = Cardinality(Coming')
  OBVIOUS
<1> QED
  BY <1>1, <1>2, <1>3, ComingIsFinite DEF RoomInv

LEMMA RoomInit == Init => RoomInv
<1> SUFFICES ASSUME Init PROVE RoomInv
  OBVIOUS
<1>1. Coming = {}
  BY Coroutines DEF Init, Coming, Cancelling, Coros
<1>2. Promised = 0 /\ turns = 0 /\ script.turns \in Nat
  BY Bounds DEF Init, Promised
<1> QED
  BY <1>1, <1>2, FS_EmptySet DEF RoomInv

\* One more is on his way, or is promised a turn: there was room for him.
LEMMA OneSetsOut ==
    ASSUME Types, Room
    PROVE  turns + Cardinality(Coming) + Promised + 1 <= script.turns
<1> DEFINE onTheirWay == {u \in Utterances : pc[Stt(u)] \notin
                            {"unborn", "stream", "close", "closing", "empty", "done"}}
           text == IF goal = "text" THEN 1 ELSE 0
<1>1. turns + Cardinality(onTheirWay) + text < script.turns
  BY DEF Room
<1>2. IsFiniteSet(onTheirWay) /\ Cardinality(onTheirWay) \in Nat
  <2>1. IsFiniteSet(Utterances)
    BY Bounds, FS_Interval DEF Utterances
  <2> QED
    BY <2>1, FS_Subset, FS_CardinalityType
<1>3. Coming \subseteq onTheirWay
  BY DEF Coming, Cancelling
<1>4. Cardinality(Coming) <= Cardinality(onTheirWay)
  BY <1>2, <1>3, FS_Subset
<1>5. /\ turns \in Nat /\ script.turns \in Nat /\ text \in {0, 1}
      /\ Promised \in {0, 1} /\ Promised <= text
  BY Bounds DEF Types, TurnTypes, LoopTypes, Promised
<1> HIDE DEF onTheirWay, text
<1> QED
  BY <1>1, <1>2, <1>4, <1>5, ComingIsFinite

\* Who sets out finds room, and who arrives gives his up.
LEMMA RoomStep == ASSUME Types, LockInv, RoomInv, [Next]_vars PROVE RoomInv'
<1>a. /\ pc \in [Coros -> Places] /\ turns \in Nat /\ script.turns \in Nat
      /\ (goal = "text") \in BOOLEAN
  BY Bounds DEF Types, LoopTypes, Standing, TurnTypes
<1>b. Cancelling = {"pipe", "notice", "history", "diary"}
  BY DEF Cancelling
<1>c. SUFFICES ASSUME ~(UNCHANGED <<script, turns>> /\ Coming' \subseteq Coming /\ Promised' <= Promised)
               PROVE  RoomInv'
  BY NobodySetsOut
<1>1. CASE User
  <2>1. CASE SpeechStart
    BY <2>1, <1>a, <1>b, <1>c, Coroutines DEF SpeechStart, Command, loopVars, turnVars, Coming,
        Promised, Goto, At
  <2>2. CASE Stop
    BY <2>2, <1>a, <1>b, <1>c, Coroutines DEF Stop, Command, loopVars, turnVars, Coming, Promised,
        Goto, At
  <2>3. CASE FeedFails
    BY <2>3, <1>a, <1>b, <1>c, Coroutines DEF FeedFails, loopVars, turnVars, Coming, Promised,
        Goto, At
  <2>4. CASE Close
    BY <2>4, <1>a, <1>b, <1>c, Coroutines DEF Close, Command, Interrupt, loopVars, turnVars,
        Coming, Promised, Goto, At
  <2>5. CASE Barge
    BY <2>5, <1>a, <1>b, <1>c, Coroutines DEF Barge, Command, Interrupt, loopVars, turnVars,
        Coming, Promised, Goto, At
  <2>6. CASE SpeechEnd
    <3>1. sttTask # 0 => sttTask \in Utterances
      BY DEF Types, MicTypes, Utterances
    <3> QED
      BY <3>1, <2>6, <1>a, <1>b, <1>c, Coroutines DEF SpeechEnd, turnVars, Coming, Promised
  <2>7. CASE Typed
    <3>1. turns + Cardinality(Coming) + Promised + 1 <= script.turns
      BY <2>7, OneSetsOut DEF Typed
    <3>2. Coming' = Coming
      BY <2>7, <1>a, Coroutines DEF Typed, Goto, Coming
    <3>3. UNCHANGED <<script, turns>> /\ Promised \in {0, 1} /\ Promised' \in {0, 1}
      BY <2>7 DEF Typed, Command, turnVars, Promised
    <3> QED
      BY <3>1, <3>2, <3>3, <1>a, ComingIsFinite DEF RoomInv
  <2>8. CASE ChatPreempts
    BY <2>8, <1>a, <1>c DEF ChatPreempts, loopVars, turnVars, Coming, Promised
  <2> QED
    BY <1>1, <2>1, <2>2, <2>3, <2>4, <2>5, <2>6, <2>7, <2>8 DEF User
<1>2. CASE CommandSteps
  <2>1. CASE StopStt
    BY <2>1, <1>a, <1>b, <1>c, Coroutines DEF StopStt, loopVars, turnVars, Coming, Promised, Goto,
        At
  <2>2. CASE AwaitStt
    BY <2>2, <1>a, <1>b, <1>c, Coroutines DEF AwaitStt, loopVars, turnVars, Coming, Promised,
        Goto, At
  <2>3. CASE StopTurn
    BY <2>3, <1>a, <1>b, <1>c, Coroutines DEF StopTurn, Interrupt, loopVars, turnVars, Coming,
        Promised, Goto, At
  <2>4. CASE CommandDone
    BY <2>4, <1>a, <1>b, <1>c, Coroutines DEF CommandDone, Rest, loopVars, turnVars, Coming,
        Promised, Goto, At
  <2>5. CASE OpenMic
    <3>1. heardAll + 1 \in Utterances
      BY <2>5, Bounds DEF OpenMic, Types, MicTypes, LoopTypes, Utterances
    <3> QED
      BY <3>1, <2>5, <1>a, <1>b, <1>c, Coroutines DEF OpenMic, Rest, turnVars, Coming, Promised
  <2> QED
    BY <1>2, <2>1, <2>2, <2>3, <2>4, <2>5 DEF CommandSteps
<1>3. CASE CancelTurn
  <2> SUFFICES ASSUME NEW c \in Speakers, ClosePipe(c) \/ Notice(c) \/ CutHistory(c) \/
      CutDiary(c) PROVE RoomInv'
    BY <1>3 DEF CancelTurn
  <2>1. CASE ClosePipe(c)
    BY <2>1, <1>a, <1>b, <1>c, Coroutines DEF ClosePipe, loopVars, turnVars, AfterCancel, Coming,
        Promised, Goto, At
  <2>2. CASE Notice(c)
    BY <2>2, <1>a, <1>b, <1>c, Coroutines DEF Notice, loopVars, turnVars, Coming, Promised, Goto,
        At
  <2>3. CASE CutHistory(c)
    BY <2>3, <1>a, <1>b, <1>c, Coroutines DEF CutHistory, loopVars, turnVars, AfterCancel, Coming,
        Promised, Goto, At
  <2>4. CASE CutDiary(c)
    BY <2>4, <1>a, <1>b, <1>c, Coroutines DEF CutDiary, loopVars, turnVars, AfterCancel, Coming,
        Promised, Goto, At
  <2> QED
    BY <2>1, <2>2, <2>3, <2>4
<1>4. CASE Begin
  <2> SUFFICES ASSUME NEW c \in Speakers, BeginTurn(c) \/ JoinPrevious(c) \/ CreateTurn(c) \/
      StartTurn(c) PROVE RoomInv'
    BY <1>4 DEF Begin
  <2>1. CASE BeginTurn(c)
    BY <2>1, <1>a, <1>b, <1>c, Coroutines DEF BeginTurn, Interrupt, loopVars, turnVars, Coming,
        Promised, Goto, At
  <2>2. CASE JoinPrevious(c)
    BY <2>2, <1>a, <1>b, <1>c, Coroutines DEF JoinPrevious, loopVars, turnVars, Coming, Promised,
        Goto, At
  <2>3. CASE StartTurn(c)
    BY <2>3, <1>a, <1>b, <1>c, Coroutines DEF StartTurn, LeaveTurn, Rest, loopVars, turnVars,
        Coming, Promised, Goto, At
  <2>4. CASE CreateTurn(c)
    <3>1. pc[c] \in {"join", "create"} /\ turns' = turns + 1 /\ UNCHANGED <<script, goal>> /\ Goto(c, "start")
      BY <2>4 DEF CreateTurn, At
    <3>2. CASE c = Recv
      <4>1. Promised = 1 /\ Promised' = 0
        BY <3>1, <3>2, <1>a, Coroutines DEF LockInv, Promised, Goto
      <4>2. Coming' = Coming
        BY <3>1, <3>2, <1>a, Coroutines DEF Coming, Goto
      <4> QED
        BY <4>1, <4>2, <3>1, <1>a, ComingIsFinite DEF RoomInv
    <3>3. CASE c # Recv
      <4>1. PICK u \in Utterances : c = Stt(u)
        BY <3>3, Coroutines
      <4>2. u \in Coming /\ Coming' = Coming \ {u}
        <5>1. pc'[Stt(u)] = "start" /\ \A v \in Utterances \ {u} : pc'[Stt(v)] = pc[Stt(v)]
          BY <4>1, <3>1, <1>a, Coroutines DEF Goto
        <5> QED
          BY <5>1, <4>1, <3>1, <1>b DEF Coming
      <4>3. Promised' = Promised /\ Promised \in {0, 1}
        BY <4>1, <3>1, <1>a, Coroutines DEF Promised, Goto
      <4>4. Cardinality(Coming') = Cardinality(Coming) - 1
        BY <4>2, ComingIsFinite, FS_RemoveElement
      <4> QED
        BY <4>3, <4>4, <3>1, <1>a, ComingIsFinite DEF RoomInv
    <3> QED
      BY <3>2, <3>3
  <2> QED
    BY <2>1, <2>2, <2>3, <2>4
<1>5. CASE Transcription
  <2> SUFFICES ASSUME NEW u \in Utterances, SttEnds(u) \/ SttSettles(u) \/ SttDropped(u) \/
      SttFinal(u) \/ SttBegins(u) \/ SttEmpty(u) PROVE RoomInv'
    BY <1>5 DEF Transcription
  <2>1. CASE SttEnds(u)
    BY <2>1, <1>a, <1>b, <1>c, Coroutines DEF SttEnds, loopVars, turnVars, Coming, Promised, Goto,
        At
  <2>2. CASE SttDropped(u)
    BY <2>2, <1>a, <1>b, <1>c, Coroutines DEF SttDropped, loopVars, turnVars, Coming, Promised,
        Goto, At
  <2>3. CASE SttFinal(u)
    BY <2>3, <1>a, <1>b, <1>c, Coroutines DEF SttFinal, loopVars, turnVars, Coming, Promised,
        Goto, At
  <2>4. CASE SttBegins(u)
    BY <2>4, <1>a, <1>b, <1>c, Coroutines DEF SttBegins, loopVars, turnVars, Coming, Promised,
        Goto, At
  <2>5. CASE SttEmpty(u)
    BY <2>5, <1>a, <1>b, <1>c, Coroutines DEF SttEmpty, loopVars, turnVars, Coming, Promised,
        Goto, At
  <2>6. CASE SttSettles(u)
    <3>1. CASE Room /\ Goto(Stt(u), "final")
      <4>1. turns + Cardinality(Coming) + Promised + 1 <= script.turns
        BY <3>1, OneSetsOut
      <4>2. Coming' = Coming \union {u}
        <5>1. pc'[Stt(u)] = "final" /\ \A v \in Utterances \ {u} : pc'[Stt(v)] = pc[Stt(v)]
          BY <3>1, <1>a, Coroutines DEF Goto
        <5> QED
          BY <5>1, <1>b DEF Coming
      <4>3. UNCHANGED <<script, turns>> /\ Promised' = Promised /\ Promised \in {0, 1}
        BY <2>6, <3>1, <1>a, Coroutines DEF SttSettles, turnVars, Goto, Promised
      <4>4. Cardinality(Coming') <= Cardinality(Coming) + 1 /\ Cardinality(Coming') \in Nat
        <5> DEFINE n == Cardinality(Coming)
        <5>1. Cardinality(Coming \union {u}) = IF u \in Coming THEN n ELSE n + 1
          BY ComingIsFinite, FS_AddElement
        <5>2. n \in Nat
          BY ComingIsFinite
        <5>3. Cardinality(Coming') = Cardinality(Coming \union {u})
          BY <4>2
        <5> HIDE DEF n
        <5>4. Cardinality(Coming \union {u}) \in {n, n + 1}
          BY <5>1
        <5> QED
          BY <5>2, <5>3, <5>4 DEF n
      <4> QED
        BY <4>1, <4>3, <4>4, <1>a, ComingIsFinite DEF RoomInv
    <3>2. CASE ~(Room /\ Goto(Stt(u), "final"))
      <4>1. \E p \in {"empty", "done"} : Goto(Stt(u), p)
        BY <2>6, <3>2 DEF SttSettles
      <4> QED
        BY <4>1, <2>6, <1>a, <1>b, <1>c, Coroutines DEF SttSettles, turnVars, Goto, Coming, Promised
    <3> QED
      BY <3>1, <3>2
  <2> QED
    BY <2>1, <2>2, <2>3, <2>4, <2>5, <2>6
<1>6. CASE Watchdog
  <2> SUFFICES ASSUME NEW u \in Utterances, DogLeaves(u) \/ DogTimesOut(u) \/ DogWaited(u) \/
      DogSettles(u) PROVE RoomInv'
    BY <1>6 DEF Watchdog
  <2>1. CASE DogLeaves(u)
    BY <2>1, <1>a, <1>b, <1>c, Coroutines DEF DogLeaves, DogRests, loopVars, turnVars, Coming,
        Promised, Goto, At
  <2>2. CASE DogTimesOut(u)
    BY <2>2, <1>a, <1>b, <1>c, Coroutines DEF DogTimesOut, DogRests, loopVars, turnVars, Coming,
        Promised, Goto, At
  <2>3. CASE DogWaited(u)
    BY <2>3, <1>a, <1>b, <1>c, Coroutines DEF DogWaited, DogRests, loopVars, turnVars, Coming,
        Promised, Goto, At
  <2>4. CASE DogSettles(u)
    BY <2>4, <1>a, <1>b, <1>c, Coroutines DEF DogSettles, DogRests, loopVars, turnVars, Coming,
        Promised, Goto, At
  <2> QED
    BY <2>1, <2>2, <2>3, <2>4
<1>7. CASE \E u \in Utterances : Endpoint(u)
  <2> SUFFICES ASSUME NEW u \in Utterances, Endpoint(u) PROVE RoomInv'
    BY <1>7
  <2>1. CASE Endpoint(u)
    BY <2>1, <1>a, <1>b, <1>c, Coroutines DEF Endpoint, loopVars, turnVars, Coming, Promised,
        Goto, At
  <2> QED
    BY <2>1
<1>8. CASE \E t \in Turns : Producer(t)
  BY <1>8, <1>a, <1>c DEF Producer, Reserve, ProducerRests, ThreadRests, Token, Complete,
      Cancelled, ModelFails, Return, LateCut, LateDiary, EndOfPipe, loopVars, turnVars, Coming,
      Promised
<1>9. CASE \E t \in Turns : Worker(t)
  BY <1>9, <1>a, <1>c DEF Worker, Speak, WorkerRests, ThreadRests, PipeEnds, Judge, Cut,
      WorkerDiary, Notify, Commit, Finish, loopVars, turnVars, Coming, Promised
<1>10. CASE Callback
  BY <1>10, <1>a, <1>c DEF Callback, loopVars, turnVars, Coming, Promised
<1>11. CASE UNCHANGED vars
  BY <1>11, <1>a, <1>c DEF vars, loopVars, turnVars, Coming, Promised
<1> QED
  BY <1>1, <1>2, <1>3, <1>4, <1>5, <1>6, <1>7, <1>8, <1>9, <1>10, <1>11 DEF Next
-----------------------------------------------------------------------------
(***************************************************************************)
(* The token pipe.                                                         *)
(***************************************************************************)
LEMMA PipesInit == Init => PipeInv
BY Coroutines, Bounds DEF Init, PipeInv, Cancelling, Coros

\* Only who cancels a turn or has produced it shuts its pipe, and nobody fills it afterwards.
LEMMA PipesStep == ASSUME Types, FreshInv, PipeInv, [Next]_vars PROVE PipeInv'
<1>a. /\ pc \in [Coros -> Places] /\ victim \in [Speakers -> Nat] /\ cancel \in [Turns -> BOOLEAN]
      /\ tokens \in [Turns -> Nat] /\ eof \in [Turns -> BOOLEAN] /\ prod \in [Turns -> Producings]
      /\ PipeCap \in Nat /\ PipeCap > 0
  BY Bounds DEF Types, LoopTypes, Standing, TurnTypes
<1>b. PipeInv
  OBVIOUS
<1>1. CASE User
  <2>1. CASE SpeechStart
    BY <2>1, <1>a, <1>b, Coroutines DEF SpeechStart, Command, loopVars, threadVars, PipeInv,
        Cancelling, Goto, At
  <2>2. CASE Stop
    BY <2>2, <1>a, <1>b, Coroutines DEF Stop, Command, loopVars, threadVars, PipeInv, Cancelling,
        Goto, At
  <2>3. CASE FeedFails
    BY <2>3, <1>a, <1>b, Coroutines DEF FeedFails, loopVars, threadVars, PipeInv, Cancelling,
        Goto, At
  <2>4. CASE Close
    BY <2>4, <1>a, <1>b, Coroutines DEF Close, Command, Interrupt, loopVars, threadVars, PipeInv,
        Cancelling, Goto, At
  <2>5. CASE Typed
    BY <2>5, <1>a, <1>b, Coroutines DEF Typed, Command, loopVars, threadVars, PipeInv, Cancelling,
        Goto, At
  <2>6. CASE Barge
    BY <2>6, <1>a, <1>b, Coroutines DEF Barge, Command, Interrupt, loopVars, threadVars, PipeInv,
        Cancelling, Goto, At
  <2>7. CASE SpeechEnd
    <3>1. sttTask # 0 => sttTask \in Utterances
      BY DEF Types, MicTypes, Utterances
    <3> QED
      BY <3>1, <2>7, <1>a, <1>b, Coroutines DEF SpeechEnd, threadVars, PipeInv, Cancelling
  <2>8. CASE ChatPreempts
    BY <2>8, <1>a, <1>b DEF ChatPreempts, loopVars, threadVars, PipeInv
  <2> QED
    BY <1>1, <2>1, <2>2, <2>3, <2>4, <2>5, <2>6, <2>7, <2>8 DEF User
<1>2. CASE CommandSteps
  <2>1. CASE StopStt
    BY <2>1, <1>a, <1>b, Coroutines DEF StopStt, loopVars, threadVars, PipeInv, Cancelling, Goto,
        At
  <2>2. CASE AwaitStt
    BY <2>2, <1>a, <1>b, Coroutines DEF AwaitStt, loopVars, threadVars, PipeInv, Cancelling, Goto,
        At
  <2>3. CASE StopTurn
    BY <2>3, <1>a, <1>b, Coroutines DEF StopTurn, Interrupt, loopVars, threadVars, PipeInv,
        Cancelling, Goto, At
  <2>4. CASE CommandDone
    BY <2>4, <1>a, <1>b, Coroutines DEF CommandDone, Rest, loopVars, threadVars, PipeInv,
        Cancelling, Goto, At
  <2>5. CASE OpenMic
    <3>1. heardAll + 1 \in Utterances
      BY <2>5, Bounds DEF OpenMic, Types, MicTypes, LoopTypes, Utterances
    <3> QED
      BY <3>1, <2>5, <1>a, <1>b, Coroutines DEF OpenMic, Rest, threadVars, PipeInv, Cancelling
  <2> QED
    BY <1>2, <2>1, <2>2, <2>3, <2>4, <2>5 DEF CommandSteps
<1>3. CASE CancelTurn
  <2> SUFFICES ASSUME NEW c \in Speakers, ClosePipe(c) \/ Notice(c) \/ CutHistory(c) \/
      CutDiary(c) PROVE PipeInv'
    BY <1>3 DEF CancelTurn
  <2>1. CASE ClosePipe(c)
    BY <2>1, <1>a, <1>b, Coroutines DEF ClosePipe, Sentinel, loopVars, threadVars, AfterCancel,
        PipeInv, Cancelling, Goto, At
  <2>2. CASE Notice(c)
    BY <2>2, <1>a, <1>b, Coroutines DEF Notice, loopVars, threadVars, PipeInv, Cancelling, Goto,
        At
  <2>3. CASE CutHistory(c)
    BY <2>3, <1>a, <1>b, Coroutines DEF CutHistory, loopVars, threadVars, AfterCancel, PipeInv,
        Cancelling, Goto, At
  <2>4. CASE CutDiary(c)
    BY <2>4, <1>a, <1>b, Coroutines DEF CutDiary, loopVars, threadVars, AfterCancel, PipeInv,
        Cancelling, Goto, At
  <2> QED
    BY <2>1, <2>2, <2>3, <2>4
<1>4. CASE Begin
  <2> SUFFICES ASSUME NEW c \in Speakers, BeginTurn(c) \/ JoinPrevious(c) \/ CreateTurn(c) \/
      StartTurn(c) PROVE PipeInv'
    BY <1>4 DEF Begin
  <2>1. CASE BeginTurn(c)
    BY <2>1, <1>a, <1>b, Coroutines DEF BeginTurn, Interrupt, loopVars, threadVars, PipeInv,
        Cancelling, Goto, At
  <2>2. CASE JoinPrevious(c)
    BY <2>2, <1>a, <1>b, Coroutines DEF JoinPrevious, loopVars, threadVars, PipeInv, Cancelling,
        Goto, At
  <2>3. CASE CreateTurn(c)
    BY <2>3, <1>a, <1>b, Coroutines DEF CreateTurn, loopVars, threadVars, PipeInv, Cancelling,
        Goto, At
  <2>4. CASE StartTurn(c)
    <3>1. active \in Turns => prod[active] = "new"
      BY <2>4 DEF StartTurn, At, FreshInv
    <3> QED
      BY <3>1, <2>4, <1>a, <1>b, Coroutines DEF StartTurn, LeaveTurn, Rest, Goto, PipeInv, Cancelling
  <2> QED
    BY <2>1, <2>2, <2>3, <2>4
<1>5. CASE Transcription
  <2> SUFFICES ASSUME NEW u \in Utterances, SttEnds(u) \/ SttSettles(u) \/ SttDropped(u) \/
      SttFinal(u) \/ SttBegins(u) \/ SttEmpty(u) PROVE PipeInv'
    BY <1>5 DEF Transcription
  <2>1. CASE SttEnds(u)
    BY <2>1, <1>a, <1>b, Coroutines DEF SttEnds, loopVars, threadVars, PipeInv, Cancelling, Goto,
        At
  <2>2. CASE SttSettles(u)
    BY <2>2, <1>a, <1>b, Coroutines DEF SttSettles, loopVars, threadVars, PipeInv, Cancelling,
        Goto, At
  <2>3. CASE SttDropped(u)
    BY <2>3, <1>a, <1>b, Coroutines DEF SttDropped, loopVars, threadVars, PipeInv, Cancelling,
        Goto, At
  <2>4. CASE SttFinal(u)
    BY <2>4, <1>a, <1>b, Coroutines DEF SttFinal, loopVars, threadVars, PipeInv, Cancelling, Goto,
        At
  <2>5. CASE SttBegins(u)
    BY <2>5, <1>a, <1>b, Coroutines DEF SttBegins, loopVars, threadVars, PipeInv, Cancelling,
        Goto, At
  <2>6. CASE SttEmpty(u)
    BY <2>6, <1>a, <1>b, Coroutines DEF SttEmpty, loopVars, threadVars, PipeInv, Cancelling, Goto,
        At
  <2> QED
    BY <2>1, <2>2, <2>3, <2>4, <2>5, <2>6
<1>6. CASE Watchdog
  <2> SUFFICES ASSUME NEW u \in Utterances, DogLeaves(u) \/ DogTimesOut(u) \/ DogWaited(u) \/
      DogSettles(u) PROVE PipeInv'
    BY <1>6 DEF Watchdog
  <2>1. CASE DogLeaves(u)
    BY <2>1, <1>a, <1>b, Coroutines DEF DogLeaves, DogRests, loopVars, threadVars, PipeInv,
        Cancelling, Goto, At
  <2>2. CASE DogTimesOut(u)
    BY <2>2, <1>a, <1>b, Coroutines DEF DogTimesOut, DogRests, loopVars, threadVars, PipeInv,
        Cancelling, Goto, At
  <2>3. CASE DogWaited(u)
    BY <2>3, <1>a, <1>b, Coroutines DEF DogWaited, DogRests, loopVars, threadVars, PipeInv,
        Cancelling, Goto, At
  <2>4. CASE DogSettles(u)
    BY <2>4, <1>a, <1>b, Coroutines DEF DogSettles, DogRests, loopVars, threadVars, PipeInv,
        Cancelling, Goto, At
  <2> QED
    BY <2>1, <2>2, <2>3, <2>4
<1>7. CASE \E u \in Utterances : Endpoint(u)
  <2> SUFFICES ASSUME NEW u \in Utterances, Endpoint(u) PROVE PipeInv'
    BY <1>7
  <2>1. CASE Endpoint(u)
    BY <2>1, <1>a, <1>b, Coroutines DEF Endpoint, loopVars, threadVars, PipeInv, Cancelling, Goto,
        At
  <2> QED
    BY <2>1
<1>8. CASE \E t \in Turns : Producer(t)
  <2> SUFFICES ASSUME NEW t \in Turns, Reserve(t) \/ Token(t) \/ Complete(t) \/ Cancelled(t) \/
      ModelFails(t) \/ Return(t) \/ LateCut(t) \/ LateDiary(t) \/ EndOfPipe(t) PROVE PipeInv'
    BY <1>8 DEF Producer
  <2>1. CASE Reserve(t)
    BY <2>1, <1>a, <1>b DEF Reserve, Produces, Claim, ProducerRests, ThreadRests, loopVars,
        threadVars, PipeInv
  <2>2. CASE Token(t)
    BY <2>2, <1>a, <1>b DEF Token, Produces, ProducerRests, ThreadRests, loopVars, threadVars,
        PipeInv
  <2>3. CASE Complete(t)
    BY <2>3, <1>a, <1>b DEF Complete, Produces, ProducerRests, ThreadRests, loopVars, threadVars,
        PipeInv
  <2>4. CASE Cancelled(t)
    BY <2>4, <1>a, <1>b DEF Cancelled, Produces, ProducerRests, ThreadRests, loopVars, threadVars,
        PipeInv
  <2>5. CASE ModelFails(t)
    BY <2>5, <1>a, <1>b DEF ModelFails, Produces, ProducerRests, ThreadRests, loopVars,
        threadVars, PipeInv
  <2>6. CASE Return(t)
    BY <2>6, <1>a, <1>b DEF Return, Produces, ProducerRests, ThreadRests, loopVars, threadVars,
        PipeInv
  <2>7. CASE LateCut(t)
    BY <2>7, <1>a, <1>b DEF LateCut, ProducerRests, ThreadRests, loopVars, threadVars, PipeInv
  <2>8. CASE LateDiary(t)
    BY <2>8, <1>a, <1>b DEF LateDiary, Produces, ProducerRests, ThreadRests, loopVars, threadVars,
        PipeInv
  <2>9. CASE EndOfPipe(t)
    BY <2>9, <1>a, <1>b DEF EndOfPipe, Produces, Sentinel, ProducerRests, ThreadRests, loopVars,
        threadVars, PipeInv
  <2> QED
    BY <2>1, <2>2, <2>3, <2>4, <2>5, <2>6, <2>7, <2>8, <2>9
<1>9. CASE \E t \in Turns : Worker(t)
  <2> SUFFICES ASSUME NEW t \in Turns, Speak(t) \/ PipeEnds(t) \/ Judge(t) \/ Cut(t) \/
      WorkerDiary(t) \/ Notify(t) \/ Commit(t) \/ Finish(t) PROVE PipeInv'
    BY <1>9 DEF Worker
  <2>1. CASE Speak(t)
    BY <2>1, <1>a, <1>b DEF Speak, Works, WorkerRests, ThreadRests, loopVars, threadVars, PipeInv
  <2>2. CASE PipeEnds(t)
    BY <2>2, <1>a, <1>b DEF PipeEnds, Works, WorkerRests, ThreadRests, loopVars, threadVars,
        PipeInv
  <2>3. CASE Judge(t)
    BY <2>3, <1>a, <1>b DEF Judge, WorkerRests, ThreadRests, loopVars, threadVars, PipeInv
  <2>4. CASE Cut(t)
    BY <2>4, <1>a, <1>b DEF Cut, ThreadRests, loopVars, threadVars, PipeInv
  <2>5. CASE WorkerDiary(t)
    BY <2>5, <1>a, <1>b DEF WorkerDiary, Works, WorkerRests, ThreadRests, loopVars, threadVars,
        PipeInv
  <2>6. CASE Notify(t)
    BY <2>6, <1>a, <1>b DEF Notify, Works, WorkerRests, ThreadRests, loopVars, threadVars, PipeInv
  <2>7. CASE Commit(t)
    BY <2>7, <1>a, <1>b DEF Commit, Works, WorkerRests, ThreadRests, loopVars, threadVars, PipeInv
  <2>8. CASE Finish(t)
    BY <2>8, <1>a, <1>b DEF Finish, Works, WorkerRests, ThreadRests, loopVars, threadVars, PipeInv
  <2> QED
    BY <2>1, <2>2, <2>3, <2>4, <2>5, <2>6, <2>7, <2>8
<1>10. CASE Callback
  BY <1>10, <1>a, <1>b DEF Callback, loopVars, threadVars, PipeInv
<1>11. CASE UNCHANGED vars
  BY <1>11, <1>a, <1>b DEF vars, loopVars, threadVars, PipeInv
<1> QED
  BY <1>1, <1>2, <1>3, <1>4, <1>5, <1>6, <1>7, <1>8, <1>9, <1>10, <1>11 DEF Next
-----------------------------------------------------------------------------
(***************************************************************************)
(* The diary.                                                              *)
(***************************************************************************)
LEMMA DiariesInit == Init => DiaryInv
BY DEF Init, DiaryInv, Entries

\* Who claims the entry of a reply, when nobody has, writes the only one.
LEMMA ClaimsOnce ==
    ASSUME Types, DiaryInv, NEW s, NEW text \in {"heard", "full"}, ClaimDiary(s, text),
           \A t \in Turns : prod'[t] # prod[t] => prod'[t] \notin {"new", "reserve", "generate"}
    PROVE  DiaryInv'
<1>1. /\ diary \in [Turns -> Entries] /\ deferred \in [Turns -> BOOLEAN]
      /\ diary' = [diary EXCEPT ![s] = IF deferred[s] THEN Append(@, text) ELSE @]
      /\ deferred' = [deferred EXCEPT ![s] = FALSE]
  BY DEF Types, TurnTypes, DiaryInv, ClaimDiary
<1>2. Append(<<>>, text) \in Entries
  BY DEF Entries
<1>3. s \in Turns => diary'[s] \in Entries /\ deferred'[s] = FALSE
                     /\ (~deferred[s] => diary'[s] = diary[s])
  BY <1>1, <1>2 DEF DiaryInv
<1>4. \A t \in Turns : t # s => diary'[t] = diary[t] /\ deferred'[t] = deferred[t]
  BY <1>1
<1>5. diary' \in [Turns -> Entries]
  BY <1>1, <1>3, Excepts
<1> QED
  BY <1>1, <1>3, <1>4, <1>5 DEF DiaryInv

\* The reply defers its entry once, and it is claimed once.
LEMMA DiariesStep == ASSUME Types, FreshInv, DiaryInv, [Next]_vars PROVE DiaryInv'
<1>a. prod \in [Turns -> Producings] /\ deferred \in [Turns -> BOOLEAN]
  BY DEF Types, TurnTypes
<1>b. DiaryInv
  OBVIOUS
<1>1. CASE User
  BY <1>1, <1>b DEF User, SpeechStart, Command, Stop, FeedFails, Close, Typed, Barge, SpeechEnd,
      ChatPreempts, threadVars, brainVars, DiaryInv
<1>2. CASE CommandSteps
  BY <1>2, <1>b DEF CommandSteps, StopStt, AwaitStt, StopTurn, OpenMic, CommandDone, threadVars,
      brainVars, DiaryInv
<1>3. CASE CancelTurn
  <2> SUFFICES ASSUME NEW c \in Speakers, ClosePipe(c) \/ Notice(c) \/ CutHistory(c) \/
      CutDiary(c) PROVE DiaryInv'
    BY <1>3 DEF CancelTurn
  <2>1. CASE CutDiary(c)
    BY <2>1, ClaimsOnce DEF CutDiary, threadVars, brainVars
  <2>2. CASE ClosePipe(c) \/ Notice(c) \/ CutHistory(c)
    BY <2>2, <1>b DEF ClosePipe, Notice, CutHistory, threadVars, brainVars, DiaryInv
  <2> QED
    BY <2>1, <2>2
<1>4. CASE Begin
  <2> SUFFICES ASSUME NEW c \in Speakers, BeginTurn(c) \/ JoinPrevious(c) \/ CreateTurn(c) \/
      StartTurn(c) PROVE DiaryInv'
    BY <1>4 DEF Begin
  <2>1. CASE StartTurn(c)
    <3>1. active \in Turns => prod[active] = "new"
      BY <2>1 DEF StartTurn, At, FreshInv
    <3>2. prod' = [prod EXCEPT ![active] = "reserve"] /\ UNCHANGED <<diary, deferred>>
      BY <2>1 DEF StartTurn, LeaveTurn, brainVars
    <3> QED
      BY <3>1, <3>2, <1>a, <1>b DEF DiaryInv
  <2>2. CASE BeginTurn(c) \/ JoinPrevious(c) \/ CreateTurn(c)
    BY <2>2, <1>b DEF BeginTurn, JoinPrevious, CreateTurn, threadVars, brainVars, DiaryInv
  <2> QED
    BY <2>1, <2>2
<1>5. CASE Transcription
  BY <1>5, <1>b DEF Transcription, SttEnds, SttSettles, SttDropped, SttFinal, SttBegins, SttEmpty,
      threadVars, brainVars, DiaryInv
<1>6. CASE Watchdog
  BY <1>6, <1>b DEF Watchdog, DogLeaves, DogRests, DogTimesOut, DogWaited, DogSettles, threadVars,
      brainVars, DiaryInv
<1>7. CASE \E u \in Utterances : Endpoint(u)
  BY <1>7, <1>b DEF Endpoint, threadVars, brainVars, DiaryInv
<1>8. CASE \E t \in Turns : Producer(t)
  <2> SUFFICES ASSUME NEW t \in Turns, Reserve(t) \/ Token(t) \/ Complete(t) \/ Cancelled(t) \/
      ModelFails(t) \/ Return(t) \/ LateCut(t) \/ LateDiary(t) \/ EndOfPipe(t) PROVE DiaryInv'
    BY <1>8 DEF Producer
  <2>1. CASE LateDiary(t)
    BY <2>1, ClaimsOnce, <1>a DEF LateDiary, Produces, ProducerRests, ThreadRests, threadVars,
        brainVars
  <2>2. CASE Cancelled(t)
    <3>1. prod[t] = "generate" /\ prod' = [prod EXCEPT ![t] = "close"]
      BY <2>2 DEF Cancelled, Produces
    <3>2. diary' = [diary EXCEPT ![t] = Append(diary[t], "heard")] /\ deferred' = deferred
      BY <2>2 DEF Cancelled
    <3>3. Append(<<>>, "heard") \in Entries
      BY DEF Entries
    <3>4. diary[t] = <<>> /\ ~deferred[t]
      BY <3>1, <1>b DEF DiaryInv
    <3>5. diary'[t] = <<"heard">> /\ \A s \in Turns \ {t} : diary'[s] = diary[s]
      BY <3>2, <3>4, <1>b DEF DiaryInv
    <3>6. diary' \in [Turns -> Entries]
      BY <3>2, <3>3, <3>4, Excepts, <1>b DEF DiaryInv
    <3>7. prod'[t] = "close" /\ \A s \in Turns \ {t} : prod'[s] = prod[s]
      BY <3>1, <1>a
    <3> QED
      BY ONLY <3>2, <3>4, <3>5, <3>6, <3>7, <1>b DEF DiaryInv
  <2>3. CASE Reserve(t)
    BY <2>3, <1>a, <1>b DEF Reserve, Produces, ProducerRests, ThreadRests, threadVars, brainVars,
        DiaryInv
  <2>4. CASE Token(t)
    BY <2>4, <1>a, <1>b DEF Token, Produces, ProducerRests, ThreadRests, threadVars, brainVars,
        DiaryInv
  <2>5. CASE Complete(t)
    BY <2>5, <1>a, <1>b DEF Complete, Produces, ProducerRests, ThreadRests, threadVars, brainVars,
        DiaryInv
  <2>6. CASE ModelFails(t)
    BY <2>6, <1>a, <1>b DEF ModelFails, Produces, ProducerRests, ThreadRests, threadVars,
        brainVars, DiaryInv
  <2>7. CASE Return(t)
    BY <2>7, <1>a, <1>b DEF Return, Produces, ProducerRests, ThreadRests, threadVars, brainVars,
        DiaryInv
  <2>8. CASE LateCut(t)
    BY <2>8, <1>a, <1>b DEF LateCut, ProducerRests, ThreadRests, threadVars, brainVars, DiaryInv
  <2>9. CASE EndOfPipe(t)
    BY <2>9, <1>a, <1>b DEF EndOfPipe, Produces, ProducerRests, ThreadRests, threadVars,
        brainVars, DiaryInv
  <2> QED
    BY <2>1, <2>2, <2>3, <2>4, <2>5, <2>6, <2>7, <2>8, <2>9
<1>9. CASE \E t \in Turns : Worker(t)
  <2> SUFFICES ASSUME NEW t \in Turns, Speak(t) \/ PipeEnds(t) \/ Judge(t) \/ Cut(t) \/
      WorkerDiary(t) \/ Notify(t) \/ Commit(t) \/ Finish(t) PROVE DiaryInv'
    BY <1>9 DEF Worker
  <2>1. CASE WorkerDiary(t)
    BY <2>1, ClaimsOnce DEF WorkerDiary, Works, WorkerRests, ThreadRests, threadVars, brainVars
  <2>2. CASE Commit(t)
    BY <2>2, ClaimsOnce DEF Commit, Works, WorkerRests, ThreadRests, threadVars, brainVars
  <2>3. CASE Speak(t) \/ PipeEnds(t) \/ Judge(t) \/ Cut(t) \/ Notify(t) \/ Finish(t)
    BY <2>3, <1>b DEF Speak, Works, WorkerRests, ThreadRests, PipeEnds, Judge, Cut, Notify,
        Finish, threadVars, brainVars, DiaryInv
  <2> QED
    BY <2>1, <2>2, <2>3
<1>10. CASE Callback
  BY <1>10, <1>b DEF Callback, threadVars, brainVars, DiaryInv
<1>11. CASE UNCHANGED vars
  BY <1>11, <1>b DEF vars, threadVars, brainVars, DiaryInv
<1> QED
  BY <1>1, <1>2, <1>3, <1>4, <1>5, <1>6, <1>7, <1>8, <1>9, <1>10, <1>11 DEF Next
-----------------------------------------------------------------------------
(***************************************************************************)
(* Who is told of an interruption keeps only what he heard.                *)
(***************************************************************************)
LEMMA ToldInit == Init => \A t \in Turns : ToldInv(t)
BY DEF Init, ToldInv, IsTold

\* What is scheduled comes last, and the first to come is taken from the front.
LEMMA Scheduled ==
    ASSUME Types, NEW what \in {"speech", "idle", "interrupted"}, NEW s \in Turns,
           ready' = ready \o << <<what, s>> >>
    PROVE  /\ Len(ready) \in Nat /\ DOMAIN ready = 1..Len(ready) /\ DOMAIN ready' = 1..(Len(ready) + 1)
           /\ \A i \in DOMAIN ready : ready'[i] = ready[i]
           /\ ready'[Len(ready) + 1] = <<what, s>>
BY DEF Types, TurnTypes

LEMMA Taken ==
    ASSUME Types, ready # <<>>, ready' = Tail(ready)
    PROVE  /\ Len(ready) \in Nat \ {0} /\ DOMAIN ready = 1..Len(ready) /\ DOMAIN ready' = 1..(Len(ready) - 1)
           /\ \A i \in DOMAIN ready' : i + 1 \in DOMAIN ready /\ ready'[i] = ready[i + 1]
           /\ Head(ready) = ready[1]
           /\ \E what \in {"speech", "idle", "interrupted"}, s \in Turns : ready[1] = <<what, s>>
BY DEF Types, TurnTypes

\* What was promised to the user is kept: his turn stays cancelled, and its reply is cut.
LEMMA ToldStep == ASSUME Types, LockInv, FreshInv, PipeInv, NEW s \in Turns, ToldInv(s), [Next]_vars PROVE ToldInv(s)'
<1>a. /\ pc \in [Coros -> Places] /\ victim \in [Speakers -> Nat]
      /\ cancel \in [Turns -> BOOLEAN] /\ told \in [Turns -> BOOLEAN] /\ reply \in [Turns -> BOOLEAN]
      /\ work \in [Turns -> Workings] /\ prod \in [Turns -> Producings]
      /\ slot \in [Turns -> {"none", "pending", "full", "heard", "failed"}]
  BY DEF Types, LoopTypes, Standing, TurnTypes
<1>b. ToldInv(s)
  OBVIOUS
<1>1. CASE User
  <2>1. CASE SpeechStart
    BY <2>1, <1>a, <1>b, Coroutines DEF SpeechStart, Command, loopVars, micVars, turnVars,
        threadVars, brainVars, outVars, ToldInv, IsTold, WillBeCut, Goto, At
  <2>2. CASE Stop
    BY <2>2, <1>a, <1>b, Coroutines DEF Stop, Command, loopVars, micVars, turnVars, threadVars,
        brainVars, outVars, ToldInv, IsTold, WillBeCut, Goto, At
  <2>3. CASE FeedFails
    BY <2>3, <1>a, <1>b, Coroutines DEF FeedFails, loopVars, micVars, turnVars, threadVars,
        brainVars, outVars, ToldInv, IsTold, WillBeCut, Goto, At
  <2>4. CASE Close
    BY <2>4, <1>a, <1>b, Coroutines DEF Close, Command, Interrupt, loopVars, micVars, turnVars,
        threadVars, brainVars, outVars, ToldInv, IsTold, WillBeCut, Goto, At
  <2>5. CASE Typed
    BY <2>5, <1>a, <1>b, Coroutines DEF Typed, Command, loopVars, micVars, turnVars, threadVars,
        brainVars, outVars, ToldInv, IsTold, WillBeCut, Goto, At
  <2>6. CASE Barge
    BY <2>6, <1>a, <1>b, Coroutines DEF Barge, Command, Interrupt, loopVars, micVars, turnVars,
        threadVars, brainVars, outVars, ToldInv, IsTold, WillBeCut, Goto, At
  <2>7. CASE SpeechEnd
    <3>1. sttTask # 0 => sttTask \in Utterances
      BY DEF Types, MicTypes, Utterances
    <3> QED
      BY <3>1, <2>7, <1>a, <1>b, Coroutines DEF SpeechEnd, threadVars, brainVars, outVars,
          ToldInv, IsTold, WillBeCut
  <2>8. CASE ChatPreempts
    BY <2>8, <1>a, <1>b DEF ChatPreempts, loopVars, micVars, turnVars, threadVars, brainVars,
        outVars, ToldInv, IsTold, WillBeCut
  <2> QED
    BY <1>1, <2>1, <2>2, <2>3, <2>4, <2>5, <2>6, <2>7, <2>8 DEF User
<1>2. CASE CommandSteps
  <2>1. CASE StopStt
    BY <2>1, <1>a, <1>b, Coroutines DEF StopStt, loopVars, micVars, turnVars, threadVars,
        brainVars, outVars, ToldInv, IsTold, WillBeCut, Goto, At
  <2>2. CASE AwaitStt
    BY <2>2, <1>a, <1>b, Coroutines DEF AwaitStt, loopVars, micVars, turnVars, threadVars,
        brainVars, outVars, ToldInv, IsTold, WillBeCut, Goto, At
  <2>3. CASE StopTurn
    BY <2>3, <1>a, <1>b, Coroutines DEF StopTurn, Interrupt, loopVars, micVars, turnVars,
        threadVars, brainVars, outVars, ToldInv, IsTold, WillBeCut, Goto, At
  <2>4. CASE CommandDone
    BY <2>4, <1>a, <1>b, Coroutines DEF CommandDone, Rest, loopVars, micVars, turnVars,
        threadVars, brainVars, outVars, ToldInv, IsTold, WillBeCut, Goto, At
  <2>5. CASE OpenMic
    <3>1. heardAll + 1 \in Utterances
      BY <2>5, Bounds DEF OpenMic, Types, MicTypes, LoopTypes, Utterances
    <3>2. pc[Stt(heardAll + 1)] = "unborn" /\ pc[Recv] = "last"
      BY <3>1, <2>5 DEF OpenMic, At, LockInv, Types, MicTypes, Utterances
    <3> QED
      BY <3>1, <3>2, <2>5, <1>a, <1>b, Coroutines DEF OpenMic, Rest, threadVars, brainVars, outVars,
            ToldInv, IsTold, WillBeCut
  <2> QED
    BY <1>2, <2>1, <2>2, <2>3, <2>4, <2>5 DEF CommandSteps
<1>3. CASE CancelTurn
  <2> SUFFICES ASSUME NEW c \in Speakers, ClosePipe(c) \/ Notice(c) \/ CutHistory(c) \/
      CutDiary(c) PROVE ToldInv(s)'
    BY <1>3 DEF CancelTurn
  <2>1. CASE ClosePipe(c)
    BY <2>1, <1>a, <1>b, Coroutines DEF ClosePipe, loopVars, micVars, turnVars, threadVars,
        brainVars, outVars, ToldInv, IsTold, WillBeCut, Goto, At
  <2>2. CASE CutDiary(c)
    BY <2>2, <1>a, <1>b, Coroutines DEF CutDiary, loopVars, micVars, turnVars, threadVars,
        brainVars, outVars, ToldInv, IsTold, WillBeCut, Goto, At
  <2>3. CASE Notice(c)
    <3>1. victim[c] \in Turns => cancel[victim[c]]
      BY <2>3 DEF Notice, At, PipeInv, Cancelling
    <3> QED
      BY <3>1, <2>3, <1>a, <1>b, Coroutines DEF Notice, At, Goto, Truncate, Cuts, threadVars,
          brainVars, outVars, ToldInv, IsTold, WillBeCut
  <2>4. CASE CutHistory(c)
    <3>1. victim[c] \in Turns => cancel[victim[c]]
      BY <2>4 DEF CutHistory, At, PipeInv, Cancelling
    <3> QED
      BY <3>1, <2>4, <1>a, <1>b, Coroutines DEF CutHistory, At, Goto, Truncate, Cuts, threadVars,
          brainVars, outVars, ToldInv, IsTold, WillBeCut
  <2> QED
    BY <2>1, <2>2, <2>3, <2>4
<1>4. CASE Begin
  <2> SUFFICES ASSUME NEW c \in Speakers, BeginTurn(c) \/ JoinPrevious(c) \/ CreateTurn(c) \/
      StartTurn(c) PROVE ToldInv(s)'
    BY <1>4 DEF Begin
  <2>1. CASE BeginTurn(c)
    BY <2>1, <1>a, <1>b, Coroutines DEF BeginTurn, Interrupt, loopVars, micVars, turnVars,
        threadVars, brainVars, outVars, ToldInv, IsTold, WillBeCut, Goto, At
  <2>2. CASE JoinPrevious(c)
    BY <2>2, <1>a, <1>b, Coroutines DEF JoinPrevious, loopVars, micVars, turnVars, threadVars,
        brainVars, outVars, ToldInv, IsTold, WillBeCut, Goto, At
  <2>3. CASE CreateTurn(c)
    BY <2>3, <1>a, <1>b, Coroutines DEF CreateTurn, loopVars, micVars, turnVars, threadVars,
        brainVars, outVars, ToldInv, IsTold, WillBeCut, Goto, At
  <2>4. CASE StartTurn(c)
    <3>1. active \in Turns => prod[active] = "new" /\ work[active] = "new"
      BY <2>4 DEF StartTurn, At, FreshInv
    <3> QED
      BY <3>1, <2>4, <1>a, <1>b, Coroutines DEF StartTurn, LeaveTurn, Rest, At, Goto, brainVars,
            outVars, ToldInv, IsTold, WillBeCut
  <2> QED
    BY <2>1, <2>2, <2>3, <2>4
<1>5. CASE Transcription
  <2> SUFFICES ASSUME NEW u \in Utterances, SttEnds(u) \/ SttSettles(u) \/ SttDropped(u) \/
      SttFinal(u) \/ SttBegins(u) \/ SttEmpty(u) PROVE ToldInv(s)'
    BY <1>5 DEF Transcription
  <2>1. CASE SttEnds(u)
    BY <2>1, <1>a, <1>b, Coroutines DEF SttEnds, loopVars, micVars, turnVars, threadVars,
        brainVars, outVars, ToldInv, IsTold, WillBeCut, Goto, At
  <2>2. CASE SttSettles(u)
    BY <2>2, <1>a, <1>b, Coroutines DEF SttSettles, loopVars, micVars, turnVars, threadVars,
        brainVars, outVars, ToldInv, IsTold, WillBeCut, Goto, At
  <2>3. CASE SttDropped(u)
    BY <2>3, <1>a, <1>b, Coroutines DEF SttDropped, loopVars, micVars, turnVars, threadVars,
        brainVars, outVars, ToldInv, IsTold, WillBeCut, Goto, At
  <2>4. CASE SttFinal(u)
    BY <2>4, <1>a, <1>b, Coroutines DEF SttFinal, loopVars, micVars, turnVars, threadVars,
        brainVars, outVars, ToldInv, IsTold, WillBeCut, Goto, At
  <2>5. CASE SttBegins(u)
    BY <2>5, <1>a, <1>b, Coroutines DEF SttBegins, loopVars, micVars, turnVars, threadVars,
        brainVars, outVars, ToldInv, IsTold, WillBeCut, Goto, At
  <2>6. CASE SttEmpty(u)
    BY <2>6, <1>a, <1>b, Coroutines DEF SttEmpty, loopVars, micVars, turnVars, threadVars,
        brainVars, outVars, ToldInv, IsTold, WillBeCut, Goto, At
  <2> QED
    BY <2>1, <2>2, <2>3, <2>4, <2>5, <2>6
<1>6. CASE Watchdog
  <2> SUFFICES ASSUME NEW u \in Utterances, DogLeaves(u) \/ DogTimesOut(u) \/ DogWaited(u) \/
      DogSettles(u) PROVE ToldInv(s)'
    BY <1>6 DEF Watchdog
  <2>1. CASE DogLeaves(u)
    BY <2>1, <1>a, <1>b, Coroutines DEF DogLeaves, DogRests, loopVars, micVars, turnVars,
        threadVars, brainVars, outVars, ToldInv, IsTold, WillBeCut, Goto, At
  <2>2. CASE DogTimesOut(u)
    BY <2>2, <1>a, <1>b, Coroutines DEF DogTimesOut, DogRests, loopVars, micVars, turnVars,
        threadVars, brainVars, outVars, ToldInv, IsTold, WillBeCut, Goto, At
  <2>3. CASE DogWaited(u)
    BY <2>3, <1>a, <1>b, Coroutines DEF DogWaited, DogRests, loopVars, micVars, turnVars,
        threadVars, brainVars, outVars, ToldInv, IsTold, WillBeCut, Goto, At
  <2>4. CASE DogSettles(u)
    BY <2>4, <1>a, <1>b, Coroutines DEF DogSettles, DogRests, loopVars, micVars, turnVars,
        threadVars, brainVars, outVars, ToldInv, IsTold, WillBeCut, Goto, At
  <2> QED
    BY <2>1, <2>2, <2>3, <2>4
<1>7. CASE \E u \in Utterances : Endpoint(u)
  <2> SUFFICES ASSUME NEW u \in Utterances, Endpoint(u) PROVE ToldInv(s)'
    BY <1>7
  <2>1. CASE Endpoint(u)
    BY <2>1, <1>a, <1>b, Coroutines DEF Endpoint, loopVars, micVars, turnVars, threadVars,
        brainVars, outVars, ToldInv, IsTold, WillBeCut, Goto, At
  <2> QED
    BY <2>1
<1>8. CASE \E t \in Turns : Producer(t)
  <2> SUFFICES ASSUME NEW t \in Turns, Reserve(t) \/ Token(t) \/ Complete(t) \/ Cancelled(t) \/
      ModelFails(t) \/ Return(t) \/ LateCut(t) \/ LateDiary(t) \/ EndOfPipe(t) PROVE ToldInv(s)'
    BY <1>8 DEF Producer
  <2>1. CASE Reserve(t)
    BY <2>1, <1>a, <1>b DEF Reserve, Produces, Claim, ProducerRests, ThreadRests, loopVars,
        micVars, turnVars, threadVars, brainVars, outVars, Cuts, ToldInv, IsTold, WillBeCut
  <2>2. CASE Token(t)
    BY <2>2, <1>a, <1>b DEF Token, Produces, ProducerRests, ThreadRests, loopVars, micVars,
        turnVars, threadVars, brainVars, outVars, Cuts, ToldInv, IsTold, WillBeCut
  <2>3. CASE Complete(t)
    BY <2>3, <1>a, <1>b DEF Complete, Produces, ProducerRests, ThreadRests, loopVars, micVars,
        turnVars, threadVars, brainVars, outVars, Cuts, ToldInv, IsTold, WillBeCut
  <2>4. CASE Cancelled(t)
    BY <2>4, <1>a, <1>b DEF Cancelled, Produces, ProducerRests, ThreadRests, loopVars, micVars,
        turnVars, threadVars, brainVars, outVars, Cuts, ToldInv, IsTold, WillBeCut
  <2>5. CASE ModelFails(t)
    BY <2>5, <1>a, <1>b DEF ModelFails, Produces, ProducerRests, ThreadRests, loopVars, micVars,
        turnVars, threadVars, brainVars, outVars, Cuts, ToldInv, IsTold, WillBeCut
  <2>6. CASE Return(t)
    BY <2>6, <1>a, <1>b DEF Return, Produces, ProducerRests, ThreadRests, loopVars, micVars,
        turnVars, threadVars, brainVars, outVars, Cuts, ToldInv, IsTold, WillBeCut
  <2>7. CASE LateCut(t)
    BY <2>7, <1>a, <1>b DEF LateCut, Truncate, ProducerRests, ThreadRests, loopVars, micVars,
        turnVars, threadVars, brainVars, outVars, Cuts, ToldInv, IsTold, WillBeCut
  <2>8. CASE LateDiary(t)
    BY <2>8, <1>a, <1>b DEF LateDiary, Produces, ProducerRests, ThreadRests, loopVars, micVars,
        turnVars, threadVars, brainVars, outVars, Cuts, ToldInv, IsTold, WillBeCut
  <2>9. CASE EndOfPipe(t)
    BY <2>9, <1>a, <1>b DEF EndOfPipe, Produces, ProducerRests, ThreadRests, loopVars, micVars,
        turnVars, threadVars, brainVars, outVars, Cuts, ToldInv, IsTold, WillBeCut
  <2> QED
    BY <2>1, <2>2, <2>3, <2>4, <2>5, <2>6, <2>7, <2>8, <2>9
<1>9. CASE \E t \in Turns : Worker(t)
  <2> SUFFICES ASSUME NEW t \in Turns, Speak(t) \/ PipeEnds(t) \/ Judge(t) \/ Cut(t) \/
      WorkerDiary(t) \/ Notify(t) \/ Commit(t) \/ Finish(t) PROVE ToldInv(s)'
    BY <1>9 DEF Worker
  <2>1. CASE PipeEnds(t)
    BY <2>1, <1>a, <1>b DEF PipeEnds, Works, WorkerRests, ThreadRests, loopVars, micVars,
        turnVars, threadVars, brainVars, outVars, Cuts, ToldInv, IsTold, WillBeCut
  <2>2. CASE Judge(t)
    BY <2>2, <1>a, <1>b DEF Judge, WorkerRests, ThreadRests, loopVars, micVars, turnVars,
        threadVars, brainVars, outVars, Cuts, ToldInv, IsTold, WillBeCut
  <2>3. CASE Cut(t)
    BY <2>3, <1>a, <1>b DEF Cut, Truncate, ThreadRests, loopVars, micVars, turnVars, threadVars,
        brainVars, outVars, Cuts, ToldInv, IsTold, WillBeCut
  <2>4. CASE WorkerDiary(t)
    BY <2>4, <1>a, <1>b DEF WorkerDiary, Works, WorkerRests, ThreadRests, loopVars, micVars,
        turnVars, threadVars, brainVars, outVars, Cuts, ToldInv, IsTold, WillBeCut
  <2>5. CASE Commit(t)
    BY <2>5, <1>a, <1>b DEF Commit, Works, WorkerRests, ThreadRests, loopVars, micVars, turnVars,
        threadVars, brainVars, outVars, Cuts, ToldInv, IsTold, WillBeCut
  <2>6. CASE Speak(t)
    <3>1. /\ \A i \in DOMAIN ready : ready'[i] = ready[i]
          /\ \A i \in DOMAIN ready' : i \in DOMAIN ready \/ ready'[i] = <<"speech", t>>
      BY <2>6, Scheduled DEF Speak, Schedule
    <3>2. UNCHANGED <<loopVars, prod, slot, reply, cancel, told>>
      BY <2>6 DEF Speak, WorkerRests, ThreadRests
    <3> QED
      BY <3>1, <3>2, <2>6, <1>a, <1>b DEF Speak, Works, loopVars, ToldInv, IsTold, WillBeCut
  <2>7. CASE Notify(t)
    <3>1. /\ \A i \in DOMAIN ready : ready'[i] = ready[i]
          /\ \A i \in DOMAIN ready' : i \in DOMAIN ready \/ ready'[i] = <<"interrupted", t>>
      BY <2>7, Scheduled DEF Notify, Schedule
    <3>2. UNCHANGED <<loopVars, prod, slot, reply, cancel, told>>
      BY <2>7 DEF Notify, WorkerRests, ThreadRests
    <3> QED
      BY <3>1, <3>2, <2>7, <1>a, <1>b DEF Notify, Works, loopVars, ToldInv, IsTold, WillBeCut
  <2>8. CASE Finish(t)
    <3>1. /\ \A i \in DOMAIN ready : ready'[i] = ready[i]
          /\ \A i \in DOMAIN ready' : i \in DOMAIN ready \/ ready'[i] = <<"idle", t>>
      BY <2>8, Scheduled DEF Finish, Schedule
    <3>2. UNCHANGED <<loopVars, prod, slot, reply, cancel, told>>
      BY <2>8 DEF Finish, WorkerRests, ThreadRests
    <3> QED
      BY <3>1, <3>2, <2>8, <1>a, <1>b DEF Finish, Works, loopVars, ToldInv, IsTold, WillBeCut
  <2> QED
    BY <2>1, <2>2, <2>3, <2>4, <2>5, <2>6, <2>7, <2>8
<1>10. CASE Callback
  <2>1. /\ \A i \in DOMAIN ready' : i + 1 \in DOMAIN ready /\ ready'[i] = ready[i + 1]
        /\ Head(ready) = ready[1] /\ 1 \in DOMAIN ready
        /\ \E what \in {"speech", "idle", "interrupted"}, r \in Turns : ready[1] = <<what, r>>
    BY <1>10, Taken DEF Callback
  <2>2. told'[s] => told[s] \/ ready[1] = <<"interrupted", s>>
    BY <1>10, <2>1, <1>a DEF Callback
  <2>3. IsTold(s)' => IsTold(s)
    BY <1>10, <2>1, <2>2 DEF Callback, IsTold, threadVars
  <2>4. UNCHANGED <<loopVars, threadVars, slot, reply, cancel>>
    BY <1>10 DEF Callback, brainVars
  <2> QED
    BY <2>3, <2>4, <1>a, <1>b DEF loopVars, threadVars, ToldInv, WillBeCut
<1>11. CASE UNCHANGED vars
  BY <1>11, <1>a, <1>b DEF vars, loopVars, micVars, turnVars, threadVars, brainVars, outVars,
      ToldInv, IsTold, WillBeCut
<1> QED
  BY <1>1, <1>2, <1>3, <1>4, <1>5, <1>6, <1>7, <1>8, <1>9, <1>10, <1>11 DEF Next
-----------------------------------------------------------------------------
(***************************************************************************)
(* A phase that says speaking has a turn to end it.                        *)
(***************************************************************************)
LEMMA ReadyInit == Init => ReadyInv
BY DEF Init, ReadyInv, SpeakingHasATurn, Speaking

\* The turns stay within the script, before a step and after it.
LEMMA TurnsFit == ASSUME Types, FreshInv, RoomInv PROVE turns \in 0..MaxTurns /\ active \in 0..MaxTurns
BY Bounds, ComingIsFinite DEF Types, TurnTypes, LoopTypes, FreshInv, RoomInv, Promised

LEMMA NextTurnsFit == ASSUME Types', RoomInv' PROVE turns' \in 0..MaxTurns
<1>1. Cardinality(Coming)' \in Nat
  <2>1. IsFiniteSet(Utterances) /\ Coming' \subseteq Utterances
    BY Bounds, FS_Interval DEF Utterances, Coming
  <2> QED
    BY <2>1, FS_Subset, FS_CardinalityType
<1>2. turns' \in Nat /\ script' \in Scripts
  BY DEF Types, TurnTypes, LoopTypes
<1>3. Promised' \in 0..1
  BY DEF Promised
<1>4. script'.turns \in 0..MaxTurns /\ MaxTurns \in Nat
  BY <1>2, Bounds
<1>5. turns' + Cardinality(Coming)' + Promised' <= script'.turns
  BY DEF RoomInv
<1> QED
  BY <1>1, <1>2, <1>3, <1>4, <1>5

\* A turn's phase outlives its worker only while the end of the turn is scheduled.
LEMMA ReadyStep == ASSUME Types, FreshInv, RoomInv, ReadyInv, Types', RoomInv', [Next]_vars PROVE ReadyInv'
<1>a. /\ active \in 0..MaxTurns /\ work \in [Turns -> Workings] /\ Turns = 1..MaxTurns /\ MaxTurns \in Nat
      /\ closed \in BOOLEAN
  BY Bounds, TurnsFit DEF Types, LoopTypes, TurnTypes, Turns
<1>b. ReadyInv
  OBVIOUS
<1>1. CASE User
  BY <1>1, <1>a, <1>b DEF User, SpeechStart, Command, Stop, FeedFails, Close, Interrupt, Typed,
      Barge, SpeechEnd, ChatPreempts, turnVars, threadVars, outVars, ReadyInv, Followed,
      SpeakingHasATurn, Speaking, Minded
<1>2. CASE CommandSteps
  BY <1>2, <1>a, <1>b DEF CommandSteps, StopStt, AwaitStt, StopTurn, Interrupt, OpenMic, Rest,
      CommandDone, turnVars, threadVars, outVars, ReadyInv, Followed, SpeakingHasATurn, Speaking,
      Minded
<1>3. CASE CancelTurn
  BY <1>3, <1>a, <1>b DEF CancelTurn, ClosePipe, Notice, CutHistory, CutDiary, turnVars,
      threadVars, outVars, ReadyInv, Followed, SpeakingHasATurn, Speaking, Minded
<1>4. CASE Begin
  <2> SUFFICES ASSUME NEW c \in Speakers, BeginTurn(c) \/ JoinPrevious(c) \/ CreateTurn(c) \/
      StartTurn(c) PROVE ReadyInv'
    BY <1>4 DEF Begin
  <2>1. CASE CreateTurn(c)
    <3>1. turns' \in 1..MaxTurns
      BY <2>1, NextTurnsFit DEF CreateTurn, Types, TurnTypes
    <3>2. active' \in Turns /\ work[active'] = "new"
      BY <3>1, <2>1, <1>a DEF CreateTurn, FreshInv, Types, TurnTypes
    <3> QED
      BY <3>2, <2>1, <1>a, <1>b DEF CreateTurn, threadVars, outVars, ReadyInv, Followed,
          SpeakingHasATurn, Minded
  <2>2. CASE BeginTurn(c) \/ JoinPrevious(c) \/ StartTurn(c)
    BY <2>2, <1>a, <1>b DEF BeginTurn, Interrupt, JoinPrevious, StartTurn, LeaveTurn, Rest,
        turnVars, threadVars, outVars, ReadyInv, Followed, SpeakingHasATurn, Speaking, Minded
  <2> QED
    BY <2>1, <2>2
<1>5. CASE Transcription
  BY <1>5, <1>a, <1>b DEF Transcription, SttEnds, SttSettles, SttDropped, SttFinal, SttBegins,
      SttEmpty, turnVars, threadVars, outVars, ReadyInv, Followed, SpeakingHasATurn, Speaking,
      Minded
<1>6. CASE Watchdog
  BY <1>6, <1>a, <1>b DEF Watchdog, DogLeaves, DogRests, DogTimesOut, DogWaited, DogSettles,
      turnVars, threadVars, outVars, ReadyInv, Followed, SpeakingHasATurn, Speaking, Minded
<1>7. CASE \E u \in Utterances : Endpoint(u)
  BY <1>7, <1>a, <1>b DEF Endpoint, turnVars, threadVars, outVars, ReadyInv, Followed,
      SpeakingHasATurn, Speaking, Minded
<1>8. CASE \E t \in Turns : Producer(t)
  BY <1>8, <1>a, <1>b DEF Producer, Reserve, Produces, ProducerRests, ThreadRests, Token,
      Complete, Cancelled, ModelFails, Return, LateCut, LateDiary, EndOfPipe, turnVars,
      threadVars, outVars, ReadyInv, Followed, SpeakingHasATurn, Speaking, Minded
<1>9. CASE \E t \in Turns : Worker(t)
  <2> SUFFICES ASSUME NEW t \in Turns, Speak(t) \/ PipeEnds(t) \/ Judge(t) \/ Cut(t) \/
      WorkerDiary(t) \/ Notify(t) \/ Commit(t) \/ Finish(t) PROVE ReadyInv'
    BY <1>9 DEF Worker
  <2>1. CASE Speak(t)
    <3>1. /\ \A i \in DOMAIN ready : i \in DOMAIN ready' /\ ready'[i] = ready[i]
          /\ \A i \in DOMAIN ready' : i \in DOMAIN ready \/ ready'[i] = <<"speech", t>>
      BY <2>1, Scheduled DEF Speak, Schedule
    <3>2. work[t] = "speak" /\ UNCHANGED <<phase, closed, active>> /\ work' = [work EXCEPT ![t] = "speak"]
      BY <2>1 DEF Speak, Works, WorkerRests, ThreadRests, turnVars
    <3>3. ASSUME NEW i \in DOMAIN ready', NEW s \in Turns, ready'[i] = <<"speech", s>>
          PROVE  work'[s] # "done" \/ Followed(i, s)'
      BY <3>1, <3>2, <3>3, <1>a, <1>b DEF ReadyInv, Followed, Endings
    <3>4. SpeakingHasATurn'
      BY <3>1, <3>2, <1>a, <1>b DEF ReadyInv, SpeakingHasATurn, Speaking, Minded
    <3> QED
      BY <3>3, <3>4 DEF ReadyInv
  <2>2. CASE Notify(t)
    <3> DEFINE n == Len(ready) + 1
    <3>1. /\ \A i \in DOMAIN ready : i \in DOMAIN ready' /\ ready'[i] = ready[i] /\ n > i
          /\ \A i \in DOMAIN ready' : i \in DOMAIN ready \/ i = n
          /\ n \in DOMAIN ready' /\ ready'[n] = <<"interrupted", t>>
      BY <2>2, Scheduled DEF Notify, Schedule
    <3>2. work' = [work EXCEPT ![t] = "done"] /\ UNCHANGED <<phase, closed, active>>
      BY <2>2 DEF Notify, Works, WorkerRests, ThreadRests, turnVars
    <3> HIDE DEF n
    <3>3. ASSUME NEW i \in DOMAIN ready', NEW s \in Turns, ready'[i] = <<"speech", s>>
          PROVE  work'[s] # "done" \/ Followed(i, s)'
      <4>1. i \in DOMAIN ready /\ ready[i] = <<"speech", s>>
        BY <3>1, <3>3
      <4>2. CASE s = t
        BY <4>1, <4>2, <3>1 DEF Followed, Endings
      <4>3. CASE s # t
        BY <4>1, <4>3, <3>1, <3>2, <1>a, <1>b DEF ReadyInv, Followed
      <4> QED
        BY <4>2, <4>3
    <3>4. SpeakingHasATurn'
      BY <3>1, <3>2, <1>a, <1>b DEF ReadyInv, SpeakingHasATurn, Speaking, Minded
    <3> QED
      BY <3>3, <3>4 DEF ReadyInv
  <2>3. CASE Finish(t)
    <3> DEFINE n == Len(ready) + 1
    <3>1. /\ \A i \in DOMAIN ready : i \in DOMAIN ready' /\ ready'[i] = ready[i] /\ n > i
          /\ \A i \in DOMAIN ready' : i \in DOMAIN ready \/ i = n
          /\ n \in DOMAIN ready' /\ ready'[n] = <<"idle", t>>
      BY <2>3, Scheduled DEF Finish, Schedule
    <3>2. work' = [work EXCEPT ![t] = "done"] /\ UNCHANGED <<phase, closed, active>>
      BY <2>3 DEF Finish, Works, WorkerRests, ThreadRests, turnVars
    <3> HIDE DEF n
    <3>3. ASSUME NEW i \in DOMAIN ready', NEW s \in Turns, ready'[i] = <<"speech", s>>
          PROVE  work'[s] # "done" \/ Followed(i, s)'
      <4>1. i \in DOMAIN ready /\ ready[i] = <<"speech", s>>
        BY <3>1, <3>3
      <4>2. CASE s = t
        BY <4>1, <4>2, <3>1 DEF Followed, Endings
      <4>3. CASE s # t
        BY <4>1, <4>3, <3>1, <3>2, <1>a, <1>b DEF ReadyInv, Followed
      <4> QED
        BY <4>2, <4>3
    <3>4. SpeakingHasATurn'
      BY <3>1, <3>2, <1>a, <1>b DEF ReadyInv, SpeakingHasATurn, Speaking, Minded
    <3> QED
      BY <3>3, <3>4 DEF ReadyInv
  <2>4. CASE PipeEnds(t) \/ Judge(t) \/ Cut(t) \/ WorkerDiary(t) \/ Commit(t)
    BY <2>4, <1>a, <1>b DEF PipeEnds, Works, WorkerRests, ThreadRests, Judge, Cut, WorkerDiary,
        Commit, turnVars, threadVars, outVars, ReadyInv, Followed, SpeakingHasATurn, Speaking,
        Minded
  <2> QED
    BY <2>1, <2>2, <2>3, <2>4
<1>10. CASE Callback
  <2>1. /\ \A i \in DOMAIN ready' : i + 1 \in DOMAIN ready /\ ready'[i] = ready[i + 1]
        /\ \A i \in DOMAIN ready : i > 1 => i - 1 \in DOMAIN ready' /\ ready[i] = ready'[i - 1]
        /\ Head(ready) = ready[1] /\ 1 \in DOMAIN ready /\ DOMAIN ready \subseteq Nat /\ DOMAIN ready' \subseteq Nat
    BY <1>10, Taken DEF Callback
  <2>2. UNCHANGED <<work, closed, active>>
    BY <1>10 DEF Callback, threadVars, turnVars
  <2>3. ASSUME NEW i \in DOMAIN ready', NEW s \in Turns, ready'[i] = <<"speech", s>>
        PROVE  work'[s] # "done" \/ Followed(i, s)'
    <3>1. work[s] # "done" \/ Followed(i + 1, s)
      BY <2>1, <2>3, <1>b DEF ReadyInv
    <3>2. ASSUME NEW j \in DOMAIN ready, j > i + 1, ready[j] \in Endings(s)
          PROVE  Followed(i, s)'
      <4>1. j - 1 \in DOMAIN ready' /\ ready'[j - 1] \in Endings(s) /\ j - 1 > i
        BY <2>1, <3>2
      <4> QED
        BY <4>1 DEF Followed, Endings
    <3> QED
      BY <3>1, <3>2, <2>2 DEF Followed
  <2>4. PICK what \in {"speech", "idle", "interrupted"}, r \in Turns : ready[1] = <<what, r>>
    BY <1>10, Taken DEF Callback
  <2>5. ASSUME NEW j \in DOMAIN ready, j > 1, ready[j] \in Endings(active)
        PROVE  Minded'
    <3>1. j - 1 \in DOMAIN ready' /\ ready'[j - 1] \in Endings(active)
      BY <2>1, <2>5
    <3> QED
      BY <3>1, <2>2 DEF Minded, Endings
  <2>6. CASE what = "speech" /\ MaySend(r)
    <3>1. active = r /\ active # 0
      BY <2>6, <1>a DEF MaySend, IsCurrent
    <3>2. work[r] # "done" \/ Followed(1, r)
      BY <2>1, <2>4, <2>6, <1>b DEF ReadyInv
    <3>3. Minded'
      BY <3>1, <3>2, <2>2, <2>5 DEF Followed, Minded
    <3> QED
      BY <2>2, <2>3, <3>1, <3>3 DEF ReadyInv, SpeakingHasATurn
  <2>7. CASE what # "speech" /\ IsCurrent(r)
    <3>1. phase' = "idle"
      BY <1>10, <2>1, <2>4, <2>7 DEF Callback, MaySend
    <3> QED
      BY <2>3, <3>1 DEF ReadyInv, SpeakingHasATurn, Speaking
  <2>8. CASE ~(what = "speech" /\ MaySend(r)) /\ ~(what # "speech" /\ IsCurrent(r))
    <3>1. phase' = phase
      BY <1>10, <2>1, <2>4, <2>8 DEF Callback
    <3>2. ASSUME Speaking, ~closed
          PROVE  active # 0 /\ Minded'
      <4>1. active # 0 /\ Minded
        BY <3>2, <1>b DEF ReadyInv, SpeakingHasATurn
      <4>2. ready[1] \notin Endings(active)
        BY <3>2, <2>4, <2>8 DEF IsCurrent, Endings
      <4>3. \A j \in DOMAIN ready : j # 1 => j > 1
        BY <2>1, Taken, <1>10 DEF Callback
      <4> QED
        BY <4>1, <4>2, <4>3, <2>2, <2>5 DEF Minded, Endings
    <3> QED
      BY <3>1, <3>2, <2>2, <2>3 DEF ReadyInv, SpeakingHasATurn, Speaking
  <2> QED
    BY <2>6, <2>7, <2>8
<1>11. CASE UNCHANGED vars
  BY <1>11, <1>a, <1>b DEF vars, turnVars, threadVars, outVars, ReadyInv, Followed,
      SpeakingHasATurn, Speaking, Minded
<1> QED
  BY <1>1, <1>2, <1>3, <1>4, <1>5, <1>6, <1>7, <1>8, <1>9, <1>10, <1>11 DEF Next

-----------------------------------------------------------------------------
(***************************************************************************)
(* The invariant, and what it says of the session.                         *)
(***************************************************************************)
LEMMA VoiceInvInit == Init => VoiceInv
BY TypesInit, LocksInit, FreshInit, RoomInit, PipesInit, DiariesInit, ToldInit, ReadyInit
   DEF VoiceInv, Types

LEMMA VoiceInvStep == VoiceInv /\ [Next]_vars => VoiceInv'
<1> SUFFICES ASSUME VoiceInv, [Next]_vars PROVE VoiceInv'
  OBVIOUS
<1>1. /\ Types /\ LockInv /\ FreshInv /\ RoomInv /\ PipeInv /\ DiaryInv /\ ReadyInv
      /\ \A t \in Turns : ToldInv(t)
  BY DEF VoiceInv, Types
<1>2. LoopTypes' /\ MicTypes' /\ LockTypes' /\ TurnTypes'
  BY <1>1, LoopTypesStep, MicTypesStep, LockTypesStep, TurnTypesStep
<1>3. LockInv' /\ FreshInv' /\ RoomInv'
  BY <1>1, LocksStep, FreshStep, RoomStep
<1>4. PipeInv' /\ DiaryInv'
  BY <1>1, PipesStep, DiariesStep
<1>5. ReadyInv'
  BY <1>1, <1>2, <1>3, ReadyStep DEF Types
<1>6. \A t \in Turns : ToldInv(t)'
  BY <1>1, ToldStep
<1> QED
  BY <1>2, <1>3, <1>4, <1>5, <1>6 DEF VoiceInv

\* What the coroutines hold, what the threads of a turn may have done, and what is scheduled.
THEOREM VoiceInvariant == Spec => []VoiceInv
BY VoiceInvInit, VoiceInvStep, PTL DEF Spec

\* Every variable has its type, no turn is beyond the script's, and a pipe holds its sentinel
\* within its capacity (_TokenPipe.close drops backlog for it; put() looks at the flag).
THEOREM TypesHold == Spec => []TypeOK
<1>1. VoiceInv => TypeOK
  <2> SUFFICES ASSUME VoiceInv PROVE TypeOK
    OBVIOUS
  <2>1. turns \in 0..MaxTurns /\ active \in 0..MaxTurns
    BY TurnsFit DEF VoiceInv, Types
  <2>2. \A t \in Turns : tokens[t] \in 0..(IF eof[t] THEN PipeCap - 1 ELSE PipeCap)
    BY Bounds DEF VoiceInv, TurnTypes, PipeInv
  <2> QED
    BY <2>1, <2>2 DEF VoiceInv, TypeOK, LoopTypes, Standing, MicTypes, LockTypes, TurnTypes
<1> QED
  BY <1>1, VoiceInvariant, PTL

\* While the tail of an utterance starts a turn nothing invalidates the utterance: the epoch
\* moves on only under the lock the tail commits under.
THEOREM TailsStayValid == Spec => []OnlyValidTailsStart
<1>1. VoiceInv => OnlyValidTailsStart
  BY DEF VoiceInv, LockInv, OnlyValidTailsStart
<1> QED
  BY <1>1, VoiceInvariant, PTL

\* The socket loop, the producer and the worker write at most one entry for a reply.
THEOREM OneDiaryEntry == Spec => []DiaryOnce
<1>1. VoiceInv => DiaryOnce
  <2> SUFFICES ASSUME VoiceInv, NEW t \in Turns PROVE Len(diary[t]) <= 1
    BY DEF DiaryOnce
  <2>1. diary[t] \in {<<>>, <<"heard">>, <<"full">>}
    BY DEF VoiceInv, DiaryInv, Entries
  <2>2. CASE diary[t] = <<>>
    BY <2>2
  <2>3. CASE diary[t] = <<"heard">>
    BY <2>3
  <2>4. CASE diary[t] = <<"full">>
    BY <2>4
  <2> QED
    BY <2>1, <2>2, <2>3, <2>4
<1> QED
  BY <1>1, VoiceInvariant, PTL

\* Whoever was told of an interruption finds only what he heard in the history, whichever of
\* the three cut it and whenever the reply came.
THEOREM TheToldAreTruncated == Spec => []InterruptedIsTruncated
<1>1. VoiceInv => InterruptedIsTruncated
  <2> SUFFICES ASSUME VoiceInv, NEW t \in Turns, Rests(t), told[t]
               PROVE  slot[t] \notin {"full", "pending"}
    BY DEF InterruptedIsTruncated
  <2>1. ToldInv(t)
    BY DEF VoiceInv
  <2>2. WillBeCut(t)
    BY <2>1 DEF ToldInv, IsTold
  <2>3. prod[t] = "done" /\ \A c \in Speakers : victim[c] # t \/ pc[c] # "history"
    BY DEF Rests
  <2> QED
    BY <2>1, <2>2, <2>3 DEF ToldInv, WillBeCut
<1> QED
  BY <1>1, VoiceInvariant, PTL

\* The phase says thinking or speaking only while a turn will end it.
THEOREM SpeakingIsMinded == Spec => []SpeakingHasATurn
<1>1. VoiceInv => SpeakingHasATurn
  BY DEF VoiceInv, ReadyInv
<1> QED
  BY <1>1, VoiceInvariant, PTL

-----------------------------------------------------------------------------
(* The reading of a word is that of the first table that claims it.        *)

VARIABLES merged, words, plain, looked
Reading == INSTANCE Lexicon WITH read <- looked

\* A key is read from the least of the tables that claim it.
ReadFrom(n, S) == IF S = {} THEN n = 0 ELSE n \in S /\ \A m \in S : n <= m
ReadingInv ==
    /\ merged \in Nat
    /\ words = [k \in Reading!Keys |-> words[k]] /\ plain = [k \in Reading!Keys |-> plain[k]]
    /\ \A k \in Reading!Keys :
        /\ ReadFrom(words[k], Reading!Claimants(k))
        /\ ReadFrom(plain[k], Reading!Claimants(k) \ {Reading!AcronymTable})

LEMMA FirstIs ==
    ASSUME NEW n, NEW S \in SUBSET Nat, ReadFrom(n, S) PROVE n = Reading!First(S)
<1>1. CASE S = {}
  BY <1>1 DEF ReadFrom, Reading!First, Reading!None
<1>2. CASE S # {}
  <2> DEFINE F == Reading!First(S)
  <2>1. n \in S /\ \A m \in S : n <= m
    BY <1>2 DEF ReadFrom
  <2>2. F \in S /\ \A m \in S : F <= m
    BY <1>2, <2>1 DEF Reading!First
  <2>3. n <= F /\ F <= n /\ n \in Nat /\ F \in Nat
    BY <2>1, <2>2
  <2> QED
    BY <2>3
<1> QED
  BY <1>1, <1>2

LEMMA ClaimantsGrow ==
    ASSUME merged \in Nat, merged' = merged + 1, NEW k
    PROVE  /\ Reading!Claimants(k) \in SUBSET (1..merged)
           /\ (Reading!Claimants(k))' =
                IF k \in Reading!SOURCES[merged + 1] THEN Reading!Claimants(k) \cup {merged + 1}
                ELSE Reading!Claimants(k)
<1>1. 1..(merged + 1) = 1..merged \cup {merged + 1}
  OBVIOUS
<1> QED
  BY <1>1, Zenon DEF Reading!Claimants

LEMMA NextClaim ==
    ASSUME NEW m \in Nat, NEW S \in SUBSET (1..m), NEW n, ReadFrom(n, S)
    PROVE  /\ n = 0 <=> S = {}
           /\ ReadFrom(IF n = 0 THEN m + 1 ELSE n, S \cup {m + 1})
<1>1. \A k \in S : k \in Nat /\ 0 < k /\ k <= m
  OBVIOUS
<1>2. CASE S = {}
  BY <1>2 DEF ReadFrom
<1>3. CASE S # {}
  <2>1. n \in S /\ \A k \in S : n <= k
    BY <1>3 DEF ReadFrom
  <2>2. n # 0 /\ n <= m + 1
    BY <1>1, <2>1
  <2>3. \A k \in S \cup {m + 1} : n <= k
    BY <2>1, <2>2
  <2> QED
    BY <1>3, <2>1, <2>2, <2>3, Zenon DEF ReadFrom
<1> QED
  BY <1>2, <1>3

LEMMA ReadingStep ==
    ASSUME ReadingInv, [Reading!Next]_(Reading!vars) PROVE ReadingInv'
<1>1. CASE UNCHANGED <<merged, words, plain>>
  BY <1>1 DEF ReadingInv, Reading!Claimants
<1>2. CASE Reading!Merge
  <2>1. /\ merged \in Nat /\ merged' = merged + 1
        /\ words' = Reading!Claim(words, merged + 1)
        /\ plain' = IF Reading!Skips(merged + 1) THEN plain ELSE Reading!Claim(plain, merged + 1)
    BY <1>2 DEF Reading!Merge, ReadingInv
  <2>2. /\ words' = [k \in Reading!Keys |-> words'[k]]
        /\ plain' = [k \in Reading!Keys |-> plain'[k]]
    BY <2>1, Zenon DEF Reading!Claim, ReadingInv
  <2> SUFFICES ASSUME NEW k \in Reading!Keys
               PROVE  /\ ReadFrom(words'[k], (Reading!Claimants(k))')
                      /\ ReadFrom(plain'[k], (Reading!Claimants(k))' \ {Reading!AcronymTable})
    <3>1. merged' \in Nat
      BY <2>1
    <3> QED
      BY <2>2, <3>1, Zenon DEF ReadingInv
  <2> DEFINE S == Reading!Claimants(k)
             n == merged + 1
             A == {Reading!AcronymTable}
  <2>3. /\ ReadFrom(words[k], S) /\ ReadFrom(plain[k], S \ A)
        /\ S \in SUBSET (1..merged) /\ S \ A \in SUBSET (1..merged)
    BY <2>1, ClaimantsGrow DEF ReadingInv
  <2>4. words'[k] = IF k \in Reading!SOURCES[n] /\ words[k] = 0 THEN n ELSE words[k]
    BY <2>1, Zenon DEF Reading!Claim, Reading!None
  <2>5. plain'[k] = IF n # Reading!AcronymTable /\ k \in Reading!SOURCES[n] /\ plain[k] = 0
                    THEN n ELSE plain[k]
    BY <2>1, Zenon DEF Reading!Claim, Reading!None, Reading!Skips
  <2>6. CASE k \notin Reading!SOURCES[n]
    BY <2>1, <2>3, <2>4, <2>5, <2>6, ClaimantsGrow, Zenon
  <2>7. CASE k \in Reading!SOURCES[n]
    <3>1. (Reading!Claimants(k))' = S \cup {n}
      BY <2>1, <2>7, ClaimantsGrow, Zenon
    <3>2. ReadFrom(words'[k], S \cup {n})
      BY <2>1, <2>3, <2>4, <2>7, NextClaim
    <3>3. CASE n = Reading!AcronymTable
      <4>1. (S \cup {n}) \ A = S \ A
        BY <3>3
      <4> QED
        BY <2>3, <2>5, <3>1, <3>2, <3>3, <4>1, Zenon
    <3>4. CASE n # Reading!AcronymTable
      <4>1. (S \cup {n}) \ A = (S \ A) \cup {n}
        BY <3>4
      <4>2. plain'[k] = IF plain[k] = 0 THEN merged + 1 ELSE plain[k]
        BY <2>5, <2>7, <3>4, Zenon
      <4>3. ReadFrom(plain'[k], (S \ A) \cup {n})
        <5>1. PICK T \in SUBSET (1..merged) : T = S \ A /\ ReadFrom(plain[k], T)
          BY <2>3, Zenon
        <5>2. ReadFrom(IF plain[k] = 0 THEN merged + 1 ELSE plain[k], T \cup {merged + 1})
          BY <2>1, <5>1, NextClaim, Zenon
        <5> QED
          BY <4>2, <5>1, <5>2, Zenon
      <4> QED
        BY <3>1, <3>2, <4>1, <4>3, Zenon
    <3> QED
      BY <3>3, <3>4
  <2> QED
    BY <2>6, <2>7
<1> QED
  BY <1>1, <1>2 DEF Reading!Next, Reading!Read, Reading!vars

\* Each word is read from the first of the tables merged so far that claims it, and from the
\* first other than the acronyms where acronyms are left out (setdefault in
\* lexicon/__init__.py).
THEOREM TheFirstTableWins == Reading!Spec => []Reading!FirstClaimWins
<1>1. Reading!Init => ReadingInv
  <2>1. ASSUME Reading!Init PROVE ReadingInv
    <3>1. /\ merged = 0 /\ words = [k \in Reading!Keys |-> 0] /\ plain = [k \in Reading!Keys |-> 0]
      BY <2>1 DEF Reading!Init, Reading!None
    <3>2. \A k : Reading!Claimants(k) = {}
      BY <3>1 DEF Reading!Claimants
    <3> QED
      BY <3>1, <3>2 DEF ReadingInv, ReadFrom
  <2> QED
    BY <2>1
<1>2. ReadingInv /\ [Reading!Next]_(Reading!vars) => ReadingInv'
  BY ReadingStep
<1>3. ReadingInv => Reading!FirstClaimWins
  <2> SUFFICES ASSUME ReadingInv, NEW k \in Reading!Keys
               PROVE  /\ words[k] = Reading!First(Reading!Claimants(k))
                      /\ plain[k] = Reading!First(Reading!Claimants(k) \ {Reading!AcronymTable})
    BY DEF Reading!FirstClaimWins
  <2>1. Reading!Claimants(k) \in SUBSET Nat
    BY DEF Reading!Claimants
  <2> QED
    BY <2>1, FirstIs DEF ReadingInv
<1> QED
  BY <1>1, <1>2, <1>3, PTL DEF Reading!Spec

-----------------------------------------------------------------------------
(* A loanword keeps its vowels and the consonants that are heard.          *)

CONSTANTS Sounds, MaxLen
VARIABLES word, token, syllables, onset, glide, short
Sound == INSTANCE Hangulize WITH at <- token

\* The phonemes are those the assembly knows, and words may be of any length.
Consonants == {"k", "t", "s", "sh", "m", "n", "ng", "l", "r", "h", "d"}
SoundsAssumption ==
    Sounds \subseteq Sound!Vowels \cup Sound!Glides \cup Consonants /\ MaxLen \in Nat

Onsets == {"0", "k", "t", "s", "m", "n", "r", "h", "d"}
Jamos == {"a", "u", "i", "ya", "yu", "wa", "eu"}
Codas == {"none", "k", "s", "m", "n", "ng", "l"}
Syllables == [onset : Onsets, vowel : Jamos, coda : Codas]

LEMMA OnsetsAre ==
    \A c \in Consonants : Sound!ONSET_OF[c] \in Onsets /\ (c # "ng" => Sound!ONSET_OF[c] # "0")
<1> DEFINE O == Sound!ONSET_OF
<1>1. /\ O["k"] = "k" /\ O["t"] = "t" /\ O["s"] = "s" /\ O["sh"] = "s" /\ O["m"] = "m"
      /\ O["n"] = "n" /\ O["ng"] = "0" /\ O["l"] = "r" /\ O["r"] = "r" /\ O["h"] = "h"
      /\ O["d"] = "d"
  BY DEF Sound!ONSET_OF
<1> HIDE DEF O
<1>2. \A c \in Consonants : O[c] \in Onsets /\ (c # "ng" => O[c] # "0")
  BY <1>1 DEF Consonants, Onsets
<1> QED
  BY <1>2 DEF O

LEMMA SupportsAre ==
    /\ DOMAIN Sound!SUPPORT_OF = {"k", "t", "s", "sh", "d"}
    /\ \A c \in {"k", "t", "s", "sh", "d"} :
        /\ Sound!SUPPORT_OF[c][1] \in Onsets \ {"0"}
        /\ Sound!SUPPORT_OF[c][2] \in Jamos
<1> DEFINE O == Sound!SUPPORT_OF
<1>1. /\ O["k"] = <<"k", "eu">> /\ O["t"] = <<"t", "eu">> /\ O["s"] = <<"s", "eu">>
      /\ O["sh"] = <<"s", "i">> /\ O["d"] = <<"d", "eu">>
      /\ DOMAIN O = {"k", "t", "s", "sh", "d"}
  BY DEF Sound!SUPPORT_OF
<1> HIDE DEF O
<1>2. \A c \in {"k", "t", "s", "sh", "d"} : O[c][1] \in Onsets \ {"0"} /\ O[c][2] \in Jamos
  BY <1>1 DEF Onsets, Jamos
<1> QED
  BY <1>1, <1>2 DEF O

LEMMA CodasAre ==
    /\ DOMAIN Sound!CODA_OF = {"m", "n", "ng", "l"} /\ DOMAIN Sound!STOP_CODA = {"k", "t"}
    /\ \A c \in {"m", "n", "ng", "l"} : Sound!CODA_OF[c] \in Codas \ {"none"}
    /\ \A c \in {"k", "t"} : Sound!STOP_CODA[c] \in Codas \ {"none"}
<1> DEFINE C == Sound!CODA_OF
           S == Sound!STOP_CODA
<1>1. /\ C["m"] = "m" /\ C["n"] = "n" /\ C["ng"] = "ng" /\ C["l"] = "l"
      /\ S["k"] = "k" /\ S["t"] = "s"
      /\ DOMAIN C = {"m", "n", "ng", "l"} /\ DOMAIN S = {"k", "t"}
  BY DEF Sound!CODA_OF, Sound!STOP_CODA
<1> HIDE DEF C, S
<1>2. /\ \A c \in {"m", "n", "ng", "l"} : C[c] \in Codas \ {"none"}
      /\ \A c \in {"k", "t"} : S[c] \in Codas \ {"none"}
  BY <1>1 DEF Codas
<1> QED
  BY <1>1, <1>2 DEF C, S

LEMMA GlidedIs == ASSUME NEW v \in {"a", "u"} PROVE Sound!Glided(v) \in Jamos
<1> DEFINE Y == Sound!Y_GLIDE
           W == Sound!W_GLIDE
<1>1. /\ Y["a"] = "ya" /\ Y["u"] = "yu" /\ W["a"] = "wa" /\ W["u"] = "u"
      /\ DOMAIN Y = {"a", "u"} /\ DOMAIN W = {"a", "u"}
  BY DEF Sound!Y_GLIDE, Sound!W_GLIDE
<1>2. Sound!Glided(v) \in {Y[v], W[v], v}
  BY <1>1, Zenon DEF Sound!Glided
<1> HIDE DEF Y, W
<1> QED
  BY <1>1, <1>2 DEF Jamos

-----------------------------------------------------------------------------
(* Counting the marks that consonants leave on syllables.                  *)
Begun(s) == {i \in DOMAIN s : s[i].onset # "0"}
Closed(s) == {i \in DOMAIN s : s[i].coda # "none"}
Weight(s) == Cardinality(Begun(s)) + Cardinality(Closed(s))
Mark(x, none) == IF x = none THEN 0 ELSE 1
Once(i, T) == IF i \in T THEN 1 ELSE 0

LEMMA CountsAre == \A S : Sound!Cardinality(S) = Cardinality(S)
BY DEF Cardinality, Sound!Cardinality

LEMMA WeightIsNat ==
    ASSUME NEW s \in Seq(Syllables)
    PROVE  /\ IsFiniteSet(Begun(s)) /\ IsFiniteSet(Closed(s))
           /\ Cardinality(Begun(s)) \in Nat /\ Cardinality(Closed(s)) \in Nat /\ Weight(s) \in Nat
<1>1. IsFiniteSet(1..Len(s)) /\ DOMAIN s = 1..Len(s)
  BY FS_Interval
<1>2. IsFiniteSet(Begun(s)) /\ IsFiniteSet(Closed(s))
  BY <1>1, FS_Subset DEF Begun, Closed
<1> QED
  BY <1>2, FS_CardinalityType DEF Weight

LEMMA MarkAdded ==
    ASSUME NEW S, IsFiniteSet(S), NEW n, n \notin S, NEW T, NEW b \in {0, 1},
           T = IF b = 0 THEN S ELSE S \cup {n}
    PROVE  Cardinality(T) = Cardinality(S) + b
<1>1. Cardinality(S) \in Nat
  BY FS_CardinalityType
<1>2. CASE b = 1
  BY <1>2, FS_AddElement
<1>3. CASE b = 0
  BY <1>1, <1>3
<1> QED
  BY <1>2, <1>3

LEMMA MarkIs == \A x, y : Mark(x, y) \in {0, 1} /\ (Mark(x, y) = 0 <=> x = y)
BY DEF Mark

LEMMA SyllableAdded ==
    ASSUME NEW s \in Seq(Syllables), NEW r \in Syllables
    PROVE  /\ Append(s, r) \in Seq(Syllables) /\ Len(Append(s, r)) = Len(s) + 1
           /\ Weight(Append(s, r)) = Weight(s) + Mark(r.onset, "0") + Mark(r.coda, "none")
<1> DEFINE t == Append(s, r)
           n == Len(s) + 1
<1>1. /\ t \in Seq(Syllables) /\ Len(t) = n /\ t[n] = r /\ \A i \in 1..Len(s) : t[i] = s[i]
      /\ DOMAIN s = 1..Len(s) /\ DOMAIN t = 1..n /\ Len(s) \in Nat
  OBVIOUS
<1>2. 1..n = 1..Len(s) \cup {n} /\ n \notin 1..Len(s)
  BY <1>1
<1> HIDE DEF t, n
<1>3. Begun(t) = IF Mark(r.onset, "0") = 0 THEN Begun(s) ELSE Begun(s) \cup {n}
  BY <1>1, <1>2 DEF Begun, Mark
<1>4. Closed(t) = IF Mark(r.coda, "none") = 0 THEN Closed(s) ELSE Closed(s) \cup {n}
  BY <1>1, <1>2 DEF Closed, Mark
<1>5. n \notin Begun(s) /\ n \notin Closed(s)
  BY <1>1, <1>2 DEF Begun, Closed
<1>6. Cardinality(Begun(t)) = Cardinality(Begun(s)) + Mark(r.onset, "0")
  BY <1>3, <1>5, WeightIsNat, MarkAdded, MarkIs
<1>7. Cardinality(Closed(t)) = Cardinality(Closed(s)) + Mark(r.coda, "none")
  BY <1>4, <1>5, WeightIsNat, MarkAdded, MarkIs
<1>8. Mark(r.onset, "0") \in Nat /\ Mark(r.coda, "none") \in Nat
  BY MarkIs
<1>9. Weight(t) = Weight(s) + Mark(r.onset, "0") + Mark(r.coda, "none")
  BY <1>6, <1>7, <1>8, WeightIsNat DEF Weight
<1> QED
  BY <1>1, <1>9 DEF t, n

LEMMA SyllableClosed ==
    ASSUME NEW s \in Seq(Syllables), NEW c \in Codas \ {"none"}, s # <<>>, s[Len(s)].coda = "none"
    PROVE  /\ [s EXCEPT ![Len(s)].coda = c] \in Seq(Syllables)
           /\ Len([s EXCEPT ![Len(s)].coda = c]) = Len(s)
           /\ Weight([s EXCEPT ![Len(s)].coda = c]) = Weight(s) + 1
<1> DEFINE t == [s EXCEPT ![Len(s)].coda = c]
           n == Len(s)
<1>1. n \in Nat /\ DOMAIN s = 1..n /\ n \in 1..n /\ s[n] \in Syllables
  OBVIOUS
<1>2. t = [s EXCEPT ![n] = [s[n] EXCEPT !.coda = c]]
  BY Zenon
<1>3. [s[n] EXCEPT !.coda = c] = [onset |-> s[n].onset, vowel |-> s[n].vowel, coda |-> c]
  BY <1>1 DEF Syllables
<1>4. [s[n] EXCEPT !.coda = c] \in Syllables
  BY <1>1, <1>3 DEF Syllables
<1> HIDE DEF t, n
<1>5. /\ t \in Seq(Syllables) /\ Len(t) = n /\ DOMAIN t = 1..n
      /\ t[n] = [s[n] EXCEPT !.coda = c] /\ \A i \in (1..n) \ {n} : t[i] = s[i]
  BY <1>1, <1>2, <1>4 DEF n
<1>6. t[n].onset = s[n].onset /\ t[n].coda # "none"
  BY <1>3, <1>5
<1>7. Begun(t) = Begun(s)
  <2>1. \A i \in 1..n : t[i].onset = s[i].onset
    BY <1>5, <1>6
  <2> QED
    BY <1>1, <1>5, <2>1 DEF Begun
<1>8. Closed(t) = Closed(s) \cup {n} /\ n \notin Closed(s)
  BY <1>1, <1>5, <1>6 DEF Closed, n
<1>9. Cardinality(Closed(t)) = Cardinality(Closed(s)) + 1
  BY <1>8, WeightIsNat, FS_AddElement
<1>10. Weight(t) = Weight(s) + 1
  BY <1>7, <1>9, WeightIsNat DEF Weight
<1> QED
  BY <1>5, <1>10 DEF t, n

-----------------------------------------------------------------------------
\* What of the word is heard, and its vowels, up to a token.
HeardOnes == {i \in DOMAIN word : Sound!Heard(i)}
VowelOnes == {i \in DOMAIN word : word[i] \in Sound!Vowels}
LongOnes == {i \in DOMAIN word : word[i] = "ai"}
UpTo(T, n) == T \cap 1..(n - 1)

\* The consonants passed are marked, but for one that waits for its vowel, which is to come.
Waiting == Mark(onset, "0")
SoundInv ==
    /\ word \in Seq(Sounds) /\ token \in 1..(Len(word) + 1)
    /\ syllables \in Seq(Syllables) /\ onset \in Onsets
    /\ onset # "0" => Sound!VowelBefore(token - 1)
    /\ Weight(syllables) + Waiting >= Cardinality(UpTo(HeardOnes, token))
    /\ Len(syllables) >= Cardinality(UpTo(VowelOnes, token)) + Cardinality(UpTo(LongOnes, token))

LEMMA OnceIs == \A i, T : Once(i, T) \in {0, 1} /\ (Once(i, T) = 1 <=> i \in T)
BY DEF Once

LEMMA UpToNext ==
    ASSUME word \in Seq(Sounds), NEW T \in SUBSET DOMAIN word, NEW n \in 1..Len(word)
    PROVE  /\ Cardinality(UpTo(T, n)) \in Nat /\ Cardinality(UpTo(T, n + 1)) \in Nat
           /\ Cardinality(UpTo(T, n + 1)) = Cardinality(UpTo(T, n)) + Once(n, T)
<1>1. n \in Nat /\ DOMAIN word = 1..Len(word)
  OBVIOUS
<1>2. IsFiniteSet(1..(n - 1))
  BY <1>1, FS_Interval
<1>3. IsFiniteSet(UpTo(T, n))
  BY <1>2, FS_Subset DEF UpTo
<1>4. n \notin UpTo(T, n)
  BY <1>1 DEF UpTo
<1>5. UpTo(T, n + 1) = IF n \in T THEN UpTo(T, n) \cup {n} ELSE UpTo(T, n)
  <2>1. 1..(n + 1 - 1) = 1..(n - 1) \cup {n}
    BY <1>1
  <2> QED
    BY <2>1 DEF UpTo
<1>6. Cardinality(UpTo(T, n)) \in Nat
  BY <1>3, FS_CardinalityType
<1>7. UpTo(T, n + 1) = IF Once(n, T) = 0 THEN UpTo(T, n) ELSE UpTo(T, n) \cup {n}
  BY <1>5 DEF Once
<1>8. Cardinality(UpTo(T, n + 1)) = Cardinality(UpTo(T, n)) + Once(n, T)
  BY <1>3, <1>4, <1>7, MarkAdded, OnceIs
<1> QED
  BY <1>6, <1>8, OnceIs

\* What one token adds.
Spelled ==
    /\ token <= Len(word) /\ token' = token + 1 /\ word' = word
    /\ syllables' \in Seq(Syllables) /\ onset' \in Onsets
    /\ onset' # "0" => Sound!VowelBefore(token)
    /\ Weight(syllables') + Waiting' >= Weight(syllables) + Waiting + Once(token, HeardOnes)
    /\ Len(syllables') >= Len(syllables) + Once(token, VowelOnes) + Once(token, LongOnes)

LEMMA TokenDone == ASSUME SoundInv, Spelled PROVE SoundInv'
<1>1. token \in 1..Len(word) /\ Len(word) \in Nat /\ DOMAIN word = 1..Len(word)
  BY DEF SoundInv, Spelled
<1>2. HeardOnes' = HeardOnes /\ VowelOnes' = VowelOnes /\ LongOnes' = LongOnes
  BY DEF HeardOnes, VowelOnes, LongOnes, Sound!Heard, Sound!VowelBefore, Spelled
<1>4. /\ HeardOnes \in SUBSET DOMAIN word /\ VowelOnes \in SUBSET DOMAIN word
      /\ LongOnes \in SUBSET DOMAIN word
  BY DEF HeardOnes, VowelOnes, LongOnes
<1>5. /\ Cardinality(UpTo(HeardOnes, token)) \in Nat
      /\ Cardinality(UpTo(HeardOnes, token + 1)) \in Nat
      /\ Cardinality(UpTo(VowelOnes, token)) \in Nat
      /\ Cardinality(UpTo(VowelOnes, token + 1)) \in Nat
      /\ Cardinality(UpTo(LongOnes, token)) \in Nat
      /\ Cardinality(UpTo(LongOnes, token + 1)) \in Nat
      /\ Cardinality(UpTo(HeardOnes, token + 1))
            = Cardinality(UpTo(HeardOnes, token)) + Once(token, HeardOnes)
      /\ Cardinality(UpTo(VowelOnes, token + 1))
            = Cardinality(UpTo(VowelOnes, token)) + Once(token, VowelOnes)
      /\ Cardinality(UpTo(LongOnes, token + 1))
            = Cardinality(UpTo(LongOnes, token)) + Once(token, LongOnes)
  BY <1>1, <1>4, UpToNext DEF SoundInv
<1>6. /\ Once(token, HeardOnes) \in Nat /\ Once(token, VowelOnes) \in Nat
      /\ Once(token, LongOnes) \in Nat /\ Waiting \in Nat /\ Waiting' \in Nat
      /\ Weight(syllables) \in Nat /\ Weight(syllables') \in Nat
      /\ Len(syllables) \in Nat /\ Len(syllables') \in Nat
  <2>1. syllables \in Seq(Syllables) /\ syllables' \in Seq(Syllables)
    BY DEF SoundInv, Spelled
  <2> QED
    BY <2>1, WeightIsNat, MarkIs, OnceIs DEF Waiting
<1>7. Weight(syllables') + Waiting' >= Cardinality(UpTo(HeardOnes, token + 1))
  <2> DEFINE v == Weight(syllables')
             p == Waiting'
             w == Weight(syllables)
             q == Waiting
             x == Once(token, HeardOnes)
             h == Cardinality(UpTo(HeardOnes, token))
             k == Cardinality(UpTo(HeardOnes, token + 1))
  <2>1. w + q >= h /\ v + p >= w + q + x
    BY DEF SoundInv, Spelled
  <2>2. v \in Nat /\ p \in Nat /\ w \in Nat /\ q \in Nat /\ x \in Nat /\ h \in Nat /\ k = h + x
    BY <1>5, <1>6
  <2> HIDE DEF v, p, w, q, x, h, k
  <2>3. v + p >= k
    BY <2>1, <2>2
  <2> QED
    BY <2>3 DEF v, p, k
<1>8. Len(syllables') >= Cardinality(UpTo(VowelOnes, token + 1))
                         + Cardinality(UpTo(LongOnes, token + 1))
  <2> DEFINE v == Len(syllables')
             w == Len(syllables)
             x == Once(token, VowelOnes)
             y == Once(token, LongOnes)
             h == Cardinality(UpTo(VowelOnes, token))
             i == Cardinality(UpTo(LongOnes, token))
             k == Cardinality(UpTo(VowelOnes, token + 1))
             j == Cardinality(UpTo(LongOnes, token + 1))
  <2>1. w >= h + i /\ v >= w + x + y
    BY DEF SoundInv, Spelled
  <2>2. /\ v \in Nat /\ w \in Nat /\ x \in Nat /\ y \in Nat /\ h \in Nat /\ i \in Nat
        /\ k = h + x /\ j = i + y
    BY <1>5, <1>6
  <2> HIDE DEF v, w, x, y, h, i, k, j
  <2>3. v >= k + j
    BY <2>1, <2>2
  <2> QED
    BY <2>3 DEF v, k, j
<1>9. token' \in 1..(Len(word) + 1) /\ token' - 1 = token /\ token' = token + 1
  BY <1>1 DEF Spelled
<1>10. (onset # "0" => Sound!VowelBefore(token - 1))'
  BY <1>9 DEF Sound!VowelBefore, Spelled
<1> QED
  BY <1>2, <1>7, <1>8, <1>9, <1>10 DEF SoundInv, Spelled

\* A consonant finds no consonant waiting: one waits only for a vowel that is next.
LEMMA NoneWaits ==
    ASSUME SoundInv, token <= Len(word), word[token] \notin Sound!Vowels \cup Sound!Glides
    PROVE  onset = "0"
<1>1. token \in 1..Len(word) /\ token - 1 + 1 = token
  BY DEF SoundInv
<1>2. ~Sound!VowelBefore(token - 1)
  <2>1. ASSUME NEW j \in token..Len(word), word[j] \in Sound!Vowels,
               \A k \in token..(j - 1) : word[k] \in Sound!Glides
        PROVE  FALSE
    <3>1. j # token
      BY <2>1
    <3>2. token \in token..(j - 1)
      BY <1>1, <3>1
    <3> QED
      BY <2>1, <3>2
  <2> QED
    BY <1>1, <2>1 DEF Sound!VowelBefore
<1> QED
  BY <1>2 DEF SoundInv

LEMMA StillWaits ==
    ASSUME SoundInv, token <= Len(word), word[token] \in Sound!Glides, onset # "0"
    PROVE  Sound!VowelBefore(token)
<1>1. token \in 1..Len(word) /\ token - 1 + 1 = token /\ Len(word) \in Nat
  BY DEF SoundInv
<1>2. PICK j \in token..Len(word) : /\ word[j] \in Sound!Vowels
                                    /\ \A k \in token..(j - 1) : word[k] \in Sound!Glides
  BY <1>1 DEF SoundInv, Sound!VowelBefore
<1>3. j # token
  BY <1>2 DEF Sound!Vowels, Sound!Glides
<1>4. j \in (token + 1)..Len(word) /\ \A k \in (token + 1)..(j - 1) : word[k] \in Sound!Glides
  BY <1>1, <1>2, <1>3
<1> QED
  BY <1>2, <1>4 DEF Sound!VowelBefore

\* Which token counts for what.
LEMMA TokenIs ==
    ASSUME SoundsAssumption, SoundInv, token <= Len(word)
    PROVE  /\ Once(token, HeardOnes) = IF Sound!Heard(token) THEN 1 ELSE 0
           /\ Once(token, VowelOnes) = IF word[token] \in Sound!Vowels THEN 1 ELSE 0
           /\ Once(token, LongOnes) = IF word[token] = "ai" THEN 1 ELSE 0
           /\ word[token] \in Sound!Vowels \cup Sound!Glides \cup Consonants
<1>1. token \in DOMAIN word /\ word[token] \in Sounds
  BY DEF SoundInv
<1>2. (token \in HeardOnes <=> Sound!Heard(token)) /\ (token \in VowelOnes <=> word[token] \in Sound!Vowels)
      /\ (token \in LongOnes <=> word[token] = "ai")
  BY <1>1 DEF HeardOnes, VowelOnes, LongOnes
<1>3. word[token] \in Sound!Vowels \cup Sound!Glides \cup Consonants
  BY <1>1 DEF SoundsAssumption
<1> QED
  BY <1>2, <1>3, Zenon DEF Once

LEMMA GlidePassed == ASSUME SoundsAssumption, SoundInv, Sound!Glide PROVE Spelled
<1>1. token <= Len(word) /\ word[token] \in Sound!Glides
  BY DEF Sound!Glide, Sound!Token
<1>2. ~Sound!Heard(token) /\ word[token] \notin Sound!Vowels /\ word[token] # "ai"
  BY <1>1 DEF Sound!Heard, Sound!Glides, Sound!Vowels
<1>3. Once(token, HeardOnes) = 0 /\ Once(token, VowelOnes) = 0 /\ Once(token, LongOnes) = 0
  BY <1>1, <1>2, TokenIs
<1>4. syllables' = syllables /\ onset' = onset /\ token' = token + 1 /\ word' = word
  BY DEF Sound!Glide, Sound!Step
<1>5. syllables \in Seq(Syllables) /\ onset \in Onsets
  BY DEF SoundInv
<1>6. Weight(syllables) \in Nat /\ Len(syllables) \in Nat /\ Waiting \in Nat
  BY <1>5, WeightIsNat, MarkIs DEF Waiting
<1>7. Weight(syllables') = Weight(syllables) /\ Waiting' = Waiting
  BY <1>4 DEF Waiting
<1>8. onset' # "0" => Sound!VowelBefore(token)
  BY <1>1, <1>4, StillWaits
<1>9. /\ Weight(syllables') + Waiting' >= Weight(syllables) + Waiting + Once(token, HeardOnes)
      /\ Len(syllables') >= Len(syllables) + Once(token, VowelOnes) + Once(token, LongOnes)
  BY <1>3, <1>4, <1>6, <1>7
<1> QED
  BY <1>1, <1>4, <1>5, <1>8, <1>9 DEF Spelled

LEMMA SilentPassed == ASSUME SoundsAssumption, SoundInv, Sound!Silent PROVE Spelled
<1>1. /\ token <= Len(word) /\ word[token] \notin Sound!Vowels \cup Sound!Glides
      /\ word[token] \in {"r", "h"} /\ ~Sound!VowelBefore(token)
  BY DEF Sound!Silent, Sound!Consonant, Sound!Token, Sound!NextTakesVowel, Sound!VowelBefore
<1>2. ~Sound!Heard(token) /\ word[token] \notin Sound!Vowels /\ word[token] # "ai"
  BY <1>1 DEF Sound!Heard, Sound!Vowels
<1>3. Once(token, HeardOnes) = 0 /\ Once(token, VowelOnes) = 0 /\ Once(token, LongOnes) = 0
  BY <1>1, <1>2, TokenIs
<1>4. syllables' = syllables /\ onset' = onset /\ token' = token + 1 /\ word' = word
  BY DEF Sound!Silent, Sound!Step
<1>5. syllables \in Seq(Syllables) /\ onset \in Onsets
  BY DEF SoundInv
<1>6. Weight(syllables) \in Nat /\ Len(syllables) \in Nat /\ Waiting \in Nat
  BY <1>5, WeightIsNat, MarkIs DEF Waiting
<1>7. Weight(syllables') = Weight(syllables) /\ Waiting' = Waiting
  BY <1>4 DEF Waiting
<1>8. onset' # "0" => Sound!VowelBefore(token)
  BY <1>1, <1>4, NoneWaits
<1>9. /\ Weight(syllables') + Waiting' >= Weight(syllables) + Waiting + Once(token, HeardOnes)
      /\ Len(syllables') >= Len(syllables) + Once(token, VowelOnes) + Once(token, LongOnes)
  BY <1>3, <1>4, <1>6, <1>7
<1> QED
  BY <1>1, <1>4, <1>5, <1>8, <1>9 DEF Spelled

\* A syllable of the assembly's own.
LEMMA Composed ==
    ASSUME NEW o \in Onsets, NEW v \in Jamos, NEW c \in Codas
    PROVE  /\ Sound!compose(o, v, c) \in Syllables
           /\ Sound!compose(o, v, c).onset = o /\ Sound!compose(o, v, c).coda = c
BY DEF Sound!compose, Syllables

LEMMA RestIs ==
    ASSUME NEW s \in Seq(Syllables), NEW r \in Syllables
    PROVE  s \o [i \in 1..1 |-> r] = Append(s, r) /\ s \o [i \in 1..0 |-> r] = s
<1>1. [i \in 1..1 |-> r] \in Seq(Syllables) /\ Len([i \in 1..1 |-> r]) = 1
  OBVIOUS
<1>2. [i \in 1..0 |-> r] \in Seq(Syllables) /\ Len([i \in 1..0 |-> r]) = 0
  OBVIOUS
<1> QED
  BY <1>1, <1>2

LEMMA VowelPassed == ASSUME SoundsAssumption, SoundInv, Sound!Vowel PROVE Spelled
<1> DEFINE w == word[token]
           jamo == Sound!Jamo(w)
           first == Sound!compose(onset, Sound!Glided(jamo[1]), "none")
           rest == [i \in 1..(Len(jamo) - 1) |-> Sound!compose("0", jamo[i + 1], "none")]
           one == Append(syllables, first)
<1>1. /\ token <= Len(word) /\ w \in Sound!Vowels
      /\ syllables' = one \o rest /\ onset' = "0" /\ token' = token + 1 /\ word' = word
  BY DEF Sound!Vowel, Sound!Token, Sound!Step
<1>2. ~Sound!Heard(token)
  BY <1>1 DEF Sound!Heard
<1>3. /\ Once(token, HeardOnes) = 0 /\ Once(token, VowelOnes) = 1
      /\ Once(token, LongOnes) = IF w = "ai" THEN 1 ELSE 0
  BY <1>1, <1>2, TokenIs
<1>4. syllables \in Seq(Syllables) /\ onset \in Onsets
  BY DEF SoundInv
<1>5. w \in {"a", "u", "ai", "A"}
  BY <1>1 DEF Sound!Vowels
<1>6. jamo = IF w = "ai" THEN <<"a", "i">> ELSE IF w = "A" THEN <<"a">> ELSE <<w>>
  BY DEF Sound!Jamo
<1> HIDE DEF jamo
<1>7. jamo[1] \in {"a", "u"} /\ (w = "ai" => Len(jamo) = 2 /\ jamo[2] = "i") /\ (w # "ai" => Len(jamo) = 1)
  BY <1>5, <1>6
<1>8. first \in Syllables /\ first.onset = onset /\ first.coda = "none"
  BY <1>4, <1>7, GlidedIs, Composed DEF Codas
<1> DEFINE half == Sound!compose("0", "i", "none")
<1>9. half \in Syllables /\ half.onset = "0" /\ half.coda = "none"
  BY Composed DEF Codas, Onsets, Jamos
<1>10. Waiting' = 0 /\ Waiting = Mark(onset, "0") /\ Mark("none", "none") = 0 /\ Mark("0", "0") = 0
  BY <1>1 DEF Waiting, Mark
<1> HIDE DEF first, half
<1>11. one \in Seq(Syllables) /\ Len(one) = Len(syllables) + 1 /\ Weight(one) = Weight(syllables) + Waiting
  <2>1. Waiting \in Nat /\ Weight(syllables) \in Nat
    BY <1>4, WeightIsNat, MarkIs DEF Waiting
  <2>2. Weight(one) = Weight(syllables) + Waiting + 0
    BY <1>4, <1>8, <1>10, SyllableAdded
  <2> QED
    BY <1>4, <1>8, <2>1, <2>2, SyllableAdded
<1>12. CASE w = "ai"
  <2>1. rest = [i \in 1..1 |-> half]
    <3>1. Len(jamo) - 1 = 1 /\ \A i \in 1..1 : jamo[i + 1] = "i"
      BY <1>7, <1>12
    <3> QED
      BY <3>1, Zenon DEF half
  <2>2. syllables' = Append(one, half)
    BY <1>1, <1>9, <1>11, <2>1, RestIs
  <2>3. Weight(syllables') = Weight(one) + 0 + 0
    BY <1>9, <1>10, <1>11, <2>2, SyllableAdded
  <2>4. syllables' \in Seq(Syllables) /\ Len(syllables') = Len(syllables) + 2
    BY <1>4, <1>9, <1>11, <2>2, SyllableAdded
  <2> HIDE DEF one, rest, w
  <2>5. Weight(syllables) \in Nat /\ Waiting \in Nat /\ Len(syllables) \in Nat
    BY <1>4, WeightIsNat, MarkIs DEF Waiting
  <2>6. /\ Weight(syllables') + Waiting' >= Weight(syllables) + Waiting + Once(token, HeardOnes)
        /\ Len(syllables') >= Len(syllables) + Once(token, VowelOnes) + Once(token, LongOnes)
    BY <1>3, <1>10, <1>11, <1>12, <2>3, <2>4, <2>5
  <2> QED
    BY <1>1, <2>4, <2>6 DEF Spelled, Onsets
<1>13. CASE w # "ai"
  <2>1. rest = [i \in 1..0 |-> half]
    <3>1. Len(jamo) - 1 = 0 /\ \A i \in 1..0 : FALSE
      BY <1>7, <1>13
    <3>2. \A i \in 1..0 : Sound!compose("0", jamo[i + 1], "none") = half
      BY <3>1
    <3> QED
      BY <3>1, <3>2, Zenon
  <2>2. syllables' = one
    BY <1>1, <1>9, <1>11, <2>1, RestIs
  <2> HIDE DEF one, rest, w
  <2>5. Weight(syllables) \in Nat /\ Waiting \in Nat /\ Len(syllables) \in Nat
    BY <1>4, WeightIsNat, MarkIs DEF Waiting
  <2>6. /\ Weight(syllables') + Waiting' >= Weight(syllables) + Waiting + Once(token, HeardOnes)
        /\ Len(syllables') >= Len(syllables) + Once(token, VowelOnes) + Once(token, LongOnes)
    BY <1>3, <1>10, <1>11, <1>13, <2>2, <2>5
  <2> QED
    BY <1>1, <1>11, <2>2, <2>6 DEF Spelled, Onsets
<1> QED
  BY <1>12, <1>13

\* A syllable takes a coda only when it has none.
LEMMA CodaTaken ==
    ASSUME NEW c \in Codas \ {"none"}, syllables \in Seq(Syllables), Sound!Attaches(c)
    PROVE  /\ Sound!With(c) \in Seq(Syllables) /\ Len(Sound!With(c)) = Len(syllables)
           /\ Weight(Sound!With(c)) = Weight(syllables) + 1
<1>1. syllables # <<>> /\ syllables[Len(syllables)].coda = "none"
  BY DEF Sound!Attaches, Sound!Last
<1>2. Sound!With(c) = [syllables EXCEPT ![Len(syllables)].coda = c]
  BY Zenon DEF Sound!With
<1> HIDE DEF Sound!With
<1> QED
  BY <1>1, <1>2, SyllableClosed

LEMMA OnsetPassed == ASSUME SoundsAssumption, SoundInv, Sound!Onset PROVE Spelled
<1> DEFINE w == word[token]
<1>1. /\ token <= Len(word) /\ w \notin Sound!Vowels \cup Sound!Glides /\ Sound!VowelBefore(token)
      /\ token' = token + 1 /\ word' = word
      /\ \/ Sound!Attaches("l") /\ w = "l" /\ syllables' = Sound!With("l") /\ onset' = "r"
         \/ syllables' = syllables /\ onset' = Sound!ONSET_OF[w]
  BY DEF Sound!Onset, Sound!Consonant, Sound!Token, Sound!NextTakesVowel, Sound!VowelBefore,
         Sound!Step
<1>2. onset = "0"
  BY <1>1, NoneWaits
<1>3. w \in Consonants
  BY <1>1, TokenIs
<1>4. /\ Once(token, HeardOnes) \in {0, 1} /\ Once(token, VowelOnes) = 0
      /\ Once(token, LongOnes) = 0 /\ (w = "ng" => Once(token, HeardOnes) = 0)
  <2>1. w # "ai" /\ (w = "ng" => ~Sound!Heard(token))
    BY <1>1 DEF Sound!Vowels, Sound!Heard
  <2> QED
    BY <1>1, <2>1, TokenIs, OnceIs
<1>5. syllables \in Seq(Syllables)
  BY DEF SoundInv
<1>6. /\ syllables' \in Seq(Syllables) /\ Len(syllables') = Len(syllables) /\ onset' \in Onsets
      /\ Weight(syllables') >= Weight(syllables) /\ (w # "ng" => onset' # "0")
  <2>1. CASE Sound!Attaches("l") /\ w = "l" /\ syllables' = Sound!With("l") /\ onset' = "r"
    <3>1. /\ syllables' \in Seq(Syllables) /\ Len(syllables') = Len(syllables)
          /\ Weight(syllables') = Weight(syllables) + 1
      BY <1>5, <2>1, CodaTaken DEF Codas
    <3>2. Weight(syllables) \in Nat
      BY <1>5, WeightIsNat
    <3> QED
      BY <2>1, <3>1, <3>2 DEF Onsets
  <2>2. CASE syllables' = syllables /\ onset' = Sound!ONSET_OF[w]
    <3>1. onset' \in Onsets /\ (w # "ng" => onset' # "0")
      BY <1>3, <2>2, OnsetsAre, Zenon
    <3>2. Weight(syllables) \in Nat /\ Len(syllables) \in Nat
      BY <1>5, WeightIsNat
    <3> QED
      BY <1>5, <2>2, <3>1, <3>2
  <2> QED
    BY <1>1, <2>1, <2>2
<1>7. Waiting = 0 /\ Waiting' \in {0, 1} /\ (w # "ng" => Waiting' = 1)
  BY <1>2, <1>6, MarkIs DEF Waiting
<1> HIDE DEF w
<1>8. Waiting' >= Once(token, HeardOnes)
  BY <1>4, <1>7
<1>9. Weight(syllables) \in Nat /\ Weight(syllables') \in Nat /\ Len(syllables) \in Nat
  BY <1>5, <1>6, WeightIsNat
<1>10. Weight(syllables') + Waiting' >= Weight(syllables) + Waiting + Once(token, HeardOnes)
  BY <1>4, <1>6, <1>7, <1>8, <1>9
<1>11. Len(syllables') >= Len(syllables) + Once(token, VowelOnes) + Once(token, LongOnes)
  BY <1>4, <1>6, <1>9
<1> QED
  BY <1>1, <1>6, <1>10, <1>11 DEF Spelled

LEMMA CodaPassed == ASSUME SoundsAssumption, SoundInv, Sound!Coda PROVE Spelled
<1> DEFINE w == word[token]
           kept == \/ Sound!With(Sound!STOP_CODA[w]) = syllables'
                   \/ Sound!With(Sound!CODA_OF[w]) = syllables'
<1>1. /\ token <= Len(word) /\ w \notin Sound!Vowels \cup Sound!Glides /\ w \notin {"r", "h"}
      /\ onset' = onset /\ token' = token + 1 /\ word' = word
  BY DEF Sound!Coda, Sound!Consonant, Sound!Token, Sound!Step
<1>2. \/ /\ w \in DOMAIN Sound!STOP_CODA /\ Sound!Attaches(Sound!STOP_CODA[w])
         /\ syllables' = Sound!With(Sound!STOP_CODA[w])
      \/ /\ w \in DOMAIN Sound!CODA_OF /\ Sound!Attaches(Sound!CODA_OF[w])
         /\ syllables' = Sound!With(Sound!CODA_OF[w])
      \/ w \in DOMAIN Sound!CODA_OF /\ syllables' = Sound!OwnSyllable(w)
      \/ w \notin DOMAIN Sound!CODA_OF /\ syllables' = Sound!Support(w)
  BY Zenon DEF Sound!Coda, Sound!Token
<1>3. onset = "0"
  BY <1>1, NoneWaits
<1>4. w \in Consonants
  BY <1>1, TokenIs
<1>5. /\ Once(token, HeardOnes) \in {0, 1} /\ Once(token, VowelOnes) = 0
      /\ Once(token, LongOnes) = 0 /\ (w = "ng" => Once(token, HeardOnes) = 0)
  <2>1. w # "ai" /\ (w = "ng" => ~Sound!Heard(token))
    BY <1>1 DEF Sound!Vowels, Sound!Heard
  <2> QED
    BY <1>1, <2>1, TokenIs, OnceIs
<1>6. syllables \in Seq(Syllables) /\ Weight(syllables) \in Nat /\ Len(syllables) \in Nat
  BY WeightIsNat DEF SoundInv
<1> DEFINE Marked == /\ syllables' \in Seq(Syllables) /\ Len(syllables') >= Len(syllables)
                     /\ Weight(syllables') >= Weight(syllables)
                     /\ w # "ng" => Weight(syllables') >= Weight(syllables) + 1
<1>7. ASSUME NEW c \in Codas \ {"none"}, Sound!Attaches(c), syllables' = Sound!With(c)
      PROVE  Marked
  <2>1. /\ syllables' \in Seq(Syllables) /\ Len(syllables') = Len(syllables)
        /\ Weight(syllables') = Weight(syllables) + 1
    BY <1>6, <1>7, CodaTaken
  <2> QED
    BY <1>6, <2>1
<1>8. ASSUME NEW r \in Syllables, syllables' = Append(syllables, r),
             w # "ng" => r.onset # "0" \/ r.coda # "none"
      PROVE  Marked
  <2>1. /\ syllables' \in Seq(Syllables) /\ Len(syllables') = Len(syllables) + 1
        /\ Weight(syllables') = Weight(syllables) + Mark(r.onset, "0") + Mark(r.coda, "none")
    BY <1>6, <1>8, SyllableAdded
  <2>2. /\ Mark(r.onset, "0") \in {0, 1} /\ Mark(r.coda, "none") \in {0, 1}
        /\ w # "ng" => Mark(r.onset, "0") = 1 \/ Mark(r.coda, "none") = 1
    BY <1>8, MarkIs
  <2> QED
    BY <1>6, <2>1, <2>2
<1> HIDE DEF Marked
<1>9. Marked
  <2>1. CASE /\ w \in DOMAIN Sound!STOP_CODA /\ Sound!Attaches(Sound!STOP_CODA[w])
             /\ syllables' = Sound!With(Sound!STOP_CODA[w])
    BY <1>7, <2>1, CodasAre, Zenon
  <2>2. CASE /\ w \in DOMAIN Sound!CODA_OF /\ Sound!Attaches(Sound!CODA_OF[w])
              /\ syllables' = Sound!With(Sound!CODA_OF[w])
    BY <1>7, <2>2, CodasAre, Zenon
  <2>3. CASE w \in DOMAIN Sound!CODA_OF /\ syllables' = Sound!OwnSyllable(w)
    <3> DEFINE c == Sound!CODA_OF[w]
               o == Sound!ONSET_OF[w]
    <3>1. c \in Codas \ {"none"} /\ o \in Onsets /\ (w # "ng" => o # "0")
      BY <1>4, <2>3, CodasAre, OnsetsAre, Zenon
    <3>2. \/ syllables' = Append(syllables, Sound!compose("r", "eu", c))
          \/ syllables' = Append(syllables, Sound!compose(o, "eu", "none"))
      BY <2>3, Zenon DEF Sound!OwnSyllable
    <3> HIDE DEF c, o
    <3>3. "r" \in Onsets /\ "eu" \in Jamos /\ "none" \in Codas
      BY DEF Onsets, Jamos, Codas
    <3>4. CASE syllables' = Append(syllables, Sound!compose("r", "eu", c))
      <4>1. /\ Sound!compose("r", "eu", c) \in Syllables
            /\ Sound!compose("r", "eu", c).coda # "none"
        BY <3>1, <3>3, Composed
      <4> QED
        BY <1>8, <3>4, <4>1
    <3>5. CASE syllables' = Append(syllables, Sound!compose(o, "eu", "none"))
      <4>1. /\ Sound!compose(o, "eu", "none") \in Syllables
            /\ Sound!compose(o, "eu", "none").onset = o
        BY <3>1, <3>3, Composed
      <4> QED
        BY <1>8, <3>1, <3>5, <4>1
    <3> QED
      BY <3>2, <3>4, <3>5
  <2>4. CASE w \notin DOMAIN Sound!CODA_OF /\ syllables' = Sound!Support(w)
    <3> DEFINE o == Sound!SUPPORT_OF[w][1]
               v == Sound!SUPPORT_OF[w][2]
    <3>1. w \in {"k", "t", "s", "sh", "d"}
      BY <1>1, <1>4, <2>4, CodasAre DEF Consonants
    <3>2. o \in Onsets \ {"0"} /\ v \in Jamos
      BY <3>1, SupportsAre, Zenon
    <3>3. syllables' = Append(syllables, Sound!compose(o, v, "none"))
      BY <2>4, <3>1, SupportsAre, Zenon DEF Sound!Support
    <3> HIDE DEF o, v
    <3>4. /\ Sound!compose(o, v, "none") \in Syllables
          /\ Sound!compose(o, v, "none").onset = o
      BY <3>2, Composed DEF Codas
    <3> QED
      BY <1>8, <3>2, <3>3, <3>4
  <2> QED
    BY <1>2, <2>1, <2>2, <2>3, <2>4
<1>10. onset' # "0" => Sound!VowelBefore(token)
  BY <1>1, <1>3
<1>11. Waiting = 0 /\ Waiting' = 0 /\ onset' \in Onsets
  BY <1>1, <1>3 DEF Waiting, Mark, Onsets
<1> HIDE DEF w
<1>12. Weight(syllables') \in Nat /\ Len(syllables') \in Nat
  BY <1>9, WeightIsNat DEF Marked
<1>13. Weight(syllables') + Waiting' >= Weight(syllables) + Waiting + Once(token, HeardOnes)
  BY <1>5, <1>6, <1>9, <1>11, <1>12 DEF Marked
<1>14. Len(syllables') >= Len(syllables) + Once(token, VowelOnes) + Once(token, LongOnes)
  BY <1>5, <1>6, <1>9, <1>12 DEF Marked
<1> QED
  BY <1>1, <1>9, <1>10, <1>11, <1>13, <1>14 DEF Spelled, Marked

-----------------------------------------------------------------------------
LEMMA SoundInit == ASSUME SoundsAssumption, Sound!Init PROVE SoundInv
<1>1. /\ word \in Sound!Words /\ token = 1 /\ syllables = <<>> /\ onset = "0"
  BY DEF Sound!Init
<1>2. word \in Seq(Sounds) /\ Len(word) \in Nat
  <2>1. PICK m \in 0..MaxLen : word \in [1..m -> Sounds]
    BY <1>1 DEF Sound!Words, Sound!BoundedSeq, Sound!SeqOf
  <2> QED
    BY <2>1 DEF SoundsAssumption
<1>3. /\ UpTo(HeardOnes, token) = {} /\ UpTo(VowelOnes, token) = {} /\ UpTo(LongOnes, token) = {}
  <2>1. 1..(token - 1) = {}
    BY <1>1
  <2> QED
    BY <2>1 DEF UpTo
<1>4. syllables \in Seq(Syllables) /\ Len(syllables) = 0 /\ DOMAIN syllables = {}
  BY <1>1
<1>5. Cardinality({}) = 0 /\ Begun(syllables) = {} /\ Closed(syllables) = {}
  BY <1>4, FS_EmptySet DEF Begun, Closed
<1>6. Weight(syllables) = 0 /\ Waiting = 0
  <2>1. Weight(syllables) = 0 + 0
    BY <1>5, Zenon DEF Weight
  <2> QED
    BY <1>1, <2>1 DEF Waiting, Mark
<1>7. token \in 1..(Len(word) + 1) /\ onset \in Onsets
  BY <1>1, <1>2 DEF Onsets
<1>8. /\ Cardinality(UpTo(HeardOnes, token)) = 0 /\ Cardinality(UpTo(VowelOnes, token)) = 0
      /\ Cardinality(UpTo(LongOnes, token)) = 0
  BY <1>3, <1>5
<1> QED
  BY <1>1, <1>2, <1>4, <1>6, <1>7, <1>8 DEF SoundInv

LEMMA SoundStep == ASSUME SoundsAssumption, SoundInv, [Sound!Next]_Sound!vars PROVE SoundInv'
<1>1. CASE Sound!Vowel
  BY <1>1, VowelPassed, TokenDone
<1>2. CASE Sound!Glide
  BY <1>2, GlidePassed, TokenDone
<1>3. CASE Sound!Onset
  BY <1>3, OnsetPassed, TokenDone
<1>4. CASE Sound!Silent
  BY <1>4, SilentPassed, TokenDone
<1>5. CASE Sound!Coda
  BY <1>5, CodaPassed, TokenDone
<1>6. CASE UNCHANGED Sound!vars
  BY <1>6 DEF Sound!vars, SoundInv, Waiting, HeardOnes, VowelOnes, LongOnes, Sound!Heard,
              Sound!VowelBefore
<1> QED
  BY <1>1, <1>2, <1>3, <1>4, <1>5, <1>6 DEF Sound!Next

LEMMA SoundSafe == SoundInv => Sound!NothingIsSwallowed
<1> SUFFICES ASSUME SoundInv, token > Len(word) PROVE Sound!NothingIsSwallowed
  BY DEF Sound!NothingIsSwallowed
<1>1. word \in Seq(Sounds) /\ token = Len(word) + 1 /\ Len(word) \in Nat /\ DOMAIN word = 1..Len(word)
  BY DEF SoundInv
<1>2. Waiting = 0
  <2>1. token - 1 = Len(word) /\ (Len(word) + 1)..Len(word) = {}
    BY <1>1
  <2>2. onset = "0"
    BY <2>1 DEF SoundInv, Sound!VowelBefore
  <2> QED
    BY <2>2 DEF Waiting, Mark
<1>3. /\ UpTo(HeardOnes, token) = HeardOnes /\ UpTo(VowelOnes, token) = VowelOnes
      /\ UpTo(LongOnes, token) = LongOnes
  <2>1. 1..(token - 1) = DOMAIN word
    BY <1>1
  <2> QED
    BY <2>1 DEF UpTo, HeardOnes, VowelOnes, LongOnes
<1>4. syllables \in Seq(Syllables) /\ Weight(syllables) \in Nat
  BY WeightIsNat DEF SoundInv
<1>5. Sound!Marks = Weight(syllables)
  BY CountsAre, Zenon DEF Sound!Marks, Weight, Begun, Closed
<1>6. Weight(syllables) >= Cardinality(HeardOnes)
  <2>1. Weight(syllables) + Waiting >= Cardinality(HeardOnes)
    BY <1>3, Zenon DEF SoundInv
  <2> QED
    BY <1>2, <1>4, <2>1
<1>7. Len(syllables) >= Cardinality(VowelOnes) + Cardinality(LongOnes)
  BY <1>3, Zenon DEF SoundInv
<1>8. /\ Sound!Cardinality({i \in DOMAIN word : Sound!Heard(i)}) = Cardinality(HeardOnes)
      /\ Sound!Cardinality({i \in DOMAIN word : word[i] \in Sound!Vowels}) = Cardinality(VowelOnes)
      /\ Sound!Cardinality({i \in DOMAIN word : word[i] = "ai"}) = Cardinality(LongOnes)
  BY CountsAre, Zenon DEF HeardOnes, VowelOnes, LongOnes
<1>9. Sound!Marks >= Cardinality(HeardOnes)
  BY <1>5, <1>6, Zenon
<1> QED
  BY <1>7, <1>8, <1>9, Zenon DEF Sound!NothingIsSwallowed

\* Nothing of a word is swallowed by the transliterator's assembly, however long the word: when
\* it is done every vowel has its syllables, and every consonant that is heard has left its mark
\* as an onset or as a coda (assembly of korean/transliterate.py).
THEOREM NothingIsLostOnTheWay ==
    ASSUME SoundsAssumption PROVE Sound!Spec => []Sound!NothingIsSwallowed
<1>1. Sound!Init => SoundInv
  BY SoundInit
<1>2. SoundInv /\ [Sound!Next]_Sound!vars => SoundInv'
  BY SoundStep
<1> QED
  BY <1>1, <1>2, SoundSafe, PTL DEF Sound!Spec

-----------------------------------------------------------------------------
(* What the user hears of a reply (RealtimeTts): the frames, in order, once.  *)

CONSTANTS MaxPhrases, FrameParts
VARIABLES phrases, fails, fx, quit, line, known, making, frames, sender, taken, broken, fallback,
          copies, main, received, held, http, heard
Speech == INSTANCE RealtimeTts WITH
    Parts <- FrameParts, plan <- phrases, breaks <- fails, cancel <- quit, socket <- line,
    context <- known, provider <- making, messages <- frames, replay <- copies

\* A phrase has a sound.
FramesAssumption == MaxPhrases \in Nat /\ FrameParts \in Nat \ {0}

Error == <<Speech!ERROR>>
Final == <<Speech!FINAL>>
Frames == (Nat \X Nat) \cup {Error, Final}
Upto(n) == n * FrameParts

\* A set of naturals that has a member has a least one.
LEMMA LeastOne ==
    ASSUME NEW S, S \subseteq Nat, S # {}
    PROVE  \E m \in S : \A n \in S : m <= n
<1>1. IsWellFoundedOn(OpToRel(<, Nat), Nat)
  BY NatLessThanWellFounded, Zenon
<1>2. PICK m \in S : \A n \in S : ~(<<n, m>> \in OpToRel(<, Nat))
  BY <1>1, WFMin, Zenon
<1>3. \A n \in S : ~(n < m)
  BY <1>2 DEF OpToRel
<1> QED
  BY <1>3

LEMMA UptoIs ==
    ASSUME FramesAssumption
    PROVE  /\ Upto(0) = 0
           /\ \A n \in Nat : Upto(n) \in Nat /\ Upto(n + 1) = Upto(n) + FrameParts
           /\ \A n \in Nat : n > 0 => Upto(n) = Upto(n - 1) + FrameParts /\ Upto(n) > 0
           /\ \A m, n \in Nat : m <= n => Upto(m) <= Upto(n)
<1>1. \A n \in Nat : Upto(n) \in Nat /\ Upto(n + 1) = Upto(n) + FrameParts
  BY DEF Upto, FramesAssumption
<1>2. \A n \in Nat : n > 0 => Upto(n) = Upto(n - 1) + FrameParts
  BY DEF Upto, FramesAssumption
<1>3. \A m, n \in Nat : m <= n => Upto(m) <= Upto(n)
  BY DEF Upto, FramesAssumption
<1> QED
  BY <1>1, <1>2, <1>3 DEF Upto, FramesAssumption

\* The recursion that joins the phrases defines a function.
JoinStep(ss, f, i) == IF i = 1 THEN ss[i] ELSE f[i - 1] \o ss[i]

LEMMA JoinExists ==
    ASSUME NEW ss, NEW n \in Nat
    PROVE  \E f : f = [i \in 1..n |-> JoinStep(ss, f, i)]
<1> DEFINE P(m) == \E f : f = [i \in 1..m |-> JoinStep(ss, f, i)]
           Bad == {m \in Nat : ~P(m)}
<1>1. P(0)
  <2> DEFINE f == [i \in {} |-> << >>]
  <2>1. f = [i \in 1..0 |-> JoinStep(ss, f, i)]
    OBVIOUS
  <2> QED
    BY <2>1
<1>2. ASSUME NEW m \in Nat, P(m) PROVE P(m + 1)
  <2>1. PICK f : f = [i \in 1..m |-> JoinStep(ss, f, i)]
    BY <1>2
  <2> DEFINE g == [i \in 1..(m + 1) |-> IF i <= m THEN f[i] ELSE JoinStep(ss, f, i)]
  <2>2. \A i \in 1..(m + 1) : g[i] = JoinStep(ss, g, i)
    <3>1. TAKE i \in 1..(m + 1)
    <3>2. CASE i = 1
      BY <2>1, <3>2 DEF JoinStep
    <3>3. CASE i \in 2..m
      <4>1. g[i] = f[i] /\ g[i - 1] = f[i - 1] /\ f[i] = JoinStep(ss, f, i)
        BY <2>1, <3>3
      <4> HIDE DEF g
      <4>2. JoinStep(ss, f, i) = JoinStep(ss, g, i)
        BY <4>1, <3>3 DEF JoinStep
      <4> QED
        BY <4>1, <4>2
    <3>4. CASE i = m + 1 /\ i # 1
      <4>1. m \in 1..m /\ ~(m + 1 <= m) /\ i - 1 = m
        BY <3>4
      <4>2. g[m] = f[m] /\ g[i] = JoinStep(ss, f, i)
        BY <3>4, <4>1
      <4> HIDE DEF g
      <4> QED
        BY <3>4, <4>1, <4>2 DEF JoinStep
    <3> QED
      BY <3>2, <3>3, <3>4
  <2>3. g = [i \in 1..(m + 1) |-> JoinStep(ss, g, i)]
    BY <2>2
  <2> QED
    BY <2>3
<1>3. ASSUME Bad # {} PROVE FALSE
  <2> HIDE DEF P
  <2>1. PICK m \in Bad : \A k \in Bad : m <= k
    BY <1>3, LeastOne
  <2>2. m # 0
    BY <1>1, <2>1
  <2>3. m - 1 \in Nat /\ m - 1 \notin Bad
    BY <2>1, <2>2
  <2>4. P(m - 1 + 1)
    BY <1>2, <2>3
  <2> QED
    BY <2>1, <2>4
<1> QED
  BY <1>3

LEMMA Joined ==
    ASSUME NEW S, NEW s \in Seq(S), NEW t \in Seq(S)
    PROVE  /\ s \o t \in Seq(S) /\ Len(s \o t) = Len(s) + Len(t)
           /\ \A i \in 1..Len(s) : (s \o t)[i] = s[i]
           /\ \A i \in 1..Len(t) : (s \o t)[Len(s) + i] = t[i]
OBVIOUS

\* The written reply: so many frames for each phrase, in order.
Reply(w, n) ==
    /\ w \in Seq(Nat \X Nat) /\ Len(w) = Upto(n)
    /\ \A k \in 1..n, p \in 1..FrameParts : w[Upto(k - 1) + p] = <<k, p>>

LEMMA ReplyGrows ==
    ASSUME FramesAssumption, NEW n \in Nat, NEW w, Reply(w, n)
    PROVE  Reply(w \o Speech!Audio(n + 1), n + 1)
<1> DEFINE a == Speech!Audio(n + 1)
           v == w \o a
<1>1. a \in Seq(Nat \X Nat) /\ Len(a) = FrameParts /\ \A p \in 1..FrameParts : a[p] = <<n + 1, p>>
  BY DEF Speech!Audio, FramesAssumption
<1>2. Upto(n) \in Nat /\ Upto(n + 1) = Upto(n) + FrameParts
  BY UptoIs
<1>3. w \in Seq(Nat \X Nat) /\ Len(w) = Upto(n)
  BY DEF Reply
<1> HIDE DEF a
<1>4. v \in Seq(Nat \X Nat) /\ Len(v) = Upto(n + 1)
  <2>1. v \in Seq(Nat \X Nat) /\ Len(v) = Len(w) + Len(a)
    BY <1>1, <1>3, Joined
  <2> QED
    BY <1>1, <1>2, <1>3, <2>1
<1>5. ASSUME NEW k \in 1..(n + 1), NEW p \in 1..FrameParts PROVE v[Upto(k - 1) + p] = <<k, p>>
  <2>1. CASE k = n + 1
    <3>1. Upto(k - 1) + p = Len(w) + p /\ p \in 1..Len(a)
      BY <1>1, <1>3, <2>1
    <3>2. v[Len(w) + p] = a[p]
      BY <1>1, <1>3, <3>1, Joined
    <3> QED
      BY <1>1, <2>1, <3>1, <3>2
  <2>2. CASE k # n + 1
    <3>1. k \in 1..n /\ k - 1 \in Nat /\ k \in Nat
      BY <2>2
    <3>2. Upto(k) <= Upto(n) /\ Upto(k) = Upto(k - 1) + FrameParts /\ Upto(k - 1) \in Nat
      <4>1. k > 0 /\ k <= n
        BY <3>1
      <4> QED
        BY <3>1, <4>1, UptoIs
    <3>3. Upto(k - 1) + p \in 1..Len(w)
      <4>1. FrameParts \in Nat /\ p \in Nat /\ 1 <= p /\ p <= FrameParts
        BY DEF FramesAssumption
      <4>2. Len(w) \in Nat /\ Upto(k) <= Len(w)
        BY <1>2, <1>3, <3>2
      <4> HIDE DEF v
      <4> QED
        BY <3>2, <4>1, <4>2
    <3>4. v[Upto(k - 1) + p] = w[Upto(k - 1) + p]
      BY <1>1, <1>3, <3>3, Joined
    <3> QED
      BY <3>1, <3>4 DEF Reply
  <2> QED
    BY <2>1, <2>2
<1> HIDE DEF v
<1>6. Reply(v, n + 1)
  BY <1>4, <1>5 DEF Reply
<1> QED
  BY <1>6 DEF v, a

LEMMA WrittenIs ==
    ASSUME FramesAssumption, NEW n \in Nat
    PROVE  Reply(Speech!Written(n), n)
<1> DEFINE ss == [i \in 1..n |-> Speech!Audio(i)]
           F(f) == [i \in 1..n |-> JoinStep(ss, f, i)]
           joined == CHOOSE f : f = F(f)
           Bad == {i \in 1..n : ~Reply(joined[i], i)}
<1>1. Len(ss) = n
  OBVIOUS
<1>2. \E f : f = F(f)
  BY JoinExists
<1>3. joined = F(joined)
  <2> HIDE DEF F
  <2> QED
    BY <1>2
<1>4. CASE n = 0
  <2>1. ss = << >>
    BY <1>4
  <2>2. Speech!Written(n) = ss
    BY <1>1, <1>4 DEF Speech!Written, Speech!FlattenSeq
  <2>3. Upto(0) = 0
    BY UptoIs
  <2> QED
    <3>1. Speech!Written(n) = << >>
      BY <2>1, <2>2
    <3>2. << >> \in Seq(Nat \X Nat) /\ Len(<< >>) = 0
      OBVIOUS
    <3>3. \A k \in 1..0, p \in 1..FrameParts : << >>[Upto(k - 1) + p] = <<k, p>>
      <4>1. 1..0 = {}
        OBVIOUS
      <4> QED
        BY <4>1, Zenon
    <3>4. Reply(<< >>, 0)
      BY <2>3, <3>2, <3>3 DEF Reply
    <3> QED
      BY <1>4, <3>1, <3>4
<1>5. CASE n # 0
  <2>1. Speech!Written(n) = joined[n]
    BY <1>1, <1>5 DEF Speech!Written, Speech!FlattenSeq, JoinStep
  <2>2. \A i \in 1..n : ss[i] = Speech!Audio(i)
    OBVIOUS
  <2> HIDE DEF joined
  <2>3. \A i \in 1..n : joined[i] = JoinStep(ss, joined, i)
    BY <1>3
  <2>4. Reply(joined[1], 1)
    <3>1. joined[1] = Speech!Audio(1)
      <4>1. joined[1] = JoinStep(ss, joined, 1)
        BY <1>5, <2>3
      <4> QED
        BY <1>5, <2>2, <4>1 DEF JoinStep
    <3>2. Reply(<< >>, 0)
      <4>1. Upto(0) = 0
        BY UptoIs
      <4> QED
        BY <4>1 DEF Reply
    <3>3. Speech!Audio(1) \in Seq(Nat \X Nat)
      BY DEF Speech!Audio, FramesAssumption
    <3>4. << >> \o Speech!Audio(1) = Speech!Audio(1)
      BY <3>3
    <3>5. Reply(<< >> \o Speech!Audio(0 + 1), 0 + 1)
      BY <3>2, ReplyGrows
    <3> QED
      BY <3>1, <3>4, <3>5
  <2>5. ASSUME NEW i \in 2..n, Reply(joined[i - 1], i - 1) PROVE Reply(joined[i], i)
    <3>1. joined[i] = JoinStep(ss, joined, i) /\ ss[i] = Speech!Audio(i)
      BY <2>2, <2>3
    <3>2. joined[i] = joined[i - 1] \o Speech!Audio(i)
      <4>1. i # 1
        OBVIOUS
      <4> QED
        BY <3>1, <4>1 DEF JoinStep
    <3>3. i - 1 \in Nat /\ i - 1 + 1 = i
      OBVIOUS
    <3>4. Reply(joined[i - 1] \o Speech!Audio(i - 1 + 1), i - 1 + 1)
      BY <2>5, <3>3, ReplyGrows
    <3> QED
      BY <3>2, <3>3, <3>4
  <2>6. ASSUME Bad # {} PROVE FALSE
    <3>1. PICK i \in Bad : \A k \in Bad : i <= k
      <4>1. Bad \subseteq Nat
        OBVIOUS
      <4> QED
        BY <2>6, <4>1, LeastOne
    <3>2. i \in 2..n
      BY <2>4, <3>1
    <3>3. i - 1 \in 1..n /\ ~(i <= i - 1)
      BY <3>2
    <3>4. Reply(joined[i - 1], i - 1)
      BY <3>1, <3>3
    <3> QED
      BY <2>5, <3>1, <3>2, <3>4
  <2>7. n \in 1..n
    BY <1>5
  <2>8. Reply(joined[n], n)
    BY <2>6, <2>7
  <2> QED
    BY <2>1, <2>8
<1> QED
  BY <1>4, <1>5

\* s is the part of w after its first m frames, up to the n-th.
Part(w, s, m, n) == Len(s) = n - m /\ \A i \in 1..Len(s) : s[i] = w[m + i]

LEMMA PartEmpty ==
    ASSUME NEW w, NEW n \in Nat
    PROVE  /\ Part(w, << >>, n, n)
           /\ \A S : \A s \in Seq(S) : Part(w, s, n, n) => s = << >>
<1>1. Part(w, << >>, n, n)
  BY DEF Part
<1>2. ASSUME NEW S, NEW s \in Seq(S), Part(w, s, n, n) PROVE s = << >>
  BY <1>2 DEF Part
<1> QED
  BY <1>1, <1>2

LEMMA PartJoined ==
    ASSUME NEW S, NEW s \in Seq(S), NEW t \in Seq(S), NEW w, NEW m \in Nat, NEW n \in Nat,
           NEW k \in Nat, Part(w, s, m, n), Part(w, t, n, k)
    PROVE  Part(w, s \o t, m, k)
<1>1. Len(s) = n - m /\ Len(t) = k - n /\ Len(s \o t) = k - m /\ Len(s) \in Nat /\ Len(t) \in Nat
  <2>1. Len(s) = n - m /\ Len(t) = k - n
    BY DEF Part
  <2>2. Len(s) \in Nat /\ Len(t) \in Nat /\ Len(s \o t) = Len(s) + Len(t)
    OBVIOUS
  <2> QED
    BY <2>1, <2>2
<1>2. ASSUME NEW i \in 1..Len(s \o t) PROVE (s \o t)[i] = w[m + i]
  <2>1. CASE i <= Len(s)
    <3>1. i \in 1..Len(s)
      BY <1>1, <2>1
    <3> QED
      BY <3>1, Joined DEF Part
  <2>2. CASE i > Len(s)
    <3>1. PICK j \in 1..Len(t) : i = Len(s) + j
      <4>1. i - Len(s) \in 1..Len(t) /\ i = Len(s) + (i - Len(s))
        BY <1>1, <2>2
      <4> QED
        BY <4>1
    <3>2. (s \o t)[i] = t[j] /\ t[j] = w[n + j]
      <4>1. (s \o t)[i] = t[j]
        BY <3>1, Joined
      <4>2. t[j] = w[n + j]
        BY <3>1 DEF Part
      <4> QED
        BY <4>1, <4>2
    <3>3. n + j = m + i
      BY <1>1, <3>1
    <3> QED
      BY <3>2, <3>3
  <2> QED
    BY <1>1, <2>1, <2>2
<1> QED
  BY <1>1, <1>2 DEF Part

LEMMA PartAdded ==
    ASSUME NEW S, NEW s \in Seq(S), NEW w, NEW m \in Nat, NEW n \in Nat, Part(w, s, m, n),
           NEW x \in S, x = w[n + 1]
    PROVE  Part(w, Append(s, x), m, n + 1)
<1>1. Len(s) = n - m /\ Len(s) \in Nat /\ Len(Append(s, x)) = Len(s) + 1
  BY DEF Part
<1>2. ASSUME NEW i \in 1..(Len(s) + 1) PROVE Append(s, x)[i] = w[m + i]
  <2>1. CASE i \in 1..Len(s)
    <3>1. Append(s, x)[i] = s[i]
      BY <2>1
    <3> QED
      BY <2>1, <3>1 DEF Part
  <2>2. CASE i = Len(s) + 1
    <3>1. Append(s, x)[i] = x
      BY <2>2
    <3>2. m + i = n + 1
      BY <1>1, <2>2
    <3> QED
      BY <3>1, <3>2
  <2> QED
    BY <1>1, <2>1, <2>2
<1> QED
  BY <1>1, <1>2 DEF Part

LEMMA PartOfReply ==
    ASSUME FramesAssumption, NEW n \in Nat, NEW w, Reply(w, n), NEW s \in Seq(Frames), NEW m \in Nat,
           m <= Upto(n), Part(w, s, 0, m)
    PROVE  Speech!IsPrefix(s, w) /\ (m = Upto(n) => s = w)
<1>1. w \in Seq(Nat \X Nat) /\ Len(w) = Upto(n) /\ Len(s) = m /\ \A i \in 1..m : s[i] = w[i]
  <2>1. Len(s) = m /\ \A i \in 1..Len(s) : s[i] = w[0 + i]
    BY DEF Part
  <2>2. \A i \in 1..m : 0 + i = i
    OBVIOUS
  <2> QED
    BY <2>1, <2>2 DEF Reply
<1>2. SubSeq(s, 1, Len(s)) = SubSeq(w, 1, Len(s))
  <2>1. SubSeq(s, 1, m) = [i \in 1..m |-> s[i]] /\ SubSeq(w, 1, m) = [i \in 1..m |-> w[i]]
    BY <1>1
  <2>2. [i \in 1..m |-> s[i]] = [i \in 1..m |-> w[i]]
    BY <1>1
  <2> QED
    BY <1>1, <2>1, <2>2
<1>3. Speech!IsPrefix(s, w)
  BY <1>1, <1>2 DEF Speech!IsPrefix
<1>4. ASSUME m = Upto(n) PROVE s = w
  BY <1>1, <1>4
<1> QED
  BY <1>3, <1>4

\* No mark is a frame of the reply.
LEMMA MarksAreNone ==
    /\ Error # Final
    /\ \A x \in Nat \X Nat : x # Error /\ x # Final
    /\ Error \in Frames /\ Final \in Frames /\ Nat \X Nat \subseteq Frames
<1>1. Error # Final
  BY DEF Error, Final, Speech!ERROR, Speech!FINAL
<1>2. ASSUME NEW x \in Nat \X Nat PROVE x # Error /\ x # Final
  <2>1. Len(x) = 2 /\ Len(Error) = 1 /\ Len(Final) = 1
    BY DEF Error, Final
  <2> QED
    BY <2>1
<1> QED
  BY <1>1, <1>2 DEF Frames

-----------------------------------------------------------------------------
(* What is where.                                                             *)

FlowTyped ==
    /\ heard \in Seq(Frames) /\ held \in Seq(Frames) /\ frames \in Seq(Frames)
    /\ making \in Seq(Frames) /\ copies \in Seq(Nat)
CountTyped ==
    /\ phrases \in Nat /\ taken \in Nat /\ taken <= phrases
    /\ http \in [phrase : Nat, part : Nat, plain : BOOLEAN]
PlaceTyped ==
    /\ sender \in {"none", "next", "send", "flush", "pump", "done"}
    /\ main \in {"open", "register", "listen", "http", "done", "failed"}
SpeechTypes == FlowTyped /\ CountTyped /\ PlaceTyped

LEMMA AudioIs ==
    ASSUME FramesAssumption, NEW n \in Nat
    PROVE  /\ Speech!Audio(n) \in Seq(Frames) /\ Len(Speech!Audio(n)) = FrameParts
           /\ \A p \in 1..FrameParts : Speech!Audio(n)[p] = <<n, p>>
<1>1. \A p \in 1..FrameParts : <<n, p>> \in Frames
  BY MarksAreNone DEF FramesAssumption
<1> QED
  BY <1>1 DEF Speech!Audio, FramesAssumption

\* What the provider's side does with the frames.
LEMMA DeliveredIs ==
    ASSUME FlowTyped, NEW x \in Frames, Speech!Deliver(x)
    PROVE  /\ frames' \in Seq(Frames)
           /\ known => frames' = Append(frames, x)
           /\ ~known => frames' = frames
<1>1. frames \in Seq(Frames)
  BY DEF FlowTyped
<1>2. Append(frames, x) \in Seq(Frames)
  BY <1>1
<1> QED
  BY <1>1, <1>2, Zenon DEF Speech!Deliver

LEMMA TypesStep ==
    ASSUME FramesAssumption, SpeechTypes, [Speech!Next]_(Speech!vars)
    PROVE  SpeechTypes'
<1> USE DEF SpeechTypes
<1>1. ASSUME UNCHANGED Speech!vars PROVE SpeechTypes'
  BY <1>1 DEF FlowTyped, CountTyped, PlaceTyped, Speech!vars, Speech!reply, Speech!threads,
     Speech!senders, Speech!consumer
<1>2. ASSUME Speech!Cancel PROVE SpeechTypes'
  BY <1>2 DEF FlowTyped, CountTyped, PlaceTyped, Speech!Cancel, Speech!reply, Speech!threads,
     Speech!senders, Speech!consumer
<1>3. ASSUME Speech!Open PROVE SpeechTypes'
  <2>1. UNCHANGED <<phrases, making, frames, taken, copies, held, http, heard>>
    BY <1>3 DEF Speech!Open, Speech!Ensure, Speech!Register, Speech!reply, Speech!threads,
       Speech!senders, Speech!consumer
  <2>2. PlaceTyped'
    BY <1>3 DEF Speech!Open, Speech!Ensure, Speech!Register, PlaceTyped, Speech!senders
  <2>3. FlowTyped' /\ CountTyped'
    BY <2>1 DEF FlowTyped, CountTyped
  <2> QED
    BY <2>2, <2>3
<1>4. ASSUME Speech!Provider PROVE SpeechTypes'
  <2>1. UNCHANGED <<phrases, taken, copies, sender, main, held, http, heard>>
    BY <1>4 DEF Speech!Provider, Speech!Synthesise, Speech!ProviderFails, Speech!SocketDies,
       Speech!ProviderStep, Speech!reply, Speech!senders, Speech!consumer
  <2>2. frames' \in Seq(Frames) /\ making' \in Seq(Frames)
    <3>1. CASE Speech!Synthesise
      <4>1. making # << >> /\ making \in Seq(Frames) /\ making' = Tail(making)
            /\ Speech!Deliver(Head(making))
        BY <3>1 DEF Speech!Synthesise, FlowTyped
      <4>2. Head(making) \in Frames /\ Tail(making) \in Seq(Frames)
        BY <4>1
      <4> QED
        BY <4>1, <4>2, DeliveredIs
    <3>2. CASE Speech!ProviderFails
      <4>1. making' = << >> /\ (Speech!Deliver(Error) \/ Speech!Deliver(Final))
        BY <3>2 DEF Speech!ProviderFails, Error, Final
      <4>2. << >> \in Seq(Frames)
        OBVIOUS
      <4> QED
        BY <4>1, <4>2, DeliveredIs, MarksAreNone
    <3>3. CASE Speech!SocketDies
      <4>1. making' = << >> /\ Speech!Deliver(Error)
        BY <3>3 DEF Speech!SocketDies, Error
      <4>2. << >> \in Seq(Frames)
        OBVIOUS
      <4> QED
        BY <4>1, <4>2, DeliveredIs, MarksAreNone
    <3> QED
      BY <1>4, <3>1, <3>2, <3>3 DEF Speech!Provider
  <2> QED
    BY <2>1, <2>2 DEF FlowTyped, CountTyped, PlaceTyped
<1>5. ASSUME Speech!Sender PROVE SpeechTypes'
  <2>1. UNCHANGED <<phrases, frames, main, held, http, heard>>
    BY <1>5 DEF Speech!Sender, Speech!Take, Speech!SendFails, Speech!Send, Speech!Pump,
       Speech!SenderStep, Speech!reply, Speech!consumer
  <2>2. PlaceTyped'
    BY <1>5, <2>1 DEF Speech!Sender, Speech!Take, Speech!SendFails, Speech!Send, Speech!Pump,
       Speech!Leave, PlaceTyped
  <2>3. taken' \in Nat /\ taken' <= phrases
    BY <1>5 DEF Speech!Sender, Speech!Take, Speech!SendFails, Speech!Send, Speech!Pump, CountTyped
  <2>4. copies' \in Seq(Nat)
    <3>1. copies \in Seq(Nat) /\ taken + 1 \in Nat /\ Speech!End \in Nat
      BY DEF FlowTyped, CountTyped, Speech!End
    <3>2. Append(copies, taken + 1) \in Seq(Nat) /\ Append(copies, Speech!End) \in Seq(Nat)
      BY <3>1
    <3>3. copies' = copies \/ copies' = Append(copies, taken + 1) \/ copies' = Append(copies, Speech!End)
      BY <1>5, Zenon DEF Speech!Sender, Speech!Take, Speech!SendFails, Speech!Send, Speech!Pump,
         Speech!Leave
    <3> QED
      BY <3>1, <3>2, <3>3
  <2>5. making' \in Seq(Frames)
    <3>1. making \in Seq(Frames) /\ Speech!Audio(taken) \in Seq(Frames) /\ Final \in Frames
      BY AudioIs, MarksAreNone DEF FlowTyped, CountTyped
    <3>2. /\ making \o Speech!Audio(taken) \in Seq(Frames)
          /\ Append(making, Final) \in Seq(Frames) /\ << >> \in Seq(Frames)
      BY <3>1
    <3>3. \/ making' = making \/ making' = << >>
          \/ making' = making \o Speech!Audio(taken) \/ making' = Append(making, Final)
      BY <1>5, Zenon DEF Speech!Sender, Speech!Take, Speech!SendFails, Speech!Send, Speech!Pump,
         Speech!CloseContext, Final
    <3> QED
      BY <3>1, <3>2, <3>3
  <2> QED
    BY <2>1, <2>2, <2>3, <2>4, <2>5 DEF FlowTyped, CountTyped, PlaceTyped
<1>6. ASSUME Speech!Listen PROVE SpeechTypes'
  <2>1. UNCHANGED <<phrases, taken, copies, sender, http>>
    BY <1>6 DEF Speech!Listen, Speech!Read, Speech!Deadline, Speech!NothingToSay,
       Speech!StopListening, Speech!ListenStep, Speech!reply, Speech!senders
  <2>2. ASSUME Speech!Fail, UNCHANGED <<heard, held>> PROVE FlowTyped' /\ PlaceTyped'
    <3>1. making' = << >> /\ frames' = << >> /\ main' \in {"failed", "http"}
      BY <2>2 DEF Speech!Fail, Speech!LeaveLoop, Speech!CloseContext
    <3> QED
      BY <2>1, <2>2, <3>1 DEF FlowTyped, PlaceTyped
  <2>3. ASSUME Speech!Finish PROVE FlowTyped' /\ PlaceTyped'
    <3>1. making' = << >> /\ frames' = << >> /\ main' \in {"failed", "http", "done"}
      BY <2>3 DEF Speech!Finish, Speech!Fail, Speech!LeaveLoop, Speech!CloseContext
    <3>2. heard' = heard \o held /\ held' = << >>
      BY <2>3 DEF Speech!Finish
    <3> QED
      BY <2>1, <3>1, <3>2 DEF FlowTyped, PlaceTyped
  <2>4. ASSUME frames # << >>, Speech!Play(Head(frames)) PROVE FlowTyped' /\ PlaceTyped'
    <3>1. frames \in Seq(Frames) /\ held \in Seq(Frames) /\ heard \in Seq(Frames)
      BY DEF FlowTyped
    <3>2. Head(frames) \in Frames /\ Tail(frames) \in Seq(Frames)
      BY <2>4, <3>1
    <3>3. Append(held, Head(frames)) \in Seq(Frames) /\ << >> \in Seq(Frames)
      BY <3>1, <3>2
    <3>4. heard \o Append(held, Head(frames)) \in Seq(Frames)
      BY <3>1, <3>3
    <3>5. heard' \in Seq(Frames) /\ held' \in Seq(Frames)
      BY <2>4, <3>1, <3>3, <3>4, Zenon DEF Speech!Play
    <3>6. frames' = Tail(frames) /\ main' = main /\ making' = making
      BY <2>4 DEF Speech!Play
    <3> QED
      BY <2>1, <3>2, <3>5, <3>6 DEF FlowTyped, PlaceTyped
  <2>5. FlowTyped' /\ PlaceTyped'
    <3>1. CASE Speech!Read
      <4>1. \/ Speech!Fail /\ UNCHANGED <<heard, held>>
            \/ Speech!Finish
            \/ frames # << >> /\ Speech!Play(Head(frames))
        BY <3>1 DEF Speech!Read
      <4> QED
        BY <2>2, <2>3, <2>4, <4>1
    <3>2. CASE Speech!Deadline
      BY <2>2, <3>2 DEF Speech!Deadline
    <3>3. CASE Speech!NothingToSay
      BY <2>3, <3>3 DEF Speech!NothingToSay
    <3>4. CASE Speech!StopListening
      BY <2>3, <3>4 DEF Speech!StopListening
    <3> QED
      BY <1>6, <3>1, <3>2, <3>3, <3>4 DEF Speech!Listen
  <2> QED
    BY <2>1, <2>5 DEF CountTyped
<1>7. ASSUME Speech!Http PROVE SpeechTypes'
  <2>1. UNCHANGED <<phrases, making, frames, sender>>
    BY <1>7 DEF Speech!Http, Speech!HttpTake, Speech!HttpChunk, Speech!HttpFails, Speech!HttpStops,
       Speech!HttpStep, Speech!reply, Speech!threads
  <2>2. CASE Speech!HttpTake
    <3>1. copies \in Seq(Nat) /\ http \in [phrase : Nat, part : Nat, plain : BOOLEAN]
      BY DEF FlowTyped, CountTyped
    <3>2. copies # << >> => Head(copies) \in Nat /\ Tail(copies) \in Seq(Nat)
      BY <3>1
    <3>3. copies' \in Seq(Nat)
      BY <2>2, <3>1, <3>2, Zenon DEF Speech!HttpTake
    <3>4. main' \in {"open", "register", "listen", "http", "done", "failed"}
      BY <2>2 DEF Speech!HttpTake, PlaceTyped
    <3>5. taken' \in Nat /\ taken' <= phrases
      BY <2>2 DEF Speech!HttpTake, CountTyped
    <3>6. http' \in [phrase : Nat, part : Nat, plain : BOOLEAN]
      <4>1. \A n \in Nat : [Speech!Idle EXCEPT !.phrase = n] \in [phrase : Nat, part : Nat, plain : BOOLEAN]
        BY DEF Speech!Idle
      <4>2. \/ http' = http \/ http' = [Speech!Idle EXCEPT !.phrase = taken + 1]
            \/ copies # << >> /\ http' = [Speech!Idle EXCEPT !.phrase = Head(copies)]
        BY <2>2, Zenon DEF Speech!HttpTake
      <4>3. taken + 1 \in Nat
        BY DEF CountTyped
      <4> QED
        BY <3>1, <3>2, <4>1, <4>2, <4>3, Zenon
    <3>7. heard' = heard /\ held' = << >>
      BY <2>2 DEF Speech!HttpTake
    <3> QED
      BY <2>1, <3>3, <3>4, <3>5, <3>6, <3>7 DEF FlowTyped, CountTyped, PlaceTyped
  <2>3. CASE Speech!HttpChunk
    <3>1. held \in Seq(Frames) /\ heard \in Seq(Frames) /\ <<http.phrase, http.part>> \in Frames
      BY MarksAreNone DEF FlowTyped, CountTyped
    <3>2. Append(held, <<http.phrase, http.part>>) \in Seq(Frames) /\ << >> \in Seq(Frames)
      BY <3>1
    <3>3. heard \o Append(held, <<http.phrase, http.part>>) \in Seq(Frames)
      BY <3>1, <3>2
    <3>4. heard' \in Seq(Frames) /\ held' \in Seq(Frames)
      BY <2>3, <3>1, <3>2, <3>3, Zenon DEF Speech!HttpChunk
    <3>5. http' \in [phrase : Nat, part : Nat, plain : BOOLEAN]
      BY <2>3 DEF Speech!HttpChunk, CountTyped, Speech!Idle
    <3>6. UNCHANGED <<main, taken, copies>>
      BY <2>3 DEF Speech!HttpChunk
    <3> QED
      BY <2>1, <3>4, <3>5, <3>6 DEF FlowTyped, CountTyped, PlaceTyped
  <2>4. CASE Speech!HttpFails
    BY <2>1, <2>4 DEF Speech!HttpFails, FlowTyped, CountTyped, PlaceTyped
  <2>5. CASE Speech!HttpStops
    BY <2>1, <2>5 DEF Speech!HttpStops, FlowTyped, CountTyped, PlaceTyped
  <2> QED
    BY <1>7, <2>2, <2>3, <2>4, <2>5 DEF Speech!Http
<1> QED
  BY <1>1, <1>2, <1>3, <1>4, <1>5, <1>6, <1>7, Zenon DEF Speech!Next, Speech!Rest

\* How far the sender is, and what it gave up.
Takes ==
    /\ sender = "none" => copies = << >>
    /\ sender = "send" => taken > 0
    /\ sender = "flush" => taken = phrases
    /\ sender = "done" => quit \/ taken = phrases
    /\ main = "listen" => sender # "none"
Backups ==
    /\ sender = "pump" => fallback
    /\ broken => fallback
    /\ known => main = "listen" /\ ~fallback
    /\ main = "listen" => ~fallback \/ broken
\* Before the socket is known to work nothing has happened.
Early ==
    main \in {"open", "register"} =>
        /\ sender = "none" /\ taken = 0 /\ copies = << >> /\ http = Speech!Idle
        /\ making = << >> /\ frames = << >> /\ heard = << >> /\ held = << >>
        /\ ~received /\ ~fallback
SenderInv == Takes /\ Backups /\ Early

LEMMA SenderInvStep ==
    ASSUME FramesAssumption, SpeechTypes, SenderInv, [Speech!Next]_(Speech!vars)
    PROVE  SenderInv'
<1> USE DEF SenderInv
<1>1. ASSUME UNCHANGED Speech!vars PROVE SenderInv'
  BY <1>1, Zenon DEF Takes, Backups, Early, Speech!vars, Speech!reply, Speech!threads,
     Speech!senders, Speech!consumer
<1>2. ASSUME Speech!Cancel PROVE SenderInv'
  <2>1. quit' /\ UNCHANGED <<phrases, known, making, frames, sender, taken, broken, copies, fallback,
                             main, received, held, http, heard>>
    BY <1>2, Zenon DEF Speech!Cancel, Speech!reply, Speech!threads, Speech!senders, Speech!consumer
  <2> QED
    BY <2>1, Zenon DEF Takes, Backups, Early
<1>3. ASSUME Speech!Open PROVE SenderInv'
  <2>1. UNCHANGED <<phrases, quit, making, frames, taken, broken, copies, fallback, received, held,
                    http, heard>>
    BY <1>3, Zenon DEF Speech!Open, Speech!Ensure, Speech!Register, Speech!reply, Speech!threads,
       Speech!senders, Speech!consumer
  <2>2. sender = "none" /\ ~fallback /\ copies = << >> /\ main \in {"open", "register"}
    <3>1. main \in {"open", "register"}
      BY <1>3 DEF Speech!Open, Speech!Ensure, Speech!Register
    <3> QED
      BY <3>1 DEF Early
  <2>3. CASE Speech!Ensure
    <3>1. main' \in {"register", "http"} /\ sender' = sender /\ known' = known
      BY <2>3 DEF Speech!Ensure, Speech!senders
    <3>2. main' # "listen" /\ main # "listen"
      BY <2>2, <3>1
    <3>3. ~known
      BY <3>2, Zenon DEF Backups
    <3>4. Takes'
      BY <2>1, <2>2, <3>1, <3>2 DEF Takes
    <3>5. Backups'
      BY <2>1, <2>2, <3>1, <3>2, <3>3 DEF Backups
    <3>6. Early'
      BY <2>1, <2>2, <3>1, Zenon DEF Early
    <3> QED
      BY <3>4, <3>5, <3>6
  <2>4. CASE Speech!Register
    <3>1. \/ main' = "listen" /\ sender' = "next"
          \/ main' = "http" /\ known' = known /\ sender' = sender
      BY <2>4 DEF Speech!Register
    <3>2. Takes'
      BY <2>1, <2>2, <3>1 DEF Takes
    <3>3. Backups'
      <4>1. ~broken
        BY <2>2, Zenon DEF Backups
      <4>2. main # "listen"
        BY <2>2
      <4>3. ~known
        BY <4>2, Zenon DEF Backups
      <4> QED
        BY <2>1, <2>2, <3>1, <4>1, <4>3 DEF Backups
    <3>4. Early'
      BY <3>1 DEF Early
    <3> QED
      BY <3>2, <3>3, <3>4
  <2> QED
    BY <1>3, <2>3, <2>4 DEF Speech!Open
<1>4. ASSUME Speech!Provider PROVE SenderInv'
  <2>1. UNCHANGED <<phrases, quit, taken, broken, copies, sender, fallback, main, received, held,
                    http, heard>>
    BY <1>4, Zenon DEF Speech!Provider, Speech!Synthesise, Speech!ProviderFails, Speech!SocketDies,
       Speech!ProviderStep, Speech!reply, Speech!senders, Speech!consumer
  <2>2. known' => known
    BY <1>4, Zenon DEF Speech!Provider, Speech!Synthesise, Speech!ProviderFails, Speech!SocketDies
  <2>3. Takes' /\ Backups'
    BY <2>1, <2>2, Zenon DEF Takes, Backups
  <2>4. Early'
    <3> SUFFICES ASSUME main \in {"open", "register"} PROVE making' = << >> /\ frames' = << >>
      BY <2>1, Zenon DEF Early
    <3>1. making = << >> /\ frames = << >> /\ main # "listen"
      BY Zenon DEF Early
    <3>2. ~known
      BY <3>1, Zenon DEF Backups
    <3>3. \A x : Speech!Deliver(x) => frames' = frames
      BY <3>2, Zenon DEF Speech!Deliver
    <3> QED
      BY <1>4, <3>1, <3>2, <3>3, Zenon DEF Speech!Provider, Speech!Synthesise, Speech!ProviderFails,
         Speech!SocketDies
  <2> QED
    BY <2>3, <2>4
<1>5. ASSUME Speech!Sender PROVE SenderInv'
  <2>1. UNCHANGED <<phrases, quit, frames, main, held, http, heard, received>>
    BY <1>5, Zenon DEF Speech!Sender, Speech!Take, Speech!SendFails, Speech!Send, Speech!Pump,
       Speech!SenderStep, Speech!reply, Speech!consumer
  <2>2. sender # "none" /\ sender' # "none"
    BY <1>5 DEF Speech!Sender, Speech!Take, Speech!SendFails, Speech!Send, Speech!Pump,
       Speech!Leave
  <2>3. Takes'
    <3>1. sender' = "send" => taken' > 0
      BY <1>5 DEF Speech!Sender, Speech!Take, Speech!SendFails, Speech!Send, Speech!Pump,
         Speech!Leave, SpeechTypes, CountTyped
    <3>2. sender' = "flush" => taken' = phrases
      BY <1>5 DEF Speech!Sender, Speech!Take, Speech!SendFails, Speech!Send, Speech!Pump,
         Speech!Leave
    <3>3. sender' = "done" => quit \/ taken' = phrases
      BY <1>5 DEF Speech!Sender, Speech!Take, Speech!SendFails, Speech!Send, Speech!Pump,
         Speech!Leave, SpeechTypes, CountTyped, Takes
    <3> QED
      BY <2>1, <2>2, <3>1, <3>2, <3>3, Zenon DEF Takes
  <2>4. Backups'
    <3>1. \/ UNCHANGED <<known, fallback, broken>> /\ (sender' = "pump" => sender = "pump")
          \/ ~known' /\ fallback' /\ broken' = (broken \/ ~fallback)
      BY <1>5, <2>2 DEF Speech!Sender, Speech!Take, Speech!SendFails, Speech!Send, Speech!Pump,
         Speech!Leave, Speech!CloseContext
    <3>2. CASE UNCHANGED <<known, fallback, broken>> /\ (sender' = "pump" => sender = "pump")
      BY <2>1, <3>2, Zenon DEF Backups
    <3>3. CASE ~known' /\ fallback' /\ broken' = (broken \/ ~fallback)
      BY <2>1, <3>3, Zenon DEF Backups
    <3> QED
      BY <3>1, <3>2, <3>3
  <2>5. Early'
    BY <2>1, <2>2, Zenon DEF Early
  <2> QED
    BY <2>3, <2>4, <2>5
<1>6. ASSUME Speech!Listen PROVE SenderInv'
  <2>1. UNCHANGED <<phrases, quit, taken, broken, copies, sender, http>> /\ main = "listen"
    BY <1>6, Zenon DEF Speech!Listen, Speech!Read, Speech!Deadline, Speech!NothingToSay, Speech!Quiet,
       Speech!StopListening, Speech!ListenStep, Speech!reply, Speech!senders
  <2>2. \/ UNCHANGED <<main, known, fallback>>
        \/ main' \in {"failed", "http", "done"} /\ ~known' /\ (fallback' = fallback \/ fallback')
    BY <1>6, Zenon DEF Speech!Listen, Speech!Read, Speech!Deadline, Speech!NothingToSay, Speech!Quiet,
       Speech!StopListening, Speech!Finish, Speech!Fail, Speech!LeaveLoop, Speech!CloseContext,
       Speech!Play
  <2>3. Takes'
    <3>1. main' = "listen" => main = "listen"
      BY <2>1
    <3> QED
      BY <2>1, <3>1, Zenon DEF Takes
  <2>4. Backups' /\ Early'
    <3>1. CASE UNCHANGED <<main, known, fallback>>
      <4>1. main' \notin {"open", "register"}
        BY <2>1, <3>1
      <4> QED
        BY <2>1, <3>1, <4>1, Zenon DEF Backups, Early
    <3>2. CASE main' \in {"failed", "http", "done"} /\ ~known' /\ (fallback' = fallback \/ fallback')
      <4>1. main' \notin {"open", "register"} /\ main' # "listen"
        BY <3>2
      <4>2. ~known' /\ (fallback => fallback')
        BY <3>2
      <4> QED
        BY <2>1, <4>1, <4>2, Zenon DEF Backups, Early
    <3> QED
      BY <2>2, <3>1, <3>2, Zenon
  <2> QED
    BY <2>3, <2>4
<1>7. ASSUME Speech!Http PROVE SenderInv'
  <2>1. UNCHANGED <<phrases, quit, known, sender, broken, fallback>> /\ main = "http"
    BY <1>7, Zenon DEF Speech!Http, Speech!HttpTake, Speech!HttpChunk, Speech!HttpFails,
       Speech!HttpStops, Speech!HttpStep, Speech!reply, Speech!threads
  <2>2. main' \in {"http", "done", "failed"}
    BY <1>7, <2>1 DEF Speech!Http, Speech!HttpTake, Speech!HttpChunk, Speech!HttpFails,
       Speech!HttpStops
  <2>3. main' # "listen" /\ main # "listen" /\ main' \notin {"open", "register"}
    BY <2>1, <2>2
  <2>4. sender # "none" => taken' = taken
    BY <1>7, Zenon DEF Speech!Http, Speech!HttpTake, Speech!HttpChunk, Speech!HttpFails,
       Speech!HttpStops, Speech!direct
  <2>5. sender = "none" => copies' = copies
    BY <1>7, Zenon DEF Speech!Http, Speech!HttpTake, Speech!HttpChunk, Speech!HttpFails,
       Speech!HttpStops, Speech!direct
  <2>6. Takes'
    <3>1. sender \in {"send", "flush", "done"} => sender # "none"
      OBVIOUS
    <3> QED
      BY <2>1, <2>3, <2>4, <2>5, <3>1 DEF Takes
  <2>7. Backups' /\ Early'
    BY <2>1, <2>3, Zenon DEF Backups, Early
  <2> QED
    BY <2>6, <2>7
<1> QED
  BY <1>1, <1>2, <1>3, <1>4, <1>5, <1>6, <1>7, Zenon DEF Speech!Next, Speech!Rest

-----------------------------------------------------------------------------
(* Where the frames of the reply are.                                         *)

\* Frames that were played, or wait in the effect.
Got == Len(heard) + Len(held)
HeardSo(w) == Part(w, heard, 0, Len(heard)) /\ Part(w, held, Len(heard), Got)

\* The queue of the consumer holds the frames up to the m-th, and then, if anything, a mark.
QueuedSo(w, m) ==
    /\ m \in Nat /\ Got <= m /\ m <= Upto(taken) /\ m - Got <= Len(frames)
    /\ \A i \in 1..(m - Got) : frames[i] = w[Got + i]
\* The provider has the rest of what was sent to it.
Ready == IF sender = "send" THEN Upto(taken - 1) ELSE Upto(taken)
MadeSo(w, m) ==
    /\ known /\ Len(frames) = m - Got
    /\ \/ Len(making) = Ready - m
       \/ /\ Len(making) = Ready - m + 1 /\ making[Ready - m + 1] = Final
          /\ sender = "done" /\ taken = phrases /\ taken > 0
    /\ \A i \in 1..(Ready - m) : making[i] = w[m + i]
BrokeOff(m) == Len(frames) = m - Got /\ broken
MarkedBy(m, x) == m - Got < Len(frames) /\ frames[m - Got + 1] = x
\* The reply is complete, or nothing of it was made.
ClosedAt(m) == MarkedBy(m, Final) /\ taken > 0 /\ (m = 0 \/ m = Upto(phrases))
Flows(w, m) ==
    QueuedSo(w, m) /\ (MadeSo(w, m) \/ BrokeOff(m) \/ MarkedBy(m, Error) \/ ClosedAt(m))

\* The copies are those of the phrases after the k-th.
EndMark == IF sender = "done" THEN 1 ELSE 0
CopiedFrom(k) ==
    /\ Len(copies) = taken - k + EndMark
    /\ \A i \in 1..Len(copies) : copies[i] = IF i <= taken - k THEN k + i ELSE 0

Listening(w) ==
    main = "listen" =>
        /\ CopiedFrom(0) /\ http.phrase = 0
        /\ HeardSo(w) /\ (received => Got > 0)
        /\ \E m : Flows(w, m)

LEMMA GotIs ==
    ASSUME SpeechTypes
    PROVE  /\ Len(heard) \in Nat /\ Len(held) \in Nat /\ Got \in Nat /\ Len(frames) \in Nat
           /\ Len(making) \in Nat /\ Len(copies) \in Nat
  BY DEF SpeechTypes, FlowTyped, Got

LEMMA ReadyIs ==
    ASSUME FramesAssumption, SpeechTypes, SenderInv
    PROVE  Ready \in Nat /\ Ready <= Upto(taken) /\ Upto(taken) \in Nat
<1>1. taken \in Nat /\ (sender = "send" => taken > 0)
  BY DEF SpeechTypes, CountTyped, SenderInv, Takes
<1>2. sender = "send" => taken - 1 \in Nat
  BY <1>1
<1> QED
  BY <1>1, <1>2, UptoIs DEF Ready

\* What each step of the sender does to what was taken and to the copies.
LEMMA SenderTakes ==
    ASSUME Speech!Sender
    PROVE  /\ sender \notin {"none", "done"}
           /\ UNCHANGED <<phrases, quit, frames, main, held, http, heard, received>>
           /\ \/ taken' = taken + 1 /\ copies' = Append(copies, taken + 1) /\ sender' # "done"
              \/ taken' = taken /\ copies' = Append(copies, 0) /\ sender' = "done"
              \/ taken' = taken /\ copies' = copies /\ sender' # "done"
<1>1. UNCHANGED <<phrases, quit, frames, main, held, http, heard, received>>
  BY Zenon DEF Speech!Sender, Speech!Take, Speech!SendFails, Speech!Send, Speech!Pump,
     Speech!SenderStep, Speech!reply, Speech!consumer
<1>2. sender \notin {"none", "done"}
  BY DEF Speech!Sender, Speech!Take, Speech!SendFails, Speech!Send, Speech!Pump
<1>3. \/ taken' = taken + 1 /\ copies' = Append(copies, taken + 1) /\ sender' # "done"
      \/ taken' = taken /\ copies' = Append(copies, 0) /\ sender' = "done"
      \/ taken' = taken /\ copies' = copies /\ sender' # "done"
  BY DEF Speech!Sender, Speech!Take, Speech!SendFails, Speech!Send, Speech!Pump, Speech!Leave,
     Speech!End
<1> QED
  BY <1>1, <1>2, <1>3

LEMMA CopiesGrow ==
    ASSUME SpeechTypes, Speech!Sender, NEW k \in Nat, k <= taken, CopiedFrom(k)
    PROVE  CopiedFrom(k)' /\ k <= taken'
<1>1. copies \in Seq(Nat) /\ taken \in Nat /\ Len(copies) \in Nat
  BY DEF SpeechTypes, FlowTyped, CountTyped
<1>2. \A x \in Nat : /\ Len(Append(copies, x)) = Len(copies) + 1
                     /\ \A i \in 1..Len(copies) : Append(copies, x)[i] = copies[i]
                     /\ Append(copies, x)[Len(copies) + 1] = x
  BY <1>1
<1>3. /\ Len(copies) = taken - k
      /\ \A i \in 1..Len(copies) : copies[i] = k + i
  <2>1. EndMark = 0
    BY SenderTakes DEF EndMark
  <2> QED
    BY <1>1, <2>1 DEF CopiedFrom
<1>4. CASE taken' = taken + 1 /\ copies' = Append(copies, taken + 1) /\ sender' # "done"
  <2>1. EndMark' = 0
    BY <1>4 DEF EndMark
  <2>2. /\ Len(copies') = Len(copies) + 1 /\ copies'[Len(copies) + 1] = taken + 1
        /\ \A i \in 1..Len(copies) : copies'[i] = copies[i]
    <3>1. taken + 1 \in Nat
      BY <1>1
    <3> QED
      BY <1>2, <1>4, <3>1, Zenon
  <2>3. Len(copies') = taken' - k /\ k <= taken'
    BY <1>1, <1>3, <1>4, <2>2
  <2>4. \A i \in 1..Len(copies') : copies'[i] = k + i
    <3> SUFFICES ASSUME NEW i \in 1..Len(copies') PROVE copies'[i] = k + i
      OBVIOUS
    <3>1. CASE i \in 1..Len(copies)
      BY <1>3, <2>2, <3>1
    <3>2. CASE i = Len(copies) + 1
      BY <1>1, <1>3, <2>2, <3>2
    <3> QED
      BY <1>1, <2>2, <3>1, <3>2
  <2> QED
    BY <1>1, <1>4, <2>1, <2>3, <2>4 DEF CopiedFrom
<1>5. CASE taken' = taken /\ copies' = Append(copies, 0) /\ sender' = "done"
  <2>1. EndMark' = 1
    BY <1>5 DEF EndMark
  <2>2. /\ Len(copies') = Len(copies) + 1 /\ copies'[Len(copies) + 1] = 0
        /\ \A i \in 1..Len(copies) : copies'[i] = copies[i]
    BY <1>2, <1>5
  <2>3. Len(copies') = taken - k + 1
    BY <1>1, <1>3, <2>2
  <2>4. \A i \in 1..Len(copies') : copies'[i] = IF i <= taken - k THEN k + i ELSE 0
    <3> SUFFICES ASSUME NEW i \in 1..Len(copies')
                 PROVE  copies'[i] = IF i <= taken - k THEN k + i ELSE 0
      OBVIOUS
    <3>1. CASE i \in 1..Len(copies)
      BY <1>1, <1>3, <2>2, <3>1
    <3>2. CASE i = Len(copies) + 1
      BY <1>1, <1>3, <2>2, <3>2
    <3> QED
      BY <1>1, <2>2, <3>1, <3>2
  <2> QED
    BY <1>1, <1>5, <2>1, <2>3, <2>4 DEF CopiedFrom
<1>6. CASE taken' = taken /\ copies' = copies /\ sender' # "done"
  <2>1. EndMark' = 0
    BY <1>6 DEF EndMark
  <2> QED
    BY <1>1, <1>3, <1>6, <2>1 DEF CopiedFrom
<1> QED
  BY <1>4, <1>5, <1>6, SenderTakes

LEMMA Appended ==
    ASSUME NEW S, NEW s \in Seq(S), NEW x \in S
    PROVE  /\ Append(s, x) \in Seq(S) /\ Len(Append(s, x)) = Len(s) + 1
           /\ \A i \in 1..Len(s) : Append(s, x)[i] = s[i]
           /\ Append(s, x)[Len(s) + 1] = x
OBVIOUS

LEMMA Beheaded ==
    ASSUME NEW S, NEW s \in Seq(S), s # << >>
    PROVE  /\ Head(s) = s[1] /\ Head(s) \in S /\ Len(s) > 0
           /\ Tail(s) \in Seq(S) /\ Len(Tail(s)) = Len(s) - 1
           /\ \A i \in 1..(Len(s) - 1) : Tail(s)[i] = s[i + 1]
OBVIOUS

\* What is already in the queue is not moved by what comes behind it.
LEMMA QueueStays ==
    ASSUME FramesAssumption, SpeechTypes, NEW w, NEW m, QueuedSo(w, m), NEW x \in Frames,
           frames' = frames \/ frames' = Append(frames, x),
           UNCHANGED <<heard, held>>, taken' \in Nat, taken <= taken'
    PROVE  /\ QueuedSo(w, m)' /\ Got' = Got
           /\ \A y : MarkedBy(m, y) => MarkedBy(m, y)'
<1>1. Got' = Got /\ Got \in Nat /\ m \in Nat /\ Len(frames) \in Nat /\ taken \in Nat
  BY GotIs DEF Got, QueuedSo, SpeechTypes, CountTyped
<1>2. frames \in Seq(Frames)
  BY DEF SpeechTypes, FlowTyped
<1>3. Len(frames') >= Len(frames) /\ \A i \in 1..Len(frames) : frames'[i] = frames[i]
  BY <1>1, <1>2, Appended
<1>4. Upto(taken) \in Nat /\ Upto(taken') \in Nat /\ Upto(taken) <= Upto(taken')
  BY <1>1, UptoIs
<1>5. Len(frames') \in Nat
  BY <1>1, <1>2, Appended
<1>6. \A i \in 1..(m - Got) : i \in 1..Len(frames)
  BY <1>1 DEF QueuedSo
<1>7. QueuedSo(w, m)'
  BY <1>1, <1>3, <1>4, <1>5, <1>6 DEF QueuedSo
<1>8. ASSUME NEW y, MarkedBy(m, y) PROVE MarkedBy(m, y)'
  <2>1. m - Got + 1 \in 1..Len(frames)
    BY <1>1, <1>8 DEF MarkedBy, QueuedSo
  <2> QED
    BY <1>1, <1>3, <1>5, <1>8, <2>1 DEF MarkedBy
<1> QED
  BY <1>1, <1>7, <1>8

\* The provider makes frames, fails, or loses its socket.
LEMMA ListeningProvider ==
    ASSUME FramesAssumption, SpeechTypes, SenderInv, NEW w, Reply(w, phrases), Listening(w),
           Speech!Provider
    PROVE  Listening(w)'
<1>1. UNCHANGED <<phrases, taken, broken, copies, sender, main, received, held, http, heard>>
  BY DEF Speech!Provider, Speech!Synthesise, Speech!ProviderFails, Speech!SocketDies,
     Speech!ProviderStep, Speech!reply, Speech!senders, Speech!consumer
<1>2. SUFFICES ASSUME main = "listen" PROVE \E m : Flows(w, m)'
  <2>1. CopiedFrom(0)' = CopiedFrom(0) /\ Got' = Got /\ HeardSo(w)' = HeardSo(w)
    BY <1>1 DEF CopiedFrom, EndMark, Got, HeardSo
  <2> QED
    BY <1>1, <1>2, <2>1 DEF Listening
<1>3. PICK m : Flows(w, m)
  BY <1>2 DEF Listening
<1>4. QueuedSo(w, m) /\ m \in Nat /\ Got <= m /\ m <= Upto(taken)
  BY <1>3 DEF Flows, QueuedSo
<1>5. /\ taken \in Nat /\ phrases \in Nat /\ taken <= phrases /\ making \in Seq(Frames)
      /\ frames \in Seq(Frames)
  BY DEF SpeechTypes, CountTyped, FlowTyped
<1>6. Got \in Nat /\ Len(making) \in Nat /\ Len(frames) \in Nat
  BY GotIs
<1>7. Ready \in Nat /\ Ready <= Upto(taken) /\ Upto(taken) \in Nat /\ Ready' = Ready
  BY <1>1, ReadyIs DEF Ready
<1>8. ASSUME NEW x \in Frames, Speech!Deliver(x)
      PROVE  /\ QueuedSo(w, m)' /\ Got' = Got
             /\ \A y : MarkedBy(m, y) => MarkedBy(m, y)'
  <2>1. frames' = frames \/ frames' = Append(frames, x)
    BY <1>8, Zenon DEF Speech!Deliver
  <2>2. taken' \in Nat /\ taken <= taken'
    BY <1>1, <1>5
  <2> QED
    BY <1>1, <1>4, <2>1, <2>2, QueueStays
<1>9. PICK x \in Frames : Speech!Deliver(x)
  <2>1. CASE Speech!Synthesise
    BY <1>5, <2>1, Beheaded DEF Speech!Synthesise
  <2>2. CASE Speech!ProviderFails
    BY <2>2, MarksAreNone, Zenon DEF Speech!ProviderFails, Error, Final
  <2>3. CASE Speech!SocketDies
    BY <2>3, MarksAreNone, Zenon DEF Speech!SocketDies, Error
  <2> QED
    BY <2>1, <2>2, <2>3, Zenon DEF Speech!Provider
<1>10. QueuedSo(w, m)' /\ Got' = Got
  BY <1>8, <1>9
<1>11. CASE MarkedBy(m, Error) \/ ClosedAt(m)
  <2>1. MarkedBy(m, Error)' \/ ClosedAt(m)'
    BY <1>1, <1>8, <1>9, <1>11 DEF ClosedAt
  <2> QED
    BY <1>10, <2>1 DEF Flows
<1>12. CASE BrokeOff(m) /\ ~known
  <2>1. frames' = frames
    BY <1>9, <1>12, Zenon DEF Speech!Deliver
  <2>2. BrokeOff(m)'
    BY <1>1, <1>10, <1>12, <2>1 DEF BrokeOff
  <2> QED
    BY <1>10, <2>2 DEF Flows
<1>13. CASE MadeSo(w, m)
  <2>1. known /\ Len(frames) = m - Got
    BY <1>13 DEF MadeSo
  <2>2. ASSUME NEW y \in Frames, Speech!Deliver(y)
        PROVE  frames' = Append(frames, y) /\ MarkedBy(m, y)'
    <3>1. frames' = Append(frames, y)
      BY <2>1, <2>2, Zenon DEF Speech!Deliver
    <3>2. Len(frames') = Len(frames) + 1 /\ frames'[Len(frames) + 1] = y
      BY <1>5, <3>1, Appended
    <3> QED
      BY <1>4, <1>6, <1>10, <2>1, <3>1, <3>2 DEF MarkedBy
  <2>3. ASSUME Speech!Deliver(Error) PROVE \E n : Flows(w, n)'
    <3>1. MarkedBy(m, Error)'
      BY <2>2, <2>3, MarksAreNone
    <3> QED
      BY <1>10, <3>1 DEF Flows
  <2>4. CASE Speech!SocketDies
    BY <2>3, <2>4 DEF Speech!SocketDies, Error
  <2>5. CASE Speech!ProviderFails
    <3>1. \/ Speech!Deliver(Error)
          \/ making = Speech!Written(taken) \o <<Final>> /\ Speech!Deliver(Final)
      BY <2>5 DEF Speech!ProviderFails, Speech!Written, Error, Final
    <3>2. CASE making = Speech!Written(taken) \o <<Final>> /\ Speech!Deliver(Final)
      <4>1. Len(making) = Upto(taken) + 1
        <5>1. Reply(Speech!Written(taken), taken)
          BY <1>5, WrittenIs
        <5>2. Len(Speech!Written(taken)) = Upto(taken) /\ Speech!Written(taken) \in Seq(Nat \X Nat)
          BY <5>1 DEF Reply
        <5>3. Speech!Written(taken) \in Seq(Frames) /\ <<Final>> \in Seq(Frames) /\ Len(<<Final>>) = 1
          BY <5>2, MarksAreNone
        <5> QED
          BY <3>2, <5>2, <5>3, Joined
      <4>2. m = 0 /\ taken > 0
        BY <1>4, <1>6, <1>7, <1>13, <4>1 DEF MadeSo
      <4>3. MarkedBy(m, Final)'
        BY <2>2, <3>2, MarksAreNone
      <4>4. ClosedAt(m)'
        BY <1>1, <4>2, <4>3 DEF ClosedAt
      <4> QED
        BY <1>10, <4>4 DEF Flows
    <3> QED
      BY <2>3, <3>1, <3>2
  <2>6. CASE Speech!Synthesise
    <3>1. making # << >> /\ Speech!Deliver(Head(making)) /\ making' = Tail(making) /\ known' = known
      BY <2>6 DEF Speech!Synthesise
    <3>2. /\ Head(making) = making[1] /\ Head(making) \in Frames /\ Len(making) > 0
          /\ Len(making') = Len(making) - 1
          /\ \A i \in 1..(Len(making) - 1) : making'[i] = making[i + 1]
      BY <1>5, <3>1, Beheaded
    <3>3. frames' = Append(frames, Head(making))
      BY <2>2, <3>1, <3>2
    <3>4. Len(frames') = Len(frames) + 1 /\ frames'[Len(frames) + 1] = Head(making)
          /\ \A i \in 1..Len(frames) : frames'[i] = frames[i]
      BY <1>5, <3>2, <3>3, Appended
    <3>5. CASE Ready - m > 0
      <4>1. Head(making) = w[m + 1]
        BY <1>4, <1>7, <1>13, <3>2, <3>5 DEF MadeSo
      <4> PICK n \in Nat : n = m + 1
        BY <1>4
      <4>2. QueuedSo(w, n)'
        <5>1. Got' <= n /\ n <= Upto(taken') /\ n - Got' <= Len(frames')
          BY <1>1, <1>4, <1>6, <1>7, <1>10, <2>1, <3>4, <3>5
        <5>2. ASSUME NEW i \in 1..(n - Got) PROVE frames'[i] = w[Got + i]
          <6>1. CASE i \in 1..(m - Got)
            BY <1>3, <2>1, <3>4, <6>1 DEF Flows, QueuedSo
          <6>2. CASE i = n - Got
            <7>1. i = Len(frames) + 1 /\ Got + i = m + 1
              BY <1>4, <1>6, <2>1, <6>2
            <7> QED
              BY <3>4, <4>1, <7>1
          <6> QED
            BY <1>4, <1>6, <6>1, <6>2
        <5> QED
          BY <1>10, <5>1, <5>2 DEF QueuedSo
      <4>3. MadeSo(w, n)'
        <5>1. known' /\ Len(frames') = n - Got'
          BY <1>4, <1>6, <1>10, <2>1, <3>1, <3>4
        <5>2. \A i \in 1..(Ready - n) : making'[i] = w[n + i]
          <6>1. TAKE i \in 1..(Ready - n)
          <6>2. i \in 1..(Len(making) - 1) /\ i + 1 \in 1..(Ready - m) /\ m + (i + 1) = n + i
            BY <1>4, <1>6, <1>7, <1>13, <3>2 DEF MadeSo
          <6>3. making[i + 1] = w[m + (i + 1)]
            BY <1>13, <6>2 DEF MadeSo
          <6> QED
            BY <3>2, <6>2, <6>3
        <5>3. CASE Len(making) = Ready - m
          <6>1. Len(making') = Ready' - n
            BY <1>4, <1>7, <3>2, <5>3
          <6> QED
            BY <1>7, <5>1, <5>2, <6>1 DEF MadeSo
        <5>4. CASE /\ Len(making) = Ready - m + 1 /\ making[Ready - m + 1] = Final
                   /\ sender = "done" /\ taken = phrases /\ taken > 0
          <6>1. Len(making') = Ready' - n + 1
            BY <1>4, <1>7, <3>2, <5>4
          <6>2. making'[Ready - n + 1] = Final
            <7>1. Ready - n + 1 \in 1..(Len(making) - 1) /\ Ready - n + 1 + 1 = Ready - m + 1
              BY <1>4, <1>7, <3>5, <5>4
            <7> QED
              BY <3>2, <5>4, <7>1
          <6> QED
            BY <1>1, <1>7, <5>1, <5>2, <5>4, <6>1, <6>2 DEF MadeSo
        <5> QED
          BY <1>13, <5>3, <5>4 DEF MadeSo
      <4> QED
        BY <4>2, <4>3 DEF Flows
    <3>6. CASE ~(Ready - m > 0)
      <4>1. /\ Len(making) = Ready - m + 1 /\ making[Ready - m + 1] = Final
            /\ sender = "done" /\ taken = phrases /\ taken > 0
        BY <1>4, <1>7, <1>13, <3>2, <3>6 DEF MadeSo
      <4>2. Ready = m /\ Head(making) = Final
        BY <1>4, <1>6, <1>7, <3>2, <3>6, <4>1
      <4>3. m = Upto(phrases)
        BY <4>1, <4>2 DEF Ready
      <4>4. MarkedBy(m, Final)'
        BY <2>2, <3>1, <3>2, <4>2
      <4>5. ClosedAt(m)'
        BY <1>1, <4>1, <4>3, <4>4 DEF ClosedAt
      <4> QED
        BY <1>10, <4>5 DEF Flows
    <3> QED
      BY <3>5, <3>6
  <2> QED
    BY <2>4, <2>5, <2>6 DEF Speech!Provider
<1>14. BrokeOff(m) => ~known
  BY Zenon DEF BrokeOff, SenderInv, Backups
<1> QED
  BY <1>3, <1>11, <1>12, <1>13, <1>14, Zenon DEF Flows

\* What a step of the sender does while its context is known.
LEMMA SenderSends ==
    ASSUME SpeechTypes, SenderInv, known, Speech!Sender
    PROVE  \/ ~known' /\ broken'
           \/ /\ UNCHANGED <<known, broken>>
              /\ \/ /\ sender = "next" /\ making' = making
                    /\ \/ taken' = taken + 1 /\ sender' = "send"
                       \/ taken' = taken /\ sender' \in {"flush", "done"}
                 \/ /\ sender = "send" /\ making' = making \o Speech!Audio(taken)
                    /\ taken' = taken /\ sender' = "next"
                 \/ /\ sender = "flush" /\ taken' = taken /\ sender' = "done"
                    /\ making' = IF taken > 0 THEN Append(making, Final) ELSE making
<1>1. ~fallback
  BY Zenon DEF SenderInv, Backups
<1>2. sender # "pump"
  BY <1>1, Zenon DEF SenderInv, Backups
<1>3. CASE Speech!Take
  BY <1>1, <1>3 DEF Speech!Take, Speech!Leave, Speech!CloseContext
<1>4. CASE Speech!SendFails
  BY <1>1, <1>4 DEF Speech!SendFails, Speech!CloseContext
<1>5. CASE Speech!Send
  BY <1>5 DEF Speech!Send, Speech!Leave, Final
<1>6. CASE Speech!Pump
  BY <1>2, <1>6 DEF Speech!Pump
<1> QED
  BY <1>3, <1>4, <1>5, <1>6 DEF Speech!Sender

LEMMA ListeningSender ==
    ASSUME FramesAssumption, SpeechTypes, SenderInv, NEW w, Reply(w, phrases), Listening(w),
           Speech!Sender
    PROVE  Listening(w)'
<1>1. /\ UNCHANGED <<phrases, frames, main, received, held, http, heard>>
      /\ sender \notin {"none", "done"} /\ (taken' = taken \/ taken' = taken + 1)
  BY SenderTakes
<1>2. taken \in Nat /\ taken' \in Nat /\ taken <= taken' /\ 0 \in Nat /\ 0 <= taken
  BY <1>1 DEF SpeechTypes, CountTyped
<1>3. SUFFICES ASSUME main = "listen" PROVE \E m : Flows(w, m)'
  <2>1. main = "listen" => CopiedFrom(0)'
    <3>1. main = "listen" => CopiedFrom(0)
      BY DEF Listening
    <3>2. CopiedFrom(0) => CopiedFrom(0)'
      BY <1>2, CopiesGrow
    <3> QED
      BY <3>1, <3>2
  <2>2. Got' = Got /\ HeardSo(w)' = HeardSo(w)
    BY <1>1 DEF Got, HeardSo
  <2> QED
    BY <1>1, <1>3, <2>1, <2>2 DEF Listening
<1>4. PICK m : Flows(w, m)
  BY <1>3 DEF Listening
<1>5. QueuedSo(w, m) /\ m \in Nat /\ Got <= m /\ m <= Upto(taken)
  BY <1>4 DEF Flows, QueuedSo
<1>6. making \in Seq(Frames) /\ frames \in Seq(Frames)
  BY DEF SpeechTypes, FlowTyped
<1>7. Got \in Nat /\ Len(making) \in Nat /\ Len(frames) \in Nat
  BY GotIs
<1>8. QueuedSo(w, m)' /\ Got' = Got /\ \A y : MarkedBy(m, y) => MarkedBy(m, y)'
  BY <1>1, <1>2, <1>5, MarksAreNone, QueueStays
<1>9. CASE MarkedBy(m, Error) \/ ClosedAt(m)
  <2>1. taken > 0 => taken' > 0
    BY <1>2
  <2>2. MarkedBy(m, Error)' \/ ClosedAt(m)'
    BY <1>1, <1>8, <1>9, <2>1 DEF ClosedAt
  <2> QED
    BY <1>8, <2>2 DEF Flows
<1>10. CASE BrokeOff(m)
  <2>1. broken'
    BY <1>10, Zenon DEF Speech!Sender, Speech!Take, Speech!SendFails, Speech!Send, Speech!Pump, BrokeOff
  <2>2. BrokeOff(m)'
    BY <1>1, <1>8, <1>10, <2>1 DEF BrokeOff
  <2> QED
    BY <1>8, <2>2 DEF Flows
<1>11. CASE MadeSo(w, m)
  <2>1. known /\ Len(frames) = m - Got
    BY <1>11 DEF MadeSo
  <2>2. CASE ~known' /\ broken'
    <3>1. BrokeOff(m)'
      BY <1>1, <1>8, <2>1, <2>2 DEF BrokeOff
    <3> QED
      BY <1>8, <3>1 DEF Flows
  <2>3. Ready \in Nat /\ Ready <= Upto(taken) /\ Upto(taken) \in Nat
    BY ReadyIs
  <2>4. Len(making) = Ready - m /\ \A i \in 1..(Ready - m) : making[i] = w[m + i]
    BY <1>1, <1>11 DEF MadeSo
  <2>5. ASSUME known' = known, Ready' = Ready, making' = making PROVE \E n : Flows(w, n)'
    <3>1. known' /\ Len(frames') = m - Got'
      BY <1>1, <1>8, <2>1, <2>5, Zenon
    <3>2. MadeSo(w, m)'
      BY <2>4, <2>5, <3>1 DEF MadeSo
    <3> QED
      BY <1>8, <3>2 DEF Flows
  <2>6. CASE /\ UNCHANGED <<known, broken>>
             /\ sender = "next" /\ making' = making
             /\ \/ taken' = taken + 1 /\ sender' = "send"
                \/ taken' = taken /\ sender' \in {"flush", "done"}
    <3>1. Ready' = Ready
      <4>1. taken' = taken + 1 => taken' - 1 = taken
        BY <1>2
      <4> QED
        BY <2>6, <4>1 DEF Ready
    <3> QED
      BY <2>5, <2>6, <3>1
  <2>7. CASE /\ UNCHANGED <<known, broken>>
             /\ sender = "send" /\ making' = making \o Speech!Audio(taken)
             /\ taken' = taken /\ sender' = "next"
    <3>1. taken > 0 /\ taken <= phrases /\ phrases \in Nat /\ FrameParts \in Nat
      BY <2>7 DEF SenderInv, Takes, SpeechTypes, CountTyped, FramesAssumption
    <3>2. Ready = Upto(taken - 1) /\ Ready' = Upto(taken) /\ Upto(taken) = Ready + FrameParts
      BY <1>2, <2>7, <3>1, UptoIs DEF Ready
    <3>3. /\ Speech!Audio(taken) \in Seq(Frames) /\ Len(Speech!Audio(taken)) = FrameParts
          /\ \A p \in 1..FrameParts : Speech!Audio(taken)[p] = <<taken, p>>
      BY <1>2, AudioIs
    <3>4. /\ Len(making') = Len(making) + FrameParts
          /\ \A i \in 1..Len(making) : making'[i] = making[i]
          /\ \A i \in 1..FrameParts : making'[Len(making) + i] = <<taken, i>>
      BY <1>6, <2>7, <3>3, Joined
    <3>5. Len(making') = Ready' - m
      BY <1>5, <1>7, <2>3, <2>4, <3>1, <3>2, <3>4
    <3>6. ASSUME NEW i \in 1..(Ready' - m) PROVE making'[i] = w[m + i]
      <4>1. CASE i \in 1..Len(making)
        BY <2>4, <3>4, <4>1
      <4>2. CASE i \notin 1..Len(making)
        <5>1. PICK p \in 1..FrameParts : i = Len(making) + p
          <6>1. Len(making') = Ready' - m /\ Len(making') = Len(making) + FrameParts
            BY <3>4, <3>5
          <6>2. i \in 1..(Len(making) + FrameParts)
            BY <6>1
          <6>3. i \in Nat /\ i > Len(making) /\ i <= Len(making) + FrameParts
            BY <1>7, <3>1, <4>2, <6>2
          <6>4. i - Len(making) \in 1..FrameParts /\ i = Len(making) + (i - Len(making))
            BY <1>7, <3>1, <6>3
          <6> QED
            BY <6>4
        <5>2. m + i = Upto(taken - 1) + p
          BY <1>5, <1>7, <2>3, <2>4, <3>1, <3>2, <5>1
        <5>3. w[Upto(taken - 1) + p] = <<taken, p>>
          <6>1. taken \in 1..phrases
            BY <1>2, <3>1
          <6> QED
            BY <6>1 DEF Reply
        <5> QED
          BY <3>4, <5>1, <5>2, <5>3
      <4> QED
        BY <4>1, <4>2
    <3>7. known' /\ Len(frames') = m - Got'
      BY <1>1, <1>8, <2>1, <2>7, Zenon
    <3>8. MadeSo(w, m)'
      BY <3>5, <3>6, <3>7 DEF MadeSo
    <3> QED
      BY <1>8, <3>8 DEF Flows
  <2>8. CASE /\ UNCHANGED <<known, broken>>
             /\ sender = "flush" /\ taken' = taken /\ sender' = "done"
             /\ making' = IF taken > 0 THEN Append(making, Final) ELSE making
    <3>1. Ready' = Ready /\ taken = phrases
      BY <2>8 DEF Ready, SenderInv, Takes
    <3>2. CASE taken > 0
      <4>1. making' = Append(making, Final)
        BY <2>8, <3>2
      <4>2. /\ Len(making') = Len(making) + 1 /\ making'[Len(making) + 1] = Final
            /\ \A i \in 1..Len(making) : making'[i] = making[i]
        BY <1>6, <4>1, MarksAreNone, Appended
      <4>3. known' /\ Len(frames') = m - Got'
        BY <1>1, <1>8, <2>1, <2>8, Zenon
      <4>4. MadeSo(w, m)'
        BY <1>1, <2>4, <2>8, <3>1, <3>2, <4>2, <4>3 DEF MadeSo
      <4> QED
        BY <1>8, <4>4 DEF Flows
    <3>3. CASE ~(taken > 0)
      BY <2>5, <2>8, <3>1, <3>3
    <3> QED
      BY <3>2, <3>3
  <2> QED
    BY <2>1, <2>2, <2>6, <2>7, <2>8, SenderSends
<1> QED
  BY <1>4, <1>9, <1>10, <1>11 DEF Flows

-----------------------------------------------------------------------------
(* The consumer: what it plays, and how it leaves the loop.                   *)

\* A frame that is next goes to the effect, or out with what waits there.
LEMMA PlayedNext ==
    ASSUME SpeechTypes, NEW w, HeardSo(w), NEW x \in Frames, x = w[Got + 1],
           \/ held' = Append(held, x) /\ heard' = heard
           \/ heard' = heard \o Append(held, x) /\ held' = << >>
    PROVE  /\ HeardSo(w)' /\ Got' = Got + 1
           /\ held' = << >> => Part(w, heard', 0, Got + 1)
<1>1. Len(heard) \in Nat /\ Len(held) \in Nat /\ Got \in Nat /\ Got + 1 \in Nat /\ 0 \in Nat
  BY GotIs
<1>2. heard \in Seq(Frames) /\ held \in Seq(Frames)
  BY DEF SpeechTypes, FlowTyped
<1>3. Part(w, heard, 0, Len(heard)) /\ Part(w, held, Len(heard), Got)
  BY DEF HeardSo
<1>4. Part(w, Append(held, x), Len(heard), Got + 1)
  BY <1>1, <1>2, <1>3, PartAdded
<1>5. /\ Append(held, x) \in Seq(Frames) /\ Len(Append(held, x)) = Len(held) + 1
      /\ Append(held, x) # << >>
  <2>1. Append(held, x) \in Seq(Frames) /\ Len(Append(held, x)) = Len(held) + 1
    BY <1>2, Appended
  <2>2. Len(<< >>) = 0
    OBVIOUS
  <2> QED
    BY <1>1, <2>1, <2>2
<1>6. Part(w, heard \o Append(held, x), 0, Got + 1)
  BY <1>1, <1>2, <1>3, <1>4, <1>5, PartJoined
<1>7. CASE held' = Append(held, x) /\ heard' = heard
  <2>1. Got' = Got + 1
    BY <1>1, <1>5, <1>7 DEF Got
  <2> QED
    BY <1>3, <1>4, <1>5, <1>7, <2>1 DEF HeardSo
<1>8. CASE heard' = heard \o Append(held, x) /\ held' = << >>
  <2>1. Len(heard') = Got + 1 /\ Len(held') = 0
    BY <1>1, <1>2, <1>5, <1>8, Joined DEF Got
  <2>2. Got' = Got + 1
    BY <1>1, <2>1 DEF Got
  <2>3. Part(w, << >>, Got + 1, Got + 1)
    BY <1>1, PartEmpty
  <2> QED
    BY <1>6, <1>8, <2>1, <2>2, <2>3 DEF HeardSo
<1> QED
  BY <1>7, <1>8

\* The consumer reads the next frame, the end of the whole reply, or a failure.
LEMMA ReadIs ==
    ASSUME FramesAssumption, SpeechTypes, SenderInv, NEW w, Reply(w, phrases), NEW m, Flows(w, m),
           received => Got > 0, Speech!Read
    PROVE  \/ /\ Got < m /\ Head(frames) = w[Got + 1] /\ Head(frames) \in Frames
              /\ frames # << >> /\ Speech!Play(Head(frames))
           \/ UNCHANGED <<heard, held>> /\ Speech!Fail
           \/ Speech!Finish /\ Got = Upto(phrases)
<1>1. QueuedSo(w, m) /\ m \in Nat /\ Got <= m /\ m <= Upto(taken) /\ m - Got <= Len(frames)
  BY DEF Flows, QueuedSo
<1>2. Got \in Nat /\ frames \in Seq(Frames)
  BY GotIs DEF SpeechTypes, FlowTyped
<1>3. frames # << >> /\ main = "listen"
  BY DEF Speech!Read
<1>4. Head(frames) = frames[1] /\ Head(frames) \in Frames /\ Len(frames) > 0
  BY <1>2, <1>3, Beheaded
<1>5. taken \in Nat /\ phrases \in Nat /\ Upto(taken) \in Nat /\ Upto(phrases) \in Nat
      /\ Upto(taken) <= Upto(phrases) /\ Upto(0) = 0
  BY UptoIs DEF SpeechTypes, CountTyped
<1>6. CASE Got < m
  <2>1. frames[1] = w[Got + 1]
    BY <1>1, <1>2, <1>6 DEF QueuedSo
  <2>2. Got + 1 \in 1..Len(w) /\ w \in Seq(Nat \X Nat)
    BY <1>1, <1>2, <1>5, <1>6 DEF Reply
  <2>3. w[Got + 1] \in Nat \X Nat
    BY <2>2
  <2>4. Head(frames) # <<Speech!ERROR>> /\ Head(frames) # <<Speech!FINAL>>
    BY <1>4, <2>1, <2>3, MarksAreNone DEF Error, Final
  <2>5. Speech!Play(Head(frames))
    BY <2>4 DEF Speech!Read
  <2> QED
    BY <1>3, <1>4, <1>6, <2>1, <2>5
<1>7. CASE ~(Got < m)
  <2>1. Got = m /\ m - Got = 0
    BY <1>1, <1>2, <1>7
  <2>2. Head(frames) = Error \/ (Head(frames) = Final /\ ClosedAt(m))
    <3>1. CASE MarkedBy(m, Error)
      BY <1>4, <2>1, <3>1 DEF MarkedBy
    <3>2. CASE ClosedAt(m)
      BY <1>4, <2>1, <3>2 DEF MarkedBy, ClosedAt
    <3>3. ~MadeSo(w, m) /\ ~BrokeOff(m)
      BY <1>4, <2>1 DEF MadeSo, BrokeOff
    <3> QED
      BY <3>1, <3>2, <3>3 DEF Flows
  <2>3. CASE Head(frames) = Error
    <3>1. Head(frames) = <<Speech!ERROR>> /\ Head(frames) # <<Speech!FINAL>>
      BY <2>3, MarksAreNone DEF Error, Final
    <3>2. UNCHANGED <<heard, held, received>> /\ Speech!Fail
      BY <3>1 DEF Speech!Read
    <3> QED
      BY <3>2
  <2>4. CASE Head(frames) = Final /\ ClosedAt(m)
    <3>1. Head(frames) = <<Speech!FINAL>> /\ Head(frames) # <<Speech!ERROR>>
      BY <2>4, MarksAreNone DEF Error, Final
    <3>2. Speech!first_phrase_sent
      <4>1. sender # "none"
        BY <1>3 DEF SenderInv, Takes
      <4> QED
        BY <2>4, <4>1 DEF ClosedAt, Speech!first_phrase_sent
    <3>3. CASE ~received
      BY <3>1, <3>2, <3>3 DEF Speech!Read
    <3>4. CASE received
      <4>1. Got > 0 /\ m = Upto(phrases)
        BY <1>2, <2>1, <2>4, <3>4 DEF ClosedAt
      <4>2. Speech!Finish
        BY <3>1, <3>4 DEF Speech!Read
      <4> QED
        BY <2>1, <4>1, <4>2
    <3> QED
      BY <3>3, <3>4
  <2> QED
    BY <2>2, <2>3, <2>4
<1> QED
  BY <1>6, <1>7

LEMMA ListeningPlay ==
    ASSUME FramesAssumption, SpeechTypes, SenderInv, NEW w, Reply(w, phrases), Listening(w),
           main = "listen", NEW m, Flows(w, m), Got < m, Head(frames) = w[Got + 1],
           Head(frames) \in Frames, frames # << >>, Speech!Play(Head(frames)), Speech!ListenStep
    PROVE  Listening(w)' /\ main' = "listen"
<1>1. /\ UNCHANGED <<phrases, quit, taken, broken, copies, sender, http, main, known, making>>
      /\ received' /\ frames' = Tail(frames)
  BY DEF Speech!Play, Speech!ListenStep, Speech!reply, Speech!senders
<1>2. Got \in Nat /\ frames \in Seq(Frames) /\ m \in Nat /\ Len(frames) \in Nat
  BY GotIs DEF SpeechTypes, FlowTyped, Flows, QueuedSo
<1>3. CopiedFrom(0) /\ http.phrase = 0 /\ HeardSo(w)
  BY DEF Listening
<1>4. HeardSo(w)' /\ Got' = Got + 1
  <2>1. \/ held' = Append(held, Head(frames)) /\ heard' = heard
        \/ heard' = heard \o Append(held, Head(frames)) /\ held' = << >>
    BY DEF Speech!Play
  <2> QED
    BY <1>3, <2>1, PlayedNext
<1>5. /\ Len(frames') = Len(frames) - 1
      /\ \A i \in 1..(Len(frames) - 1) : frames'[i] = frames[i + 1]
  BY <1>1, <1>2, Beheaded
<1>6. QueuedSo(w, m)'
  <2>1. Got <= m /\ m <= Upto(taken) /\ m - Got <= Len(frames)
        /\ \A i \in 1..(m - Got) : frames[i] = w[Got + i]
    BY DEF Flows, QueuedSo
  <2>2. ASSUME NEW i \in 1..(m - Got') PROVE frames'[i] = w[Got' + i]
    <3>1. i + 1 \in 1..(m - Got) /\ i \in 1..(Len(frames) - 1) /\ Got' + i = Got + (i + 1)
      BY <1>2, <1>4, <2>1
    <3> QED
      BY <1>5, <2>1, <3>1
  <2>3. Got' <= m /\ m - Got' <= Len(frames')
    BY <1>2, <1>4, <1>5, <2>1
  <2> QED
    BY <1>1, <1>2, <2>1, <2>2, <2>3 DEF QueuedSo
<1>7. ASSUME NEW y, MarkedBy(m, y) PROVE MarkedBy(m, y)'
  <2>1. m - Got < Len(frames) /\ frames[m - Got + 1] = y
    BY <1>7 DEF MarkedBy
  <2>2. m - Got' \in 0..(Len(frames) - 2) /\ m - Got' + 1 \in 1..(Len(frames) - 1)
        /\ m - Got' + 1 + 1 = m - Got + 1
    BY <1>2, <1>4, <2>1
  <2>3. m - Got' < Len(frames')
    BY <1>2, <1>5, <2>2
  <2> QED
    BY <1>5, <2>1, <2>2, <2>3 DEF MarkedBy
<1>8. Flows(w, m)'
  <2>1. Len(frames) = m - Got => Len(frames') = m - Got'
    BY <1>2, <1>4, <1>5
  <2>2. Ready' = Ready
    BY <1>1 DEF Ready
  <2>3. MadeSo(w, m) => MadeSo(w, m)'
    BY <1>1, <2>1, <2>2 DEF MadeSo
  <2>4. BrokeOff(m) => BrokeOff(m)'
    BY <1>1, <2>1 DEF BrokeOff
  <2>5. ClosedAt(m) => ClosedAt(m)'
    BY <1>1, <1>7 DEF ClosedAt
  <2> QED
    BY <1>6, <1>7, <2>3, <2>4, <2>5 DEF Flows
<1>9. CopiedFrom(0)'
  BY <1>1, <1>3 DEF CopiedFrom, EndMark
<1>10. Got' > 0
  BY <1>2, <1>4
<1> QED
  BY <1>1, <1>3, <1>4, <1>8, <1>9, <1>10 DEF Listening

\* What the plain endpoint has said: whole phrases, and so far of the one it is at.
Saying(w, k) ==
    /\ http.phrase = k /\ k > 0 /\ http.part \in 1..FrameParts
    /\ Got = Upto(k - 1) + http.part - 1 /\ HeardSo(w)
SaidFrom(w, k) ==
    /\ k \in Nat /\ k <= taken
    /\ IF sender = "none" THEN k = taken ELSE CopiedFrom(k)
    /\ IF http.phrase = 0 THEN Part(w, heard, 0, Upto(k)) ELSE Saying(w, k)
Replaying(w) == main = "http" => \E k : SaidFrom(w, k)

\* What was heard when it is over.
Spoken(w) ==
    main \in {"done", "failed"} =>
        /\ Part(w, heard, 0, Len(heard)) /\ Len(heard) <= Upto(phrases)
        /\ main = "done" /\ ~quit => Len(heard) = Upto(phrases)
SpeechInv(w) == Listening(w) /\ Replaying(w) /\ Spoken(w)

\* How the consumer leaves its loop.
LEMMA ListeningFails ==
    ASSUME FramesAssumption, SpeechTypes, SenderInv, NEW w, Listening(w), main = "listen",
           \/ UNCHANGED <<heard, held>>
           \/ heard' = heard \o held /\ held' = << >>,
           Speech!Fail, Speech!ListenStep, Len(heard') <= Upto(phrases)
    PROVE  SpeechInv(w)'
<1>1. UNCHANGED <<phrases, taken, copies, sender, http>>
  BY DEF Speech!ListenStep, Speech!reply, Speech!senders
<1>2. CopiedFrom(0) /\ http.phrase = 0 /\ HeardSo(w) /\ sender # "none"
  BY DEF Listening, SenderInv, Takes
<1>3. \/ main' = "failed"
      \/ main' = "http" /\ heard' = << >>
  BY DEF Speech!Fail, Speech!Emitted
<1>4. Part(w, heard', 0, Len(heard'))
  <2>1. Part(w, heard, 0, Len(heard)) /\ Part(w, held, Len(heard), Got)
    BY <1>2 DEF HeardSo
  <2>2. heard \in Seq(Frames) /\ held \in Seq(Frames) /\ Len(heard) \in Nat /\ Got \in Nat /\ 0 \in Nat
    BY GotIs DEF SpeechTypes, FlowTyped
  <2>3. Part(w, heard \o held, 0, Got)
    BY <2>1, <2>2, PartJoined
  <2>4. Len(heard \o held) = Got
    BY <2>2, Joined DEF Got
  <2> QED
    BY <2>1, <2>3, <2>4
<1>5. CASE main' = "failed"
  BY <1>1, <1>4, <1>5 DEF SpeechInv, Listening, Replaying, Spoken
<1>6. CASE main' = "http" /\ heard' = << >>
  <2>1. Part(w, heard', 0, Upto(0))
    <3>1. Upto(0) = 0 /\ 0 \in Nat
      BY UptoIs
    <3> QED
      BY <1>6, <3>1, PartEmpty
  <2>2. CopiedFrom(0)' /\ taken' \in Nat
    BY <1>1, <1>2 DEF CopiedFrom, EndMark, SpeechTypes, CountTyped
  <2>3. SaidFrom(w, 0)'
    BY <1>1, <1>2, <2>1, <2>2 DEF SaidFrom
  <2> QED
    BY <1>6, <2>3 DEF SpeechInv, Listening, Replaying, Spoken
<1> QED
  BY <1>3, <1>5, <1>6

LEMMA ListeningEnds ==
    ASSUME FramesAssumption, SpeechTypes, SenderInv, NEW w, Listening(w), main = "listen",
           Speech!Finish, Speech!ListenStep, quit \/ Got = Upto(phrases)
    PROVE  SpeechInv(w)'
<1>1. heard \in Seq(Frames) /\ held \in Seq(Frames) /\ Len(heard) \in Nat /\ Got \in Nat /\ 0 \in Nat
  BY GotIs DEF SpeechTypes, FlowTyped
<1>2. heard' = heard \o held /\ held' = << >>
  BY DEF Speech!Finish
<1>3. Len(heard') = Got
  BY <1>1, <1>2, Joined DEF Got
<1>4. Got <= Upto(phrases)
  <2>1. PICK m : Flows(w, m)
    BY DEF Listening
  <2>2. m \in Nat /\ Got <= m /\ m <= Upto(taken)
    BY <2>1 DEF Flows, QueuedSo
  <2>3. Upto(taken) \in Nat /\ Upto(phrases) \in Nat /\ Upto(taken) <= Upto(phrases)
    BY UptoIs DEF SpeechTypes, CountTyped
  <2> QED
    BY <1>1, <2>2, <2>3
<1>5. CASE broken
  <2>1. Speech!Fail
    BY <1>5 DEF Speech!Finish
  <2> QED
    BY <1>2, <1>3, <1>4, <2>1, ListeningFails
<1>6. CASE ~broken
  <2>1. main' = "done" /\ phrases' = phrases /\ quit' = quit
    BY <1>6 DEF Speech!Finish, Speech!ListenStep, Speech!reply
  <2>2. Part(w, heard', 0, Len(heard'))
    <3>1. Part(w, heard, 0, Len(heard)) /\ Part(w, held, Len(heard), Got)
      BY DEF Listening, HeardSo
    <3> QED
      BY <1>1, <1>2, <1>3, <3>1, PartJoined
  <2>3. Spoken(w)'
    BY <1>3, <1>4, <2>1, <2>2 DEF Spoken
  <2> QED
    BY <2>1, <2>3 DEF SpeechInv, Listening, Replaying
<1> QED
  BY <1>5, <1>6

LEMMA ListenStepKeeps ==
    ASSUME FramesAssumption, SpeechTypes, SenderInv, NEW w, Reply(w, phrases), SpeechInv(w),
           Speech!Listen
    PROVE  SpeechInv(w)'
<1>1. main = "listen" /\ Speech!ListenStep
  BY DEF Speech!Listen, Speech!Read, Speech!Deadline, Speech!NothingToSay, Speech!Quiet,
     Speech!StopListening
<1>2. Listening(w) /\ (received => Got > 0)
  BY <1>1 DEF SpeechInv, Listening
<1>3. PICK m : Flows(w, m)
  BY <1>1, <1>2 DEF Listening
<1>4. /\ taken \in Nat /\ phrases \in Nat /\ Upto(phrases) \in Nat /\ Upto(0) = 0
      /\ Upto(taken) \in Nat /\ Upto(taken) <= Upto(phrases)
  BY UptoIs DEF SpeechTypes, CountTyped
<1>5. Got \in Nat /\ Got <= Upto(taken) /\ Got <= Upto(phrases)
  <2>1. m \in Nat /\ Got <= m /\ m <= Upto(taken) /\ Got \in Nat
    BY <1>3, GotIs DEF Flows, QueuedSo
  <2> QED
    BY <1>4, <2>1
<1>6. ASSUME UNCHANGED <<heard, held>>, Speech!Fail PROVE SpeechInv(w)'
  <2>1. Len(heard') \in Nat /\ Len(heard') <= Got
    BY <1>6, GotIs DEF Got
  <2>2. Len(heard') <= Upto(phrases)
    BY <1>4, <1>5, <2>1
  <2> QED
    BY <1>1, <1>2, <1>6, <2>2, ListeningFails
<1>7. CASE Speech!Read
  <2>1. CASE /\ Got < m /\ Head(frames) = w[Got + 1] /\ Head(frames) \in Frames
             /\ frames # << >> /\ Speech!Play(Head(frames))
    <3>1. Listening(w)' /\ main' = "listen"
      BY <1>1, <1>2, <1>3, <2>1, ListeningPlay
    <3> QED
      BY <3>1 DEF SpeechInv, Replaying, Spoken
  <2>2. CASE UNCHANGED <<heard, held>> /\ Speech!Fail
    BY <1>6, <2>2
  <2>3. CASE Speech!Finish /\ Got = Upto(phrases)
    BY <1>1, <1>2, <2>3, ListeningEnds
  <2> QED
    BY <1>2, <1>3, <1>7, <2>1, <2>2, <2>3, ReadIs
<1>8. CASE Speech!Deadline
  BY <1>6, <1>8 DEF Speech!Deadline
<1>9. CASE Speech!NothingToSay
  <2>1. Speech!Finish /\ sender = "done" /\ ~(taken > 0)
    BY <1>9 DEF Speech!NothingToSay, Speech!sender_done, Speech!first_phrase_sent
  <2>2. taken = 0 /\ (quit \/ taken = phrases)
    BY <1>4, <2>1 DEF SenderInv, Takes
  <2>3. Got = 0
    BY <1>4, <1>5, <2>2
  <2>4. quit \/ Got = Upto(phrases)
    BY <1>4, <2>2, <2>3
  <2> QED
    BY <1>1, <1>2, <2>1, <2>4, ListeningEnds
<1>10. CASE Speech!StopListening
  <2>1. Speech!Finish /\ quit
    BY <1>10 DEF Speech!StopListening
  <2> QED
    BY <1>1, <1>2, <2>1, ListeningEnds
<1> QED
  BY <1>7, <1>8, <1>9, <1>10 DEF Speech!Listen

-----------------------------------------------------------------------------
(* The plain endpoint.                                                        *)

\* It takes the next phrase, of the model or of the copies, or finds that there is none.
LEMMA TakenIs ==
    ASSUME FramesAssumption, SpeechTypes, SenderInv, NEW w, NEW k, SaidFrom(w, k), Speech!HttpTake
    PROVE  \/ /\ main' = "http" /\ http'.phrase = k + 1 /\ http'.part = 1 /\ k + 1 <= taken'
              /\ IF sender = "none" THEN taken' = k + 1 ELSE CopiedFrom(k + 1)'
           \/ main' = "failed"
           \/ main' = "done" /\ k = phrases
<1>1. k \in Nat /\ taken \in Nat /\ phrases \in Nat /\ k <= taken /\ taken <= phrases
      /\ http.phrase = 0 /\ ~quit
  BY DEF SaidFrom, SpeechTypes, CountTyped, Speech!HttpTake
<1>2. CASE sender = "none"
  <2>1. k = taken
    BY <1>2 DEF SaidFrom
  <2>2. CASE taken < phrases
    <3>1. taken' = taken + 1 /\ http' = [Speech!Idle EXCEPT !.phrase = taken + 1] /\ main' = main
      BY <1>2, <2>2 DEF Speech!HttpTake, Speech!direct
    <3>2. http'.phrase = taken + 1 /\ http'.part = 1
      BY <3>1 DEF Speech!Idle
    <3>3. main' = "http"
      BY <3>1 DEF Speech!HttpTake
    <3> QED
      BY <1>1, <1>2, <2>1, <3>1, <3>2, <3>3
  <2>3. CASE ~(taken < phrases)
    <3>1. main' = "failed" \/ main' = "done"
      BY <1>2, <2>3 DEF Speech!HttpTake, Speech!direct
    <3> QED
      BY <1>1, <2>1, <2>3, <3>1
  <2> QED
    BY <2>2, <2>3
<1>3. CASE sender # "none"
  <2>1. /\ copies # << >> /\ copies' = Tail(copies) /\ taken' = taken /\ sender' = sender
        /\ IF Head(copies) = Speech!End THEN main' = "done"
           ELSE http' = [Speech!Idle EXCEPT !.phrase = Head(copies)] /\ main' = "http"
    BY <1>3 DEF Speech!HttpTake, Speech!direct, Speech!HttpStep
  <2>2. /\ Len(copies) = taken - k + EndMark
        /\ \A i \in 1..Len(copies) : copies[i] = IF i <= taken - k THEN k + i ELSE 0
    BY <1>3 DEF SaidFrom, CopiedFrom
  <2>3. copies \in Seq(Nat) /\ Len(copies) \in Nat /\ EndMark \in 0..1 /\ EndMark' = EndMark
    BY <2>1, GotIs DEF SpeechTypes, FlowTyped, EndMark
  <2>4. /\ Head(copies) = copies[1] /\ Len(copies) > 0 /\ Len(copies') = Len(copies) - 1
        /\ \A i \in 1..(Len(copies) - 1) : copies'[i] = copies[i + 1]
    BY <2>1, <2>3, Beheaded
  <2>5. CASE k < taken
    <3>1. Head(copies) = k + 1
      <4>1. 1 \in 1..Len(copies) /\ 1 <= taken - k
        BY <1>1, <2>3, <2>4, <2>5
      <4> QED
        BY <2>2, <2>4, <4>1
    <3>2. main' = "http" /\ http' = [Speech!Idle EXCEPT !.phrase = k + 1]
      BY <1>1, <2>1, <3>1 DEF Speech!End
    <3>3. http'.phrase = k + 1 /\ http'.part = 1
      BY <3>2 DEF Speech!Idle
    <3>4. Len(copies') = taken - (k + 1) + EndMark
      BY <1>1, <2>2, <2>3, <2>4
    <3>5. ASSUME NEW i \in 1..Len(copies')
          PROVE copies'[i] = IF i <= taken - (k + 1) THEN (k + 1) + i ELSE 0
      <4>1. i \in 1..(Len(copies) - 1) /\ i + 1 \in 1..Len(copies) /\ i \in Nat
        BY <2>3, <2>4
      <4>2. copies'[i] = IF i + 1 <= taken - k THEN k + (i + 1) ELSE 0
        BY <2>2, <2>4, <4>1
      <4>3. (i + 1 <= taken - k <=> i <= taken - (k + 1)) /\ k + (i + 1) = (k + 1) + i
        BY <1>1, <4>1
      <4> QED
        BY <4>2, <4>3
    <3>6. CopiedFrom(k + 1)'
      BY <2>1, <2>3, <3>4, <3>5 DEF CopiedFrom
    <3> QED
      BY <1>1, <1>3, <2>1, <2>5, <3>2, <3>3, <3>6
  <2>6. CASE ~(k < taken)
    <3>1. taken - k = 0 /\ Len(copies) = 1 /\ EndMark = 1
      BY <1>1, <2>2, <2>3, <2>4, <2>6
    <3>2. Head(copies) = 0 /\ sender = "done"
      BY <2>2, <2>4, <3>1 DEF EndMark
    <3>3. main' = "done" /\ taken = phrases
      BY <1>1, <2>1, <3>2 DEF Speech!End, SenderInv, Takes
    <3> QED
      BY <1>1, <3>1, <3>3
  <2> QED
    BY <2>5, <2>6
<1> QED
  BY <1>2, <1>3

\* What the plain endpoint has said, if it stops here.
LEMMA SaidIsSpoken ==
    ASSUME FramesAssumption, SpeechTypes, NEW w, NEW k, SaidFrom(w, k)
    PROVE  /\ Part(w, heard, 0, Len(heard)) /\ Len(heard) <= Upto(phrases)
           /\ http.phrase = 0 => Len(heard) = Upto(k)
<1>1. /\ k \in Nat /\ taken \in Nat /\ phrases \in Nat /\ k <= taken /\ taken <= phrases
      /\ k <= phrases
  BY DEF SaidFrom, SpeechTypes, CountTyped
<1>2. Upto(k) \in Nat /\ Upto(phrases) \in Nat /\ Upto(k) <= Upto(phrases)
  BY <1>1, UptoIs
<1>3. Len(heard) \in Nat /\ Len(held) \in Nat
  BY GotIs
<1>4. CASE http.phrase = 0
  <2>1. Part(w, heard, 0, Upto(k))
    BY <1>4 DEF SaidFrom
  <2>2. Len(heard) = Upto(k)
    BY <1>2, <1>3, <2>1 DEF Part
  <2> QED
    BY <1>2, <2>1, <2>2
<1>5. CASE http.phrase # 0
  <2>1. k > 0 /\ http.part \in 1..FrameParts /\ Got = Upto(k - 1) + http.part - 1 /\ HeardSo(w)
    BY <1>5 DEF SaidFrom, Saying
  <2>2. k - 1 \in Nat /\ Upto(k) = Upto(k - 1) + FrameParts /\ Upto(k - 1) \in Nat
    BY <1>1, <2>1, UptoIs
  <2>3. Len(heard) <= Upto(phrases)
    BY <1>2, <1>3, <2>1, <2>2 DEF Got, FramesAssumption
  <2> QED
    BY <1>5, <2>1, <2>3 DEF HeardSo
<1> QED
  BY <1>4, <1>5

LEMMA HttpStepKeeps ==
    ASSUME FramesAssumption, SpeechTypes, SenderInv, NEW w, Reply(w, phrases), SpeechInv(w),
           Speech!Http
    PROVE  SpeechInv(w)'
<1>1. main = "http" /\ UNCHANGED <<phrases, quit, sender>>
  BY DEF Speech!Http, Speech!HttpTake, Speech!HttpChunk, Speech!HttpFails, Speech!HttpStops,
     Speech!HttpStep, Speech!reply
<1>2. PICK k : SaidFrom(w, k)
  BY <1>1 DEF SpeechInv, Replaying
<1>3. /\ k \in Nat /\ taken \in Nat /\ phrases \in Nat /\ k <= taken /\ taken <= phrases
      /\ k <= phrases
  BY <1>2 DEF SaidFrom, SpeechTypes, CountTyped
<1>4. Part(w, heard, 0, Len(heard)) /\ Len(heard) <= Upto(phrases)
      /\ (http.phrase = 0 => Len(heard) = Upto(k))
  BY <1>2, SaidIsSpoken
<1>5. Len(heard) \in Nat /\ Len(held) \in Nat /\ Got \in Nat
  BY GotIs
<1>6. ASSUME main' \in {"done", "failed"}, heard' = heard,
             main' = "done" /\ ~quit => Len(heard) = Upto(phrases)
      PROVE  SpeechInv(w)'
  BY <1>1, <1>4, <1>6 DEF SpeechInv, Listening, Replaying, Spoken
<1>7. ASSUME main' = "http", NEW n, SaidFrom(w, n)' PROVE SpeechInv(w)'
  BY <1>7 DEF SpeechInv, Listening, Replaying, Spoken
<1>8. CASE Speech!HttpTake
  <2>1. http.phrase = 0 /\ held' = << >> /\ heard' = heard
    BY <1>8 DEF Speech!HttpTake
  <2>2. CASE /\ main' = "http" /\ http'.phrase = k + 1 /\ http'.part = 1 /\ k + 1 <= taken'
             /\ IF sender = "none" THEN taken' = k + 1 ELSE CopiedFrom(k + 1)'
    <3> PICK n \in Nat : n = k + 1
      BY <1>3
    <3>1. n > 0 /\ n # 0 /\ n - 1 = k
      BY <1>3
    <3>2. Upto(n - 1) \in Nat /\ Len(heard') = Upto(n - 1)
      BY <1>3, <1>4, <2>1, <3>1, UptoIs
    <3>3. Got' = Upto(n - 1) + 1 - 1
      <4>1. Len(held') = 0
        BY <2>1
      <4> QED
        BY <3>2, <4>1 DEF Got
    <3>4. HeardSo(w)'
      <4>1. Got' = Len(heard')
        BY <3>2, <3>3
      <4>2. Part(w, held', Len(heard'), Got')
        BY <2>1, <3>2, <4>1, PartEmpty
      <4> QED
        BY <1>4, <2>1, <4>2 DEF HeardSo
    <3>5. Saying(w, n)'
      BY <2>2, <3>1, <3>3, <3>4 DEF Saying, FramesAssumption
    <3>6. SaidFrom(w, n)'
      BY <1>1, <2>2, <3>1, <3>5 DEF SaidFrom
    <3> QED
      BY <1>7, <2>2, <3>6
  <2>3. CASE main' = "failed"
    BY <1>6, <2>1, <2>3
  <2>4. CASE main' = "done" /\ k = phrases
    BY <1>4, <1>6, <2>1, <2>4
  <2> QED
    BY <1>2, <1>8, <2>2, <2>3, <2>4, TakenIs
<1>9. CASE Speech!HttpChunk
  <2>1. http.phrase # 0 /\ main' = "http" /\ UNCHANGED <<taken, copies>>
    BY <1>9 DEF Speech!HttpChunk
  <2>2. http.phrase = k /\ k > 0 /\ http.part \in 1..FrameParts
        /\ Got = Upto(k - 1) + http.part - 1 /\ HeardSo(w)
    BY <1>2, <2>1 DEF SaidFrom, Saying
  <2>3. k - 1 \in Nat /\ Upto(k) = Upto(k - 1) + FrameParts /\ Upto(k - 1) \in Nat
    BY <1>3, <2>2, UptoIs
  <2>4. Got + 1 = Upto(k - 1) + http.part /\ <<k, http.part>> = w[Got + 1]
    <3>1. Got + 1 = Upto(k - 1) + http.part
      BY <2>2, <2>3 DEF FramesAssumption
    <3>2. k \in 1..phrases
      BY <1>3, <2>2
    <3> QED
      BY <2>2, <3>1, <3>2 DEF Reply
  <2>5. <<k, http.part>> \in Frames
    BY <1>3, <2>2, MarksAreNone DEF FramesAssumption
  <2>6. \/ held' = Append(held, <<k, http.part>>) /\ heard' = heard
        \/ heard' = heard \o Append(held, <<k, http.part>>) /\ held' = << >>
    BY <1>9, <2>2 DEF Speech!HttpChunk
  <2>7. HeardSo(w)' /\ Got' = Got + 1 /\ (held' = << >> => Part(w, heard', 0, Got + 1))
    BY <2>2, <2>4, <2>5, <2>6, PlayedNext
  <2>8. ASSUME IF http'.phrase = 0 THEN Part(w, heard', 0, Upto(k)) ELSE Saying(w, k)'
        PROVE  SpeechInv(w)'
    <3>1. CopiedFrom(k) => CopiedFrom(k)'
      BY <1>1, <2>1 DEF CopiedFrom, EndMark
    <3>2. SaidFrom(w, k)'
      BY <1>1, <1>2, <2>1, <2>8, <3>1 DEF SaidFrom
    <3> QED
      BY <1>7, <2>1, <3>2
  <2>9. CASE http.part = FrameParts
    <3>1. http' = Speech!Idle /\ held' = << >>
      BY <1>9, <2>9 DEF Speech!HttpChunk
    <3>2. http'.phrase = 0 /\ Got + 1 = Upto(k)
      BY <2>3, <2>4, <2>9, <3>1 DEF Speech!Idle
    <3> QED
      BY <2>7, <2>8, <3>1, <3>2
  <2>10. CASE http.part # FrameParts
    <3>1. http' = [http EXCEPT !.part = @ + 1]
      BY <1>9, <2>10 DEF Speech!HttpChunk
    <3>2. http'.phrase = k /\ http'.part = http.part + 1 /\ http'.part \in 1..FrameParts
      BY <2>2, <2>10, <3>1 DEF SpeechTypes, CountTyped, FramesAssumption
    <3>3. Got' = Upto(k - 1) + http'.part - 1
      BY <2>2, <2>3, <2>4, <2>7, <3>2 DEF FramesAssumption
    <3>4. Saying(w, k)'
      BY <2>2, <2>7, <3>2, <3>3 DEF Saying
    <3>5. http'.phrase # 0
      BY <1>3, <2>2, <3>2
    <3> QED
      BY <2>8, <3>4, <3>5
  <2> QED
    BY <2>9, <2>10
<1>10. CASE Speech!HttpFails
  <2>1. UNCHANGED <<heard, held, taken, copies>>
    BY <1>10 DEF Speech!HttpFails
  <2>2. CASE main' = "failed"
    BY <1>6, <2>1, <2>2
  <2>3. CASE http' = [http EXCEPT !.plain = TRUE] /\ main' = main
    <3>1. http'.phrase = http.phrase /\ http'.part = http.part
      BY <2>3 DEF SpeechTypes, CountTyped
    <3>2. Saying(w, k) => Saying(w, k)'
      BY <2>1, <3>1 DEF Saying, HeardSo, Got
    <3>3. CopiedFrom(k) => CopiedFrom(k)'
      BY <1>1, <2>1 DEF CopiedFrom, EndMark
    <3>4. SaidFrom(w, k)'
      BY <1>1, <1>2, <2>1, <3>1, <3>2, <3>3 DEF SaidFrom
    <3> QED
      BY <1>1, <1>7, <2>3, <3>4
  <2> QED
    BY <1>10, <2>2, <2>3 DEF Speech!HttpFails
<1>11. CASE Speech!HttpStops
  BY <1>6, <1>11 DEF Speech!HttpStops
<1> QED
  BY <1>8, <1>9, <1>10, <1>11 DEF Speech!Http

-----------------------------------------------------------------------------
(* All together.                                                              *)

\* Opening: nothing was said, whichever way it goes.
LEMMA OpenKeeps ==
    ASSUME FramesAssumption, SpeechTypes, SenderInv, NEW w, Speech!Open
    PROVE  SpeechInv(w)'
<1>1. main \in {"open", "register"}
  BY DEF Speech!Open, Speech!Ensure, Speech!Register
<1>2. /\ sender = "none" /\ taken = 0 /\ copies = << >> /\ http = Speech!Idle
      /\ making = << >> /\ frames = << >> /\ heard = << >> /\ held = << >> /\ ~received
  BY <1>1 DEF SenderInv, Early
<1>3. UNCHANGED <<phrases, taken, copies, http, making, frames, heard, held, received>>
  BY DEF Speech!Open, Speech!Ensure, Speech!Register, Speech!reply, Speech!senders
<1>4. /\ taken' = 0 /\ copies' = << >> /\ http'.phrase = 0 /\ making' = << >> /\ frames' = << >>
      /\ heard' = << >> /\ held' = << >> /\ ~received'
  BY <1>2, <1>3 DEF Speech!Idle
<1>5. Upto(0) = 0 /\ 0 \in Nat /\ Part(w, << >>, 0, 0)
  <2>1. 0 \in Nat
    OBVIOUS
  <2> QED
    BY <2>1, UptoIs, PartEmpty
<1>6. Got' = 0 /\ Len(heard') = 0 /\ Len(frames') = 0 /\ Len(making') = 0 /\ Len(copies') = 0
  BY <1>4 DEF Got
<1>7. CASE main' = "register"
  BY <1>7 DEF SpeechInv, Listening, Replaying, Spoken
<1>8. CASE main' = "http" /\ sender' = sender
  <2>1. SaidFrom(w, 0)'
    BY <1>2, <1>4, <1>5, <1>8 DEF SaidFrom
  <2> QED
    BY <1>8, <2>1 DEF SpeechInv, Listening, Replaying, Spoken
<1>9. CASE main' = "listen" /\ sender' = "next" /\ known'
  <2>1. CopiedFrom(0)'
    BY <1>4, <1>6, <1>9 DEF CopiedFrom, EndMark
  <2>2. HeardSo(w)'
    BY <1>4, <1>5, <1>6 DEF HeardSo
  <2>3. QueuedSo(w, 0)'
    BY <1>4, <1>5, <1>6 DEF QueuedSo
  <2>4. Ready' = 0
    BY <1>4, <1>5, <1>9 DEF Ready
  <2>5. MadeSo(w, 0)'
    BY <1>6, <1>9, <2>4 DEF MadeSo
  <2>6. Flows(w, 0)'
    BY <2>3, <2>5 DEF Flows
  <2> QED
    BY <1>4, <1>9, <2>1, <2>2, <2>6 DEF SpeechInv, Listening, Replaying, Spoken
<1>10. \/ main' = "register"
       \/ main' = "http" /\ sender' = sender
       \/ main' = "listen" /\ sender' = "next" /\ known'
  BY DEF Speech!Open, Speech!Ensure, Speech!Register, Speech!senders
<1> QED
  BY <1>7, <1>8, <1>9, <1>10

LEMMA SpeechInvStep ==
    ASSUME FramesAssumption, SpeechTypes, SenderInv, NEW w, Reply(w, phrases), SpeechInv(w),
           [Speech!Next]_(Speech!vars)
    PROVE  SpeechInv(w)'
<1>1. ASSUME UNCHANGED <<phrases, known, making, frames, sender, taken, broken, copies, main,
                         received, held, http, heard>>,
             quit => quit'
      PROVE  SpeechInv(w)'
  <2>1. Got' = Got /\ HeardSo(w)' = HeardSo(w) /\ EndMark' = EndMark /\ Ready' = Ready
    BY <1>1 DEF Got, HeardSo, EndMark, Ready
  <2>2. \A k : CopiedFrom(k) => CopiedFrom(k)'
    BY <1>1, <2>1 DEF CopiedFrom
  <2>3. \A m : Flows(w, m) => Flows(w, m)'
    BY <1>1, <2>1 DEF Flows, QueuedSo, MadeSo, BrokeOff, MarkedBy, ClosedAt
  <2>4. \A k : SaidFrom(w, k) => SaidFrom(w, k)'
    BY <1>1, <2>1, <2>2 DEF SaidFrom, Saying
  <2>5. Listening(w)' /\ Replaying(w)'
    BY <1>1, <2>1, <2>2, <2>3, <2>4 DEF SpeechInv, Listening, Replaying
  <2>6. Spoken(w)'
    BY <1>1 DEF SpeechInv, Spoken
  <2> QED
    BY <2>5, <2>6 DEF SpeechInv
<1>2. CASE UNCHANGED Speech!vars
  BY <1>1, <1>2 DEF Speech!vars, Speech!reply, Speech!threads, Speech!senders, Speech!consumer
<1>3. CASE Speech!Cancel
  BY <1>1, <1>3 DEF Speech!Cancel, Speech!reply, Speech!threads, Speech!senders, Speech!consumer
<1>4. CASE Speech!Open
  BY <1>4, OpenKeeps
<1>5. CASE Speech!Provider
  <2>1. UNCHANGED <<phrases, quit, taken, copies, sender, main, received, held, http, heard>>
    BY <1>5 DEF Speech!Provider, Speech!Synthesise, Speech!ProviderFails, Speech!SocketDies,
       Speech!ProviderStep, Speech!reply, Speech!senders, Speech!consumer
  <2>2. Listening(w)'
    BY <1>5, ListeningProvider DEF SpeechInv
  <2>3. \A k : SaidFrom(w, k) => SaidFrom(w, k)'
    BY <2>1 DEF SaidFrom, Saying, CopiedFrom, EndMark, HeardSo, Got
  <2>4. Replaying(w)' /\ Spoken(w)'
    BY <2>1, <2>3 DEF SpeechInv, Replaying, Spoken
  <2> QED
    BY <2>2, <2>4 DEF SpeechInv
<1>6. CASE Speech!Sender
  <2>1. /\ UNCHANGED <<phrases, quit, main, received, held, http, heard>>
        /\ sender # "none" /\ sender' # "none"
    <3>1. sender' # "none"
      BY <1>6 DEF Speech!Sender, Speech!Take, Speech!SendFails, Speech!Send, Speech!Pump, Speech!Leave
    <3> QED
      BY <1>6, <3>1, SenderTakes
  <2>2. Listening(w)'
    BY <1>6, ListeningSender DEF SpeechInv
  <2>3. ASSUME NEW k, SaidFrom(w, k) PROVE SaidFrom(w, k)'
    <3>1. k \in Nat /\ k <= taken /\ CopiedFrom(k)
      BY <2>1, <2>3 DEF SaidFrom
    <3>2. CopiedFrom(k)' /\ k <= taken'
      BY <1>6, <3>1, CopiesGrow
    <3>3. Saying(w, k) => Saying(w, k)'
      BY <2>1 DEF Saying, HeardSo, Got
    <3> QED
      BY <2>1, <2>3, <3>1, <3>2, <3>3 DEF SaidFrom
  <2>4. Replaying(w)' /\ Spoken(w)'
    BY <2>1, <2>3 DEF SpeechInv, Replaying, Spoken
  <2> QED
    BY <2>2, <2>4 DEF SpeechInv
<1>7. CASE Speech!Listen
  BY <1>7, ListenStepKeeps
<1>8. CASE Speech!Http
  BY <1>8, HttpStepKeeps
<1> QED
  BY <1>2, <1>3, <1>4, <1>5, <1>6, <1>7, <1>8 DEF Speech!Next, Speech!Rest

SpeechIInv == SpeechTypes /\ SenderInv /\ SpeechInv(Speech!Written(phrases))

LEMMA SpeechStarts ==
    ASSUME FramesAssumption, Speech!Init
    PROVE  SpeechIInv
<1>1. << >> \in Seq(Frames) /\ << >> \in Seq(Nat)
  OBVIOUS
<1>2. phrases \in Nat
  BY DEF Speech!Init, FramesAssumption
<1>3. SpeechTypes
  BY <1>1, <1>2 DEF Speech!Init, SpeechTypes, FlowTyped, CountTyped, PlaceTyped, Speech!Idle
<1>4. SenderInv
  BY DEF Speech!Init, SenderInv, Takes, Backups, Early
<1>5. SpeechInv(Speech!Written(phrases))
  BY DEF Speech!Init, SpeechInv, Listening, Replaying, Spoken
<1> QED
  BY <1>3, <1>4, <1>5 DEF SpeechIInv

LEMMA SpeechGoesOn ==
    ASSUME FramesAssumption, SpeechIInv, [Speech!Next]_(Speech!vars)
    PROVE  SpeechIInv'
<1>1. SpeechTypes /\ SenderInv
  BY DEF SpeechIInv
<1>2. SpeechTypes' /\ SenderInv'
  BY <1>1, TypesStep, SenderInvStep
<1>3. phrases \in Nat
  BY <1>1 DEF SpeechTypes, CountTyped
<1>4. PICK w : w = Speech!Written(phrases)
  OBVIOUS
<1>5. Reply(w, phrases) /\ SpeechInv(w)
  BY <1>3, <1>4, WrittenIs DEF SpeechIInv
<1>6. SpeechInv(w)'
  BY <1>1, <1>5, SpeechInvStep
<1>7. phrases' = phrases
  BY DEF Speech!Next, Speech!Rest, Speech!vars, Speech!Cancel, Speech!Open, Speech!Ensure,
     Speech!Register, Speech!Provider, Speech!Synthesise, Speech!ProviderFails, Speech!SocketDies,
     Speech!ProviderStep, Speech!Sender, Speech!Take, Speech!SendFails, Speech!Send, Speech!Pump,
     Speech!SenderStep, Speech!Listen, Speech!Read, Speech!Deadline, Speech!NothingToSay,
     Speech!StopListening, Speech!ListenStep, Speech!Http, Speech!HttpTake, Speech!HttpChunk,
     Speech!HttpFails, Speech!HttpStops, Speech!HttpStep, Speech!reply
<1>8. Speech!Written(phrases)' = w
  BY <1>4, <1>7 DEF Speech!Written, Speech!FlattenSeq, Speech!Audio
<1> QED
  BY <1>2, <1>6, <1>8 DEF SpeechIInv

\* The user hears the reply in its order and never a part of it twice, and all of it when the
\* stream ends well and was not cancelled (speak_realtime_stream with its fallback, speak_stream).
THEOREM TheReplyIsHeardAsWritten ==
    ASSUME FramesAssumption
    PROVE  Speech!Spec => []Speech!HeardAsWritten
<1>1. SpeechIInv => Speech!HeardAsWritten
  <2> SUFFICES ASSUME SpeechIInv PROVE Speech!HeardAsWritten
    OBVIOUS
  <2>1. SpeechTypes /\ SenderInv /\ phrases \in Nat /\ heard \in Seq(Frames)
    BY DEF SpeechIInv, SpeechTypes, FlowTyped, CountTyped
  <2>2. PICK w : w = Speech!Written(phrases)
    OBVIOUS
  <2>3. Reply(w, phrases) /\ SpeechInv(w)
    BY <2>1, <2>2, WrittenIs DEF SpeechIInv
  <2>4. Len(heard) \in Nat /\ Len(held) \in Nat /\ Got \in Nat /\ Got = Len(heard) + Len(held)
    BY <2>1, GotIs DEF Got
  <2>5. /\ Part(w, heard, 0, Len(heard)) /\ Len(heard) <= Upto(phrases)
        /\ main = "done" /\ ~quit => Len(heard) = Upto(phrases)
    <3>1. CASE main \in {"open", "register"}
      <4>1. heard = << >>
        BY <2>1, <3>1 DEF SenderInv, Early
      <4>2. Len(heard) = 0 /\ Upto(phrases) \in Nat /\ Part(w, << >>, 0, 0)
        <5>1. 0 \in Nat
          OBVIOUS
        <5> QED
          BY <2>1, <4>1, <5>1, UptoIs, PartEmpty
      <4> QED
        BY <3>1, <4>1, <4>2
    <3>2. CASE main = "listen"
      <4>1. HeardSo(w) /\ \E m : Flows(w, m)
        BY <2>3, <3>2 DEF SpeechInv, Listening
      <4>2. PICK m : m \in Nat /\ Got <= m /\ m <= Upto(taken)
        BY <4>1 DEF Flows, QueuedSo
      <4>3. Upto(taken) \in Nat /\ Upto(phrases) \in Nat /\ Upto(taken) <= Upto(phrases)
        BY <2>1, UptoIs DEF SpeechTypes, CountTyped
      <4>4. Len(heard) <= Upto(phrases)
        BY <2>4, <4>2, <4>3
      <4> QED
        BY <3>2, <4>1, <4>4 DEF HeardSo
    <3>3. CASE main = "http"
      <4>1. PICK k : SaidFrom(w, k)
        BY <2>3, <3>3 DEF SpeechInv, Replaying
      <4> QED
        BY <2>1, <3>3, <4>1, SaidIsSpoken
    <3>4. CASE main \in {"done", "failed"}
      BY <2>3, <3>4 DEF SpeechInv, Spoken
    <3> QED
      BY <2>1, <3>1, <3>2, <3>3, <3>4 DEF SpeechTypes, PlaceTyped
  <2>6. Speech!IsPrefix(heard, w) /\ (Len(heard) = Upto(phrases) => heard = w)
    BY <2>1, <2>3, <2>4, <2>5, PartOfReply
  <2> QED
    BY <2>2, <2>5, <2>6 DEF Speech!HeardAsWritten
<1> QED
  BY <1>1, SpeechStarts, SpeechGoesOn, PTL DEF Speech!Spec

=============================================================================
