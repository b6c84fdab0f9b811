----------------------------- MODULE HouseProofs -----------------------------
(***************************************************************************)
(* What the house keeps for all values of the constants: what the user     *)
(* chose (ConfigFiles, extended here), the microphone (HostVoice), the     *)
(* verdict on a provider (ProviderStream), the ledger of activity          *)
(* (Activity), the nights and the soul (Dreams), what the user cuts off    *)
(* (BrowserVoice), and the panels on the wall (Wall).                      *)
(***************************************************************************)
EXTENDS ConfigFiles, Sequences, TLAPS, FiniteSetTheorems, WellFoundedInduction

\* Objects that are whole and need no repair.
Clean(f) == [Fields[f] -> {0, 1}]

\* The parts of the invariant.
FilesTyped ==
    /\ DOMAIN file = Files
    /\ \A f \in Files : file[f].kind = "object" =>
           \A k \in DOMAIN file[f].has : file[f].has[k] \in Values
WantsTyped ==
    /\ pc \in [Writers -> {"idle", "load", "save"}]
    /\ DOMAIN want = Writers /\ DOMAIN copy = Writers
    /\ \A w \in Writers :
           /\ want[w].file \in Files
           /\ want[w].field \in Fields[want[w].file]
           /\ want[w].value \in Values
ChosenTyped ==
    /\ DOMAIN chosen = Files
    /\ \A f \in Files : DOMAIN chosen[f] \subseteq Fields[f]

\* Who is about to save holds a whole object that agrees with every choice.
CopyIsCurrent ==
    \A w \in Writers : pc[w] = "save" =>
        /\ copy[w] \in Clean(want[w].file)
        /\ \A k \in DOMAIN chosen[want[w].file] :
               copy[w][k] = chosen[want[w].file][k]

ConfigInv ==
    /\ FilesTyped /\ WantsTyped /\ ChosenTyped
    /\ faults = 0
    /\ CopyIsCurrent /\ ChoiceStands

-----------------------------------------------------------------------------

LEMMA FieldsAre ==
    /\ DOMAIN Fields = Files
    /\ Fields["settings"] = {"permissions", "language", "resource_profile"}
    /\ Fields["models"] = {"face", "tts"}
BY DEF Fields, Files

\* A load returns every field, none of them with a value that means nothing.
LEMMA LoadedClean ==
    ASSUME FilesTyped, NEW f \in Files
    PROVE  Loaded(f) \in Clean(f)
<1>1. CASE file[f].kind = "object" /\ Valid(f, file[f].has)
  <2>1. \A k \in DOMAIN file[f].has : file[f].has[k] \in Values
    BY <1>1 DEF FilesTyped
  <2>2. CASE f = "settings"
    <3>1. Loaded(f) = Normal(f, Filled(f, file[f].has))
      BY <1>1 DEF Loaded
    <3>2. Filled(f, file[f].has) \in [Fields[f] -> Values]
      BY <2>1 DEF Filled, Values
    <3>3. QED
      BY <2>2, <3>1, <3>2 DEF Normal, Values, Clean
  <2>3. CASE f = "models"
    <3>1. Loaded(f) = Normal(f, Filled(f, file[f].has))
      BY <1>1 DEF Loaded
    <3>2. \A k \in DOMAIN file[f].has : file[f].has[k] # 9
      BY <1>1, <2>3 DEF Valid
    <3>3. Filled(f, file[f].has) \in [Fields[f] -> {0, 1}]
      BY <2>1, <3>2 DEF Filled, Values
    <3>4. QED
      BY <2>3, <3>1, <3>3 DEF Normal, Clean
  <2>4. QED
    BY <2>2, <2>3 DEF Files
<1>2. CASE ~(file[f].kind = "object" /\ Valid(f, file[f].has))
  BY <1>2 DEF Loaded, Default, Clean
<1>3. QED
  BY <1>1, <1>2

\* A whole object, once written, is read back as it was written.
LEMMA ReadBack ==
    ASSUME NEW f \in Files, NEW v \in Clean(f), file'[f] = Object(v)
    PROVE  Loaded(f)' = v
<1>1. file'[f].kind = "object" /\ file'[f].has = v
  BY DEF Object
<1>2. Valid(f, v)
  BY DEF Valid, Clean
<1>3. Filled(f, v) = v
  BY DEF Filled, Clean
<1>4. Normal(f, v) = v
  BY DEF Normal, Clean
<1>5. QED
  BY <1>1, <1>2, <1>3, <1>4 DEF Loaded

\* What a load returns depends on that file alone.
LEMMA LoadedSame ==
    ASSUME NEW f \in Files, file'[f] = file[f]
    PROVE  Loaded(f)' = Loaded(f)
BY DEF Loaded

-----------------------------------------------------------------------------

LEMMA ConfigInit == Init => ConfigInv
<1> SUFFICES ASSUME Init PROVE ConfigInv
  OBVIOUS
<1>1. FilesTyped
  BY DEF Init, FilesTyped, Absent
<1>2. WantsTyped
  BY FieldsAre DEF Init, WantsTyped, NoWant, Files, Values
<1>3. ChosenTyped /\ ChoiceStands
  BY DEF Init, ChosenTyped, ChoiceStands, Nothing
<1>4. CopyIsCurrent
  BY DEF Init, CopyIsCurrent
<1>5. QED
  BY <1>1, <1>2, <1>3, <1>4 DEF Init, ConfigInv

-----------------------------------------------------------------------------

\* A step that writes neither file, and sets no choice, changes neither.
LEMMA StandsStill ==
    ASSUME ConfigInv, UNCHANGED <<file, chosen>>
    PROVE  FilesTyped' /\ ChosenTyped' /\ ChoiceStands'
<1>1. FilesTyped' /\ ChosenTyped'
  BY DEF ConfigInv, FilesTyped, ChosenTyped
<1>2. \A f \in Files : Loaded(f)' = Loaded(f)
  BY LoadedSame
<1>3. ChoiceStands'
  BY <1>2 DEF ConfigInv, ChoiceStands
<1>4. QED
  BY <1>1, <1>3

LEMMA RequestKeeps ==
    ASSUME ConfigInv, NEW w \in Writers, Request(w)
    PROVE  ConfigInv'
<1>1. FilesTyped' /\ ChosenTyped' /\ ChoiceStands'
  BY StandsStill DEF Request
<1>2. WantsTyped'
  BY FieldsAre DEF Request, ConfigInv, WantsTyped
<1>3. CopyIsCurrent'
  BY DEF Request, ConfigInv, WantsTyped, CopyIsCurrent
<1>4. QED
  BY <1>1, <1>2, <1>3 DEF Request, ConfigInv

\* A copy just loaded is current.
LEMMA ProceedIsCurrent ==
    ASSUME ConfigInv, NEW w \in Writers, Writers = {w},
           Proceed(w, Loaded(want[w].file))
    PROVE  WantsTyped' /\ ChosenTyped' /\ CopyIsCurrent'
<1>1. WantsTyped' /\ ChosenTyped'
  BY DEF Proceed, ConfigInv, WantsTyped, ChosenTyped
<1>2. copy'[w] = Loaded(want[w].file) /\ want' = want /\ chosen' = chosen
  BY DEF Proceed, ConfigInv, WantsTyped
<1>3. want[w].file \in Files
  BY DEF ConfigInv, WantsTyped
<1>4. Loaded(want[w].file) \in Clean(want[w].file)
  BY <1>3, LoadedClean DEF ConfigInv
<1>5. \A k \in DOMAIN chosen[want[w].file] :
          Loaded(want[w].file)[k] = chosen[want[w].file][k]
  BY <1>3 DEF ConfigInv, ChoiceStands
<1>6. QED
  BY <1>1, <1>2, <1>4, <1>5 DEF CopyIsCurrent, Clean

LEMMA LoadSettingsKeeps ==
    ASSUME ConfigInv, NEW w \in Writers, Writers = {w}, LoadSettings(w)
    PROVE  ConfigInv'
<1>1. FilesTyped' /\ ChosenTyped' /\ ChoiceStands'
  BY StandsStill DEF LoadSettings, Proceed
<1>2. WantsTyped' /\ CopyIsCurrent'
  BY ProceedIsCurrent DEF LoadSettings
<1>3. QED
  BY <1>1, <1>2 DEF LoadSettings, ConfigInv

\* The repair of models.json writes what was loaded, and changes no answer.
LEMMA LoadModelsKeeps ==
    ASSUME ConfigInv, NEW w \in Writers, Writers = {w}, MaxFaults = 0, LoadModels(w)
    PROVE  ConfigInv'
<1>1. WantsTyped' /\ ChosenTyped' /\ CopyIsCurrent'
  BY ProceedIsCurrent DEF LoadModels
<1>2. faults' = 0 /\ chosen' = chosen
  BY DEF LoadModels, ConfigInv, Proceed
<1>3. Loaded("models") \in Clean("models")
  BY LoadedClean DEF ConfigInv, Files
<1>4. file' = [file EXCEPT !["models"] = Object(Loaded("models"))]
  BY DEF LoadModels
<1>5. FilesTyped'
  <2>1. DOMAIN file' = Files /\ file'["models"] = Object(Loaded("models"))
    BY <1>4 DEF ConfigInv, FilesTyped, Files
  <2>2. \A k \in DOMAIN file'["models"].has : file'["models"].has[k] \in Values
    BY <2>1, <1>3 DEF Object, Clean, Values
  <2>3. file'["settings"] = file["settings"]
    BY <1>4 DEF ConfigInv, FilesTyped, Files
  <2>4. QED
    BY <2>1, <2>2, <2>3 DEF ConfigInv, FilesTyped, Files
<1>6. Loaded("models")' = Loaded("models")
  <2>1. file'["models"] = Object(Loaded("models"))
    BY <1>4 DEF ConfigInv, FilesTyped, Files
  <2>2. QED
    BY <1>3, <2>1, ReadBack DEF Files
<1>7. Loaded("settings")' = Loaded("settings")
  <2>1. file'["settings"] = file["settings"]
    BY <1>4 DEF ConfigInv, FilesTyped, Files
  <2>2. QED
    BY <2>1, LoadedSame DEF Files
<1>8. ChoiceStands'
  BY <1>2, <1>6, <1>7 DEF ConfigInv, ChoiceStands, Files
<1>9. QED
  BY <1>1, <1>2, <1>5, <1>8 DEF ConfigInv

LEMMA RefuseKeeps ==
    ASSUME ConfigInv, NEW w \in Writers, Refuse(w)
    PROVE  ConfigInv'
<1>1. FilesTyped' /\ ChosenTyped' /\ ChoiceStands'
  BY StandsStill DEF Refuse
<1>2. WantsTyped' /\ CopyIsCurrent'
  BY DEF Refuse, ConfigInv, WantsTyped, CopyIsCurrent
<1>3. QED
  BY <1>1, <1>2 DEF Refuse, ConfigInv

\* A save writes one choice more and keeps the others.
LEMMA SaveKeeps ==
    ASSUME ConfigInv, NEW w \in Writers, Writers = {w}, Save(w)
    PROVE  ConfigInv'
<1>a. want[w].file \in Files /\ want[w].field \in Fields[want[w].file] /\ Wanted(w) \in {0, 1}
  BY DEF ConfigInv, WantsTyped, Save, Wanted, Values
<1>1. PICK f \in Files : \E k \in Fields[f], v \in {0, 1} :
          f = want[w].file /\ k = want[w].field /\ v = Wanted(w)
  BY <1>a
<1>b. PICK k \in Fields[f], v \in {0, 1} :
          f = want[w].file /\ k = want[w].field /\ v = Wanted(w)
  BY <1>1
<1>2. copy[w] \in Clean(f) /\ (\A j \in DOMAIN chosen[f] : copy[w][j] = chosen[f][j])
  BY <1>b DEF Save, ConfigInv, CopyIsCurrent
<1>3. Changed(w) \in Clean(f) /\ Changed(w)[k] = v
      /\ (\A j \in Fields[f] \ {k} : Changed(w)[j] = copy[w][j])
  BY <1>b, <1>2 DEF Changed, Clean
<1>4. file' = [file EXCEPT ![f] = Object(Changed(w))]
      /\ chosen' = [chosen EXCEPT ![f] = Put(k, v, chosen[f])]
  BY <1>b DEF Save
<1>5. file'[f] = Object(Changed(w)) /\ DOMAIN file' = Files
      /\ (\A g \in Files \ {f} : file'[g] = file[g])
  BY <1>1, <1>4 DEF ConfigInv, FilesTyped
<1>6. chosen'[f] = Put(k, v, chosen[f]) /\ DOMAIN chosen' = Files
      /\ (\A g \in Files \ {f} : chosen'[g] = chosen[g])
  BY <1>1, <1>4 DEF ConfigInv, ChosenTyped
<1>7. FilesTyped'
  <2>1. Object(Changed(w)).has = Changed(w)
    BY DEF Object
  <2>2. \A j \in DOMAIN Changed(w) : Changed(w)[j] \in Values
    BY <1>3 DEF Clean, Values
  <2>3. QED
    BY <1>5, <2>1, <2>2 DEF ConfigInv, FilesTyped
<1>8. DOMAIN chosen'[f] = DOMAIN chosen[f] \union {k} /\ chosen'[f][k] = v
      /\ (\A j \in DOMAIN chosen[f] \ {k} : chosen'[f][j] = chosen[f][j])
  BY <1>6 DEF Put
<1>9. ChosenTyped'
  BY <1>1, <1>6, <1>8 DEF ConfigInv, ChosenTyped
<1>10. ChoiceStands'
  <2>1. Loaded(f)' = Changed(w)
    BY <1>1, <1>3, <1>5, ReadBack
  <2>2. \A g \in Files \ {f} : Loaded(g)' = Loaded(g)
    BY <1>5, LoadedSame
  <2>3. \A j \in DOMAIN chosen'[f] : Changed(w)[j] = chosen'[f][j]
    BY <1>1, <1>2, <1>3, <1>8 DEF ConfigInv, ChosenTyped
  <2>4. QED
    BY <1>6, <2>1, <2>2, <2>3 DEF ConfigInv, ChoiceStands
<1>11. WantsTyped' /\ CopyIsCurrent'
  BY DEF Save, ConfigInv, WantsTyped, CopyIsCurrent
<1>12. QED
  BY <1>7, <1>9, <1>10, <1>11 DEF Save, ConfigInv

\* A crash loses the request in hand; a file is replaced whole or not at all.
LEMMA CrashKeeps ==
    ASSUME ConfigInv, Crash
    PROVE  ConfigInv'
<1>1. file' = [f \in Files |-> file[f]]
  BY DEF Crash, Torn
<1>2. chosen' = chosen /\ (\A f \in Files : file'[f] = file[f]) /\ DOMAIN file' = Files
  BY <1>1 DEF Crash
<1>3. FilesTyped' /\ ChosenTyped'
  BY <1>2 DEF ConfigInv, FilesTyped, ChosenTyped
<1>4. \A f \in Files : Loaded(f)' = Loaded(f)
  BY <1>2, LoadedSame
<1>5. ChoiceStands'
  BY <1>2, <1>4 DEF ConfigInv, ChoiceStands
<1>6. WantsTyped' /\ CopyIsCurrent'
  BY DEF Crash, ConfigInv, WantsTyped, CopyIsCurrent
<1>7. QED
  BY <1>3, <1>5, <1>6 DEF Crash, ConfigInv

\* What a person writes over is no longer a choice of the program's.
LEMMA EditKeeps ==
    ASSUME ConfigInv, NEW f \in Files, EditByHand(f)
    PROVE  ConfigInv'
<1>1. /\ DOMAIN file' = Files
      /\ \A g \in Files \ {f} : file'[g] = file[g]
      /\ \A k \in DOMAIN file'[f].has :
             file'[f].kind = "object" => file'[f].has[k] \in Values
  <2>1. CASE file' = [file EXCEPT ![f] = Broken]
    BY <2>1 DEF ConfigInv, FilesTyped, Broken
  <2>2. CASE \E K \in SUBSET Fields[f] : \E v \in [K -> Values] :
                 file' = [file EXCEPT ![f] = Object(v)]
    BY <2>2 DEF ConfigInv, FilesTyped, Object
  <2>3. QED
    BY <2>1, <2>2 DEF EditByHand
<1>2. FilesTyped'
  BY <1>1 DEF ConfigInv, FilesTyped
<1>3. DOMAIN chosen' = Files /\ DOMAIN chosen'[f] = {}
      /\ (\A g \in Files \ {f} : chosen'[g] = chosen[g])
  BY DEF EditByHand, ConfigInv, ChosenTyped, Nothing
<1>4. ChosenTyped'
  BY <1>3 DEF ConfigInv, ChosenTyped
<1>5. \A g \in Files \ {f} : Loaded(g)' = Loaded(g)
  BY <1>1, LoadedSame
<1>6. ChoiceStands'
  BY <1>3, <1>5 DEF ConfigInv, ChoiceStands
<1>7. WantsTyped'
  BY DEF EditByHand, ConfigInv, WantsTyped
<1>8. CopyIsCurrent'
  BY <1>3 DEF EditByHand, ConfigInv, WantsTyped, CopyIsCurrent
<1>9. QED
  BY <1>2, <1>4, <1>6, <1>7, <1>8 DEF EditByHand, ConfigInv

-----------------------------------------------------------------------------

\* No load and no save fails when the disk works.
LEMMA ConfigStep ==
    ASSUME NEW u, Writers = {u}, MaxFaults = 0, ConfigInv, [Next]_vars
    PROVE  ConfigInv'
<1>1. CASE \E w \in Writers : Request(w)
  BY <1>1, RequestKeeps
<1>2. CASE \E w \in Writers : LoadSettings(w)
  BY <1>2, LoadSettingsKeeps
<1>3. CASE \E w \in Writers : LoadModels(w)
  BY <1>3, LoadModelsKeeps
<1>4. CASE \E w \in Writers : LoadFails(w) \/ SaveFails(w)
  BY <1>4 DEF LoadFails, SaveFails, ConfigInv
<1>5. CASE \E w \in Writers : Refuse(w)
  BY <1>5, RefuseKeeps
<1>6. CASE \E w \in Writers : Save(w)
  BY <1>6, SaveKeeps
<1>7. CASE Crash
  BY <1>7, CrashKeeps
<1>8. CASE \E f \in Files : EditByHand(f)
  BY <1>8, EditKeeps
<1>9. CASE UNCHANGED vars
  <2>1. FilesTyped' /\ ChosenTyped' /\ ChoiceStands'
    BY <1>9, StandsStill DEF vars
  <2>2. WantsTyped' /\ CopyIsCurrent'
    BY <1>9 DEF vars, ConfigInv, WantsTyped, CopyIsCurrent
  <2>3. QED
    BY <1>9, <2>1, <2>2 DEF vars, ConfigInv
<1>10. QED
  BY <1>1, <1>2, <1>3, <1>4, <1>5, <1>6, <1>7, <1>8, <1>9 DEF Next

\* load_settings, load_models, save_settings and save_models: an acknowledged
\* choice is what every later load returns, until it is made again or someone
\* edits the file by hand, whatever other field is set since and whenever the
\* process dies.  One request at a time and a disk that works: with two, or
\* with a read that fails, the runs show a choice lost.
THEOREM ChoicesStand ==
    ASSUME NEW u, Writers = {u}, MaxFaults = 0
    PROVE  Spec => []ChoiceStands
<1>1. Init => ConfigInv
  BY ConfigInit
<1>2. ConfigInv /\ [Next]_vars => ConfigInv'
  BY ConfigStep
<1>3. ConfigInv => ChoiceStands
  BY DEF ConfigInv
<1>4. QED
  BY <1>1, <1>2, <1>3, PTL DEF Spec

-----------------------------------------------------------------------------
(* The microphone.                                                            *)

CONSTANTS Confirms, Browsers, MaxCommands, QueueCap
VARIABLES listening, sessions, before, wanted, queue, pending, asked, granted, yes, sent,
          spokenId, busy, stopped, control, ears, answerId
Host == INSTANCE HostVoice

\* What the host is to come back to is kept exactly while a browser has the microphone.
MicInv ==
    /\ listening \in BOOLEAN /\ wanted \in BOOLEAN /\ sessions \in Nat
    /\ sessions = 0 => before = {}
    /\ Host!BrowserHasTheMic

LEMMA MicInit == Host!Init => MicInv
BY DEF Host!Init, MicInv, Host!BrowserHasTheMic

LEMMA MicSame == ASSUME MicInv, UNCHANGED Host!micVars PROVE MicInv'
BY DEF MicInv, Host!micVars, Host!BrowserHasTheMic

LEMMA MicStep == ASSUME MicInv, [Host!Next]_(Host!vars) PROVE MicInv'
<1>1. CASE Host!Acquire
  <2>1. sessions' \in Nat /\ sessions' > 0 /\ sessions' # 0 /\ (sessions = 0 \/ sessions > 0)
    BY <1>1 DEF Host!Acquire, MicInv
  <2>2. listening' = FALSE /\ before' = IF sessions = 0 THEN {listening} ELSE before
    BY <1>1 DEF Host!Acquire
  <2>3. wanted' = wanted
    BY <1>1 DEF Host!Acquire
  <2>4. CASE sessions = 0
    <3>1. ~(sessions > 0)
      BY <2>4
    <3>2. listening = wanted
      BY <3>1, Zenon DEF MicInv, Host!BrowserHasTheMic
    <3> QED
      BY <2>1, <2>2, <2>3, <2>4, <3>2, Zenon DEF MicInv, Host!BrowserHasTheMic
  <2>5. CASE sessions > 0
    <3>1. sessions # 0
      BY <2>5
    <3> QED
      BY <2>1, <2>2, <2>3, <2>5, <3>1, Zenon DEF MicInv, Host!BrowserHasTheMic
  <2> QED
    BY <2>1, <2>4, <2>5
<1>2. CASE Host!Release
  <2>1. sessions > 0 /\ sessions' \in Nat /\ wanted' = wanted
    BY <1>2 DEF Host!Release, MicInv
  <2>2. ~listening /\ before = {wanted} /\ wanted \in BOOLEAN
    BY <2>1, Zenon DEF MicInv, Host!BrowserHasTheMic
  <2>3. CASE sessions = 1
    <3>1. sessions' = 0 /\ ~(sessions' > 0)
      BY <1>2, <2>3 DEF Host!Release
    <3>2. listening' = (TRUE \in before) /\ before' = {}
      BY <1>2, <2>3, Zenon DEF Host!Release
    <3>3. listening' <=> TRUE \in before
      BY <3>2
    <3>4. listening' \in BOOLEAN
      BY <3>2
    <3>5. ASSUME wanted = TRUE PROVE listening' = wanted
      <4>1. listening'
        BY <2>2, <3>3, <3>5, Zenon
      <4> QED
        BY <3>4, <3>5, <4>1, Zenon
    <3>6. ASSUME wanted = FALSE PROVE listening' = wanted
      <4>1. ~listening'
        BY <2>2, <3>3, <3>6, Zenon
      <4> QED
        BY <3>4, <3>6, <4>1, Zenon
    <3>7. listening' = wanted
      BY <2>2, <3>5, <3>6, Zenon
    <3> QED
      BY <2>1, <2>2, <3>1, <3>2, <3>7, Zenon DEF MicInv, Host!BrowserHasTheMic
  <2>4. CASE sessions # 1
    <3>1. sessions' > 0 /\ sessions' # 0
      BY <1>2, <2>4 DEF Host!Release, MicInv
    <3>2. listening' = listening /\ before' = before
      BY <1>2, <2>4, Zenon DEF Host!Release
    <3>3. listening \in BOOLEAN
      BY Zenon DEF MicInv
    <3> QED
      BY <2>1, <2>2, <3>1, <3>2, <3>3, Zenon DEF MicInv, Host!BrowserHasTheMic
  <2> QED
    BY <2>3, <2>4
<1>3. ASSUME NEW on \in BOOLEAN, Host!HandleListen(on) PROVE MicInv'
  BY <1>3 DEF Host!HandleListen, Host!SetListening, MicInv, Host!BrowserHasTheMic
<1>4. CASE UNCHANGED Host!micVars
  BY <1>4, MicSame
<1> QED
  BY <1>1, <1>2, <1>3, <1>4 DEF Host!Next, Host!vars, Host!micVars, Host!Ask, Host!Withdraw,
     Host!Enqueue, Host!Send, Host!HandleDecision, Host!HandleShutdown, Host!HandleAsk,
     Host!HandleSpeak, Host!ControlSpoke, Host!Hear, Host!EarsRest, Host!Listen, Host!Nothing,
     Host!Words, Host!Forget, Host!Reply, Host!Remark, Host!EarsSpoke, Host!Shortcut,
     Host!Answer

\* However many browsers come and go and whatever the host asks for meanwhile, its flag is off
\* while one of them listens, and what the host last asked for after the last of them has left
\* (set_listening, acquire_browser_voice and release_browser_voice of state.py).
THEOREM TheMicIsGivenBack == Host!Spec => []Host!BrowserHasTheMic
<1>1. Host!Init => MicInv
  BY MicInit
<1>2. MicInv /\ [Host!Next]_(Host!vars) => MicInv'
  BY MicStep
<1>3. MicInv => Host!BrowserHasTheMic
  BY DEF MicInv
<1> QED
  BY <1>1, <1>2, <1>3, PTL DEF Host!Spec

-----------------------------------------------------------------------------
(* The wire to a provider.                                                    *)

CONSTANTS Calls, Streams, Indexes, Threshold, Cooldown, MaxBad, MaxTime
VARIABLES calling, parts, stop, bad, heard, handed, failures, until, now, history
Wire == INSTANCE ProviderStream WITH pc <- calling

\* The circuit opens after a number of failures, for a number of clock steps.
BreakerAssumption == Threshold \in Int /\ Cooldown \in Int

\* Nothing is handed out before a call is settled, and one that blocks was never cut off.
Under == {"idle", "stream", "chat"}
HandedOut ==
    /\ DOMAIN calling = Calls /\ DOMAIN stop = Calls /\ DOMAIN handed = Calls
    /\ \A c \in Calls : calling[c] \in Under => handed[c] = <<>>
    /\ \A c \in Calls : calling[c] \in {"idle", "chat"} => stop[c] # "length"
    /\ Wire!NoCallOutOfBudget

\* The last n outcomes of h are failures.
EndsBadly(h, n) == \A k \in (Len(h) - n + 1)..Len(h) : ~h[k]

\* What the breaker counts are the failures at the end of the outcomes, and the circuit was
\* never opened for fewer of them than it takes.
Counted ==
    /\ now \in Nat /\ failures \in Nat /\ until \in Int /\ history \in Seq(BOOLEAN)
    /\ failures <= Len(history) /\ EndsBadly(history, failures)
    /\ until > 0 => failures >= Threshold

LEMMA WireInit == Wire!Init => HandedOut /\ Counted
<1>1. Wire!Init => HandedOut
  BY Zenon DEF Wire!Init, HandedOut, Wire!NoCallOutOfBudget
<1>2. Wire!Init => Counted
  <2>1. Wire!Init => failures = 0 /\ until = 0 /\ history = <<>> /\ now = 0
    BY Zenon DEF Wire!Init
  <2> QED
    BY <2>1 DEF Counted, EndsBadly
<1> QED
  BY <1>1, <1>2

\* A failure lengthens the tail of failures, a success ends it.
LEMMA OneMoreFailure ==
    ASSUME NEW h \in Seq(BOOLEAN), NEW n \in Nat, n <= Len(h), EndsBadly(h, n)
    PROVE  /\ Append(h, FALSE) \in Seq(BOOLEAN)
           /\ n + 1 <= Len(Append(h, FALSE)) /\ EndsBadly(Append(h, FALSE), n + 1)
BY DEF EndsBadly

LEMMA NoneLeft ==
    ASSUME NEW h \in Seq(BOOLEAN)
    PROVE  /\ Append(h, TRUE) \in Seq(BOOLEAN)
           /\ 0 <= Len(Append(h, TRUE)) /\ EndsBadly(Append(h, TRUE), 0)
BY DEF EndsBadly

LEMMA SucceedCounts == ASSUME Counted, Wire!Succeed, now' = now PROVE Counted'
<1>1. now \in Nat /\ history \in Seq(BOOLEAN)
  BY DEF Counted
<1>2. failures' = 0 /\ until' = 0 /\ history' = Append(history, TRUE)
  BY DEF Wire!Succeed
<1>3. /\ history' \in Seq(BOOLEAN)
      /\ failures' <= Len(history') /\ EndsBadly(history', failures')
  BY <1>1, <1>2, NoneLeft
<1>4. failures' \in Nat /\ until' \in Int /\ ~(until' > 0)
  BY <1>2
<1> QED
  BY <1>1, <1>3, <1>4, Zenon DEF Counted

LEMMA FailCounts ==
    ASSUME BreakerAssumption, Counted, NEW t \in BOOLEAN, Wire!Fail(t), now' = now
    PROVE  Counted'
<1>1. CASE UNCHANGED <<failures, until, history>>
  BY <1>1 DEF Counted, EndsBadly
<1>2. CASE /\ failures' = failures + 1 /\ history' = Append(history, FALSE)
           /\ until' = IF failures + 1 >= Threshold THEN now + Cooldown ELSE until
  <2>1. history' \in Seq(BOOLEAN) /\ failures' <= Len(history') /\ EndsBadly(history', failures')
    BY <1>2, OneMoreFailure DEF Counted
  <2>2. now' \in Nat /\ failures' \in Nat /\ until' \in Int /\ (until' > 0 => failures' >= Threshold)
    BY <1>2 DEF Counted, BreakerAssumption
  <2> QED
    BY <2>1, <2>2 DEF Counted
<1> QED
  BY <1>1, <1>2 DEF Wire!Fail, Wire!breaker

LEMMA CountsStay ==
    ASSUME Counted, UNCHANGED Wire!breaker, now' = now \/ now' = now + 1 PROVE Counted'
BY DEF Counted, EndsBadly, Wire!breaker

\* A message without a tool call hands out nothing.
LEMMA NothingAssembled ==
    ASSUME NEW c \in Calls, \A i \in Indexes : parts[c][i] = Wire!NoPart
    PROVE  Wire!Assembled(c) = <<>>
<1>1. \A i \in Indexes : ~parts[c][i].named
  BY DEF Wire!NoPart
<1>2. {j \in Indexes : parts[c][j].named} = {}
  BY <1>1, Zenon
<1> QED
  BY <1>2 DEF Wire!Assembled

\* A call that stays under way, or ends without a word, hands out nothing.
LEMMA Moves ==
    ASSUME HandedOut, NEW c \in Calls, NEW how, calling' = [calling EXCEPT ![c] = how],
           how \in {"idle", "chat"} => stop[c] # "length",
           how \in Under => calling[c] \in Under,
           UNCHANGED <<stop, handed>>
    PROVE  HandedOut'
BY Zenon DEF HandedOut, Wire!NoCallOutOfBudget

LEMMA NobodyMoves == ASSUME HandedOut, UNCHANGED <<calling, stop, handed>> PROVE HandedOut'
BY Zenon DEF HandedOut, Wire!NoCallOutOfBudget

LEMMA HandsOver ==
    ASSUME HandedOut, NEW c \in Calls, NEW made, calling' = [calling EXCEPT ![c] = "done"],
           stop[c] = "length" => made = <<>>,
           handed' = [handed EXCEPT ![c] = made], UNCHANGED stop
    PROVE  HandedOut'
<1>1. "done" \notin Under
  BY DEF Under
<1> QED
  BY <1>1, Zenon DEF HandedOut, Wire!NoCallOutOfBudget

LEMMA Reports ==
    ASSUME HandedOut, NEW c \in Calls, NEW why, calling[c] = "stream",
           stop' = [stop EXCEPT ![c] = why], UNCHANGED <<calling, handed>>
    PROVE  HandedOut'
<1>1. calling[c] \in Under /\ calling[c] \notin {"idle", "chat"}
  BY DEF Under
<1> QED
  BY <1>1, Zenon DEF HandedOut, Wire!NoCallOutOfBudget

LEMMA WireStep ==
    ASSUME BreakerAssumption, HandedOut, Counted, [Wire!Next]_(Wire!vars)
    PROVE  HandedOut' /\ Counted'
<1>1. ASSUME NEW c \in Calls, Wire!Begin(c) PROVE HandedOut' /\ Counted'
  <2>1. PICK how : /\ calling' = [calling EXCEPT ![c] = how] /\ calling[c] = "idle"
                   /\ UNCHANGED <<stop, handed, failures, until, history, now>>
    BY <1>1, Zenon DEF Wire!Begin, Wire!Settle, Wire!breaker
  <2>2. stop[c] # "length" /\ calling[c] \in Under
    BY <2>1, Zenon DEF HandedOut, Under
  <2>3. HandedOut'
    BY <2>1, <2>2, Moves
  <2> QED
    BY <2>1, <2>3, CountsStay DEF Wire!breaker
<1>2. ASSUME NEW c \in Calls, Wire!ChatReturns(c) PROVE HandedOut' /\ Counted'
  <2>1. PICK made : handed' = [handed EXCEPT ![c] = made]
    BY <1>2, Zenon DEF Wire!ChatReturns
  <2>2. /\ calling[c] = "chat" /\ calling' = [calling EXCEPT ![c] = "done"]
        /\ Wire!Succeed /\ stop' = stop /\ now' = now
    BY <1>2, Zenon DEF Wire!ChatReturns, Wire!Settle
  <2>3. stop[c] # "length"
    BY <2>2, Zenon DEF HandedOut
  <2> QED
    BY <2>1, <2>2, <2>3, HandsOver, SucceedCounts
<1>3. ASSUME NEW c \in Calls, NEW t \in BOOLEAN, Wire!Raise(c, t),
             UNCHANGED <<stop, handed, now>>
      PROVE  HandedOut' /\ Counted'
  <2>1. calling' = [calling EXCEPT ![c] = "failed"] /\ Wire!Fail(t)
    BY <1>3, Zenon DEF Wire!Raise, Wire!Settle
  <2>2. "failed" \notin Under /\ "failed" \notin {"idle", "chat"}
    BY DEF Under
  <2>3. HandedOut'
    BY <1>3, <2>1, <2>2, Moves
  <2> QED
    BY <1>3, <2>1, <2>3, FailCounts
<1>4. ASSUME NEW c \in Calls, Wire!ChatRaises(c) \/ Wire!Breaks(c)
      PROVE  HandedOut' /\ Counted'
  <2>1. /\ \E t \in BOOLEAN : Wire!Raise(c, t)
        /\ UNCHANGED <<stop, handed, now>>
    BY <1>4, Zenon DEF Wire!ChatRaises, Wire!Breaks
  <2> QED
    BY <1>3, <2>1
<1>5. ASSUME NEW c \in Calls, Wire!CannotStream(c) PROVE HandedOut' /\ Counted'
  <2>1. /\ calling[c] = "stream" /\ stop[c] = "" /\ calling' = [calling EXCEPT ![c] = "chat"]
        /\ UNCHANGED <<stop, handed, failures, until, history, now>>
    BY <1>5, Zenon DEF Wire!CannotStream, Wire!Settle, Wire!breaker
  <2>2. stop[c] # "length" /\ calling[c] \in Under
    BY <2>1, Zenon DEF Under
  <2>3. HandedOut'
    BY <2>1, <2>2, Moves
  <2> QED
    BY <2>1, <2>3, CountsStay DEF Wire!breaker
<1>6. ASSUME NEW c \in Calls, Wire!Stops(c) PROVE HandedOut' /\ Counted'
  <2>1. /\ calling[c] = "stream" /\ \E why : stop' = [stop EXCEPT ![c] = why]
        /\ UNCHANGED <<calling, handed, failures, until, history, now>>
    BY <1>6, Zenon DEF Wire!Stops, Wire!breaker
  <2>2. HandedOut'
    BY <2>1, Reports
  <2> QED
    BY <2>1, <2>2, CountsStay DEF Wire!breaker
<1>7. ASSUME NEW c \in Calls, Wire!Malformed(c) PROVE HandedOut' /\ Counted'
  <2>1. CASE Wire!Raise(c, FALSE)
    BY <1>3, <1>7, <2>1 DEF Wire!Malformed
  <2>2. CASE UNCHANGED <<calling, Wire!breaker>>
    <3>1. UNCHANGED <<calling, stop, handed>> /\ UNCHANGED Wire!breaker /\ now' = now
      BY <1>7, <2>2, Zenon DEF Wire!Malformed
    <3> QED
      BY <3>1, NobodyMoves, CountsStay
  <2> QED
    BY <1>7, <2>1, <2>2 DEF Wire!Malformed
<1>8. ASSUME NEW c \in Calls, Wire!Ends(c) PROVE HandedOut' /\ Counted'
  <2>1. CASE Wire!CutByBudget(c)
    <3>1. Wire!Raise(c, FALSE) /\ UNCHANGED <<stop, handed, now>>
      BY <1>8, <2>1, Zenon DEF Wire!Ends
    <3> QED
      BY <1>3, <3>1
  <2>2. CASE ~Wire!CutByBudget(c)
    <3>1. /\ handed' = [handed EXCEPT ![c] = Wire!Assembled(c)] /\ stop' = stop
          /\ calling' = [calling EXCEPT ![c] = "done"] /\ Wire!Succeed /\ now' = now
      BY <1>8, <2>2, Zenon DEF Wire!Ends, Wire!Settle
    <3>2. stop[c] = "length" => \A i \in Indexes : parts[c][i] = Wire!NoPart
      BY <2>2, Zenon DEF Wire!CutByBudget
    <3>3. stop[c] = "length" => Wire!Assembled(c) = <<>>
      BY <3>2, NothingAssembled
    <3> QED
      BY <3>1, <3>3, HandsOver, SucceedCounts
  <2> QED
    BY <2>1, <2>2
<1>9. ASSUME NEW c \in Calls, Wire!Drop(c) PROVE HandedOut' /\ Counted'
  <2>1. /\ calling' = [calling EXCEPT ![c] = "dropped"]
        /\ UNCHANGED <<stop, handed, failures, until, history, now>>
    BY <1>9, Zenon DEF Wire!Drop, Wire!Settle, Wire!breaker
  <2>2. "dropped" \notin Under /\ "dropped" \notin {"idle", "chat"}
    BY DEF Under
  <2>3. HandedOut'
    BY <2>1, <2>2, Moves
  <2> QED
    BY <2>1, <2>3, CountsStay DEF Wire!breaker
<1>10. ASSUME UNCHANGED <<calling, stop, handed>> /\ UNCHANGED Wire!breaker,
              now' = now \/ now' = now + 1
       PROVE  HandedOut' /\ Counted'
  BY <1>10, NobodyMoves, CountsStay
<1>11. ASSUME NEW c \in Calls, NEW i \in Indexes,
              Wire!Announce(c, i) \/ Wire!Fragment(c, i)
       PROVE  HandedOut' /\ Counted'
  <2>1. UNCHANGED <<calling, stop, handed>> /\ UNCHANGED Wire!breaker /\ now' = now
    BY <1>11, Zenon DEF Wire!Announce, Wire!Fragment
  <2> QED
    BY <1>10, <2>1
<1>12. ASSUME NEW c \in Calls, Wire!Token(c) PROVE HandedOut' /\ Counted'
  <2>1. UNCHANGED <<calling, stop, handed>> /\ UNCHANGED Wire!breaker /\ now' = now
    BY <1>12, Zenon DEF Wire!Token
  <2> QED
    BY <1>10, <2>1
<1>13. CASE Wire!Tick \/ UNCHANGED Wire!vars
  <2>1. /\ UNCHANGED <<calling, stop, handed>> /\ UNCHANGED Wire!breaker
        /\ now' = now \/ now' = now + 1
    BY <1>13, Zenon DEF Wire!Tick, Wire!vars, Wire!callVars
  <2> QED
    BY <1>10, <2>1
<1> QED
  BY <1>1, <1>2, <1>4, <1>5, <1>6, <1>7, <1>8, <1>9, <1>11, <1>12, <1>13, Zenon DEF Wire!Next

\* Whatever calls share the provider, a turn that its token budget cut off hands out no call
\* (openai_compat.py, anthropic_compat.py), and while the circuit is open the last outcomes
\* that were counted are failures, as many as open it (reliability.py).
THEOREM ProvidersAreJudgedFairly ==
    ASSUME BreakerAssumption
    PROVE  Wire!Spec => [](Wire!NoCallOutOfBudget /\ Wire!OpenHasACause)
<1>1. Wire!Init => HandedOut /\ Counted
  BY WireInit
<1>2. HandedOut /\ Counted /\ [Wire!Next]_(Wire!vars) => HandedOut' /\ Counted'
  BY WireStep
<1>3. HandedOut => Wire!NoCallOutOfBudget
  BY DEF HandedOut
<1>4. Counted => Wire!OpenHasACause
  <2> SUFFICES ASSUME Counted, Wire!Open PROVE Wire!OpenHasACause
    BY DEF Wire!OpenHasACause
  <2>1. failures >= Threshold /\ failures \in Nat /\ failures <= Len(history)
    BY DEF Counted, Wire!Open
  <2>2. Len(history) \in Nat /\ Threshold \in Int
    BY DEF Counted, BreakerAssumption
  <2>3. \A k \in (Len(history) - Threshold + 1)..Len(history) :
            k \in (Len(history) - failures + 1)..Len(history)
    BY <2>1, <2>2
  <2>4. \A k \in (Len(history) - failures + 1)..Len(history) : ~history[k]
    BY Zenon DEF Counted, EndsBadly
  <2>5. Len(history) >= Threshold
    BY <2>1, <2>2
  <2> QED
    BY <2>3, <2>4, <2>5, Zenon DEF Wire!OpenHasACause
<1> QED
  BY <1>1, <1>2, <1>3, <1>4, PTL DEF Wire!Spec

-----------------------------------------------------------------------------
(* The ledger of activity.                                                    *)

CONSTANTS Adders, MaxDeltas, MaxFetches, MaxGaps, MaxCrashes
VARIABLES row, buffer, lock, sending, ending, popped, pausing, last, linked, shown, wire,
          fetched, gaps, seen, deltas, fetches, crashes
Ledger == INSTANCE Activity WITH Writers <- Adders, asked <- pausing

\* The owner of the span adds to it, and 0 is nobody.
OwnerAssumption == 1 \in Adders /\ 0 \notin Adders

Over == Ledger!Terminal
Spans == [status : {"running"} \cup Over, text : Nat, rev : Nat \ {0}]
Unsent == Ledger!NoSpan

LedgerTypes ==
    /\ row \in Spans /\ shown \in Spans
    /\ wire \in Seq(Spans \cup {Unsent})
    /\ gaps \in Nat /\ seen \in 0..gaps
    /\ fetched \subseteq [span : Spans, since : 0..gaps]
    /\ sending \in [Adders -> Spans \cup {Unsent}]
    /\ buffer \in Nat /\ popped \in Nat /\ deltas \in Nat

\* What of the span is anywhere: a span that is over is over in every later revision.
Copies == {row, shown} \cup {s.span : s \in fetched} \cup {sending[w] : w \in Adders}
          \cup {wire[k] : k \in 1..Len(wire)}
Before(s, t) == s.rev <= t.rev /\ s.status \in Over => t.status = s.status
InOrder == \A s, t \in Copies : s.rev <= row.rev /\ Before(s, t)

\* The span is over once its owner has stored the end, which is then still to be sent; the
\* owner's additions are out by then.
EndIsStored ==
    /\ ending \in {"no", "popped"} => row.status = "running"
    /\ ending = "stored" => sending[1].status = row.status
    /\ lock = 1 => ending = "no"

\* A browser that is connected shows that the span is over, or is about to be told, or has
\* missed something since its last snapshot; a snapshot since then tells it.
IsTold ==
    \/ shown.status = row.status
    \/ \E w \in Adders : sending[w].status = row.status
    \/ \E k \in 1..Len(wire) : wire[k].status = row.status
Missed == seen < gaps /\ \A s \in fetched : s.since = gaps => s.span.status = row.status
OnItsWay == linked /\ row.status \in Over => IsTold \/ Missed

LedgerInv == LedgerTypes /\ InOrder /\ EndIsStored /\ OnItsWay

LEMMA UnsentIs == Unsent.rev = 0 /\ Unsent.status \notin Over /\ "running" \notin Over
                  /\ Over = {"completed", "interrupted"}
BY DEF Unsent, Ledger!NoSpan, Over, Ledger!Terminal

LEMMA LedgerInit == ASSUME OwnerAssumption, Ledger!Init PROVE LedgerInv
<1> DEFINE first == [status |-> "running", text |-> 1, rev |-> 1]
<1>1. row = first /\ shown = row /\ wire = <<>> /\ fetched = {} /\ gaps = 0 /\ seen = 0
      /\ ending = "no" /\ buffer = 1 /\ lock = 0 /\ popped = 0 /\ deltas = 0 /\ sending = [w \in Adders |-> Unsent]
  BY Zenon DEF Ledger!Init, Ledger!Created, Ledger!NoBuffer, Unsent
<1>2. LedgerTypes
  BY <1>1 DEF LedgerTypes, Spans
<1>3. Copies \subseteq {row, Unsent}
  BY <1>1, Len(<<>>) = 0 DEF Copies
<1>4. row.rev = 1 /\ row.status = "running"
  BY <1>1
<1>5. InOrder
  BY <1>3, <1>4, UnsentIs DEF InOrder, Before
<1> QED
  BY <1>1, <1>2, <1>4, <1>5, UnsentIs DEF LedgerInv, EndIsStored, OnItsWay, IsTold

\* A copy is a span, or the place of one.
LEMMA CopiesTyped ==
    ASSUME LedgerTypes PROVE Copies \subseteq Spans \cup {Unsent}
<1>1. \A k \in 1..Len(wire) : wire[k] \in Spans \cup {Unsent}
  BY DEF LedgerTypes
<1> QED
  BY <1>1 DEF Copies, LedgerTypes

LEMMA OnItsWayKept ==
    ASSUME OnItsWay, UNCHANGED <<linked, shown, wire, fetched, gaps, seen>>,
           row'.status = row.status, UNCHANGED sending
    PROVE  OnItsWay'
BY DEF OnItsWay, IsTold, Missed

\* What is new agrees with the row.
LEMMA OrderKept ==
    ASSUME LedgerTypes, LedgerTypes', InOrder, row.rev <= row'.rev,
           row'.status = row.status \/ (row.status = "running" /\ row.rev < row'.rev),
           \A t \in Copies' : \/ t \in Copies \/ t = Unsent
                              \/ t.rev = row'.rev /\ t.status = row'.status
    PROVE  InOrder'
<1> DEFINE New(t) == t.rev = row'.rev /\ t.status = row'.status
<1>1. \A t \in Copies \cup Copies' : t \in Spans \cup {Unsent}
  <2>1. Copies' \subseteq Spans \cup {Unsent}
    <3>1. \A k \in 1..Len(wire') : wire'[k] \in Spans \cup {Unsent}
      BY DEF LedgerTypes
    <3> QED
      BY <3>1 DEF Copies, LedgerTypes
  <2> QED
    BY <2>1, CopiesTyped
<1>2. row \in Copies /\ row \in Spans /\ row' \in Spans
  BY DEF Copies, LedgerTypes
<1>3. \A t \in Spans : t.rev \in Nat \ {0} /\ t.status \in {"running"} \cup Over
  BY DEF Spans
<1> SUFFICES ASSUME NEW s \in Copies', NEW t \in Copies' PROVE s.rev <= row'.rev /\ Before(s, t)
  BY DEF InOrder
<1>4. /\ s \in Copies => s.rev <= row.rev /\ Before(s, row)
      /\ s \in Copies /\ t \in Copies => Before(s, t)
      /\ t \in Copies => t.rev <= row.rev /\ Before(row, t) /\ Before(t, row)
  BY <1>2 DEF InOrder
<1>5. s.rev \in Nat /\ t.rev \in Nat /\ row.rev \in Nat /\ row'.rev \in Nat
  BY <1>1, <1>2, <1>3, UnsentIs
<1>6. s.rev <= row'.rev
  BY <1>4, <1>5, UnsentIs
<1>7. CASE s = Unsent
  BY <1>5, <1>6, <1>7, UnsentIs DEF Before
<1>8. CASE t = Unsent
  <2>1. s \in Spans => s.rev > 0
    BY <1>3
  <2> QED
    BY <1>1, <1>5, <1>6, <1>7, <1>8, <2>1, UnsentIs DEF Before
<1>9. CASE s \in Copies /\ t \in Copies
  BY <1>4, <1>6, <1>9
<1>10. CASE s \in Copies /\ New(t)
  BY <1>4, <1>5, <1>6, <1>10, UnsentIs DEF Before
<1>11. CASE New(s) /\ New(t)
  BY <1>6, <1>11 DEF Before
<1>12. CASE New(s) /\ t \in Copies
  BY <1>4, <1>5, <1>6, <1>12 DEF Before
<1> QED
  BY <1>7, <1>8, <1>9, <1>10, <1>11, <1>12

\* Merge keeps the newer one of the two, and of what is over neither forgets it.
LEMMA Merged ==
    ASSUME LedgerTypes, InOrder, NEW s \in Copies
    PROVE  /\ Ledger!Merge(s) \in {s, shown} /\ Ledger!Merge(s) \in Spans
           /\ (s.status \in Over /\ s.status = row.status)
                  \/ (shown.status \in Over /\ shown.status = row.status)
              => Ledger!Merge(s).status = row.status
<1>1. s \in Spans \cup {Unsent} /\ shown \in Spans /\ shown \in Copies
  BY CopiesTyped DEF Copies, LedgerTypes
<1>2. \A t \in Spans : t.rev \in Nat \ {0}
  BY DEF Spans
<1>3. shown # Unsent /\ (s = Unsent => ~(s.rev >= shown.rev))
  <2>1. shown.rev \in Nat /\ shown.rev > 0
    BY <1>1, <1>2
  <2> QED
    BY <2>1, UnsentIs
<1>4. Ledger!Merge(s) = IF s.rev >= shown.rev THEN s ELSE shown
  BY <1>3 DEF Ledger!Merge, Unsent
<1>5. Before(s, shown) /\ Before(shown, s)
  BY <1>1 DEF InOrder
<1>6. s.rev \in Nat /\ shown.rev \in Nat
  BY <1>1, <1>2, UnsentIs
<1>7. Ledger!Merge(s) \in {s, shown} /\ Ledger!Merge(s) \in Spans
  BY <1>1, <1>3, <1>4
<1> QED
  BY <1>4, <1>5, <1>6, <1>7 DEF Before

LEMMA PauseKeeps ==
    ASSUME LedgerInv, UNCHANGED <<row, lock, sending, ending, linked, shown, wire, fetched, gaps, seen>>,
           buffer' \in Nat, popped' \in Nat, deltas' \in Nat
    PROVE  LedgerInv'
<1>1. Copies' = Copies /\ LedgerTypes'
  BY DEF Copies, LedgerInv, LedgerTypes
<1> QED
  BY <1>1, OnItsWayKept DEF LedgerInv, InOrder, EndIsStored

LEMMA DeltaKeeps == ASSUME LedgerInv, NEW w \in Adders, Ledger!Delta(w) PROVE LedgerInv'
<1> DEFINE new == [row' EXCEPT !.text = deltas + 2]
<1>1. row \in Spans /\ deltas \in Nat /\ row.rev \in Nat \ {0} /\ row.status \in {"running"} \cup Over
  BY DEF LedgerInv, LedgerTypes, Spans
<1>2. row' = [status |-> row.status, text |-> deltas + 2, rev |-> row.rev + 1] \/ row' = row
  BY DEF Ledger!Delta, Ledger!Updated
<1>3. row' \in Spans /\ row'.status = row.status /\ row.rev <= row'.rev
  BY <1>1, <1>2 DEF Spans
<1>4. new \in Spans /\ new.rev = row'.rev /\ new.status = row'.status
  BY <1>1, <1>3 DEF Spans
<1>5. /\ sending' = [sending EXCEPT ![w] = new] /\ sending[w] = Unsent /\ lock' = w
      /\ (w = 1 => ending = "no")
      /\ buffer' = deltas + 2 /\ deltas' = deltas + 1
      /\ UNCHANGED <<ending, popped, linked, shown, wire, fetched, gaps, seen>>
  BY DEF Ledger!Delta, Ledger!browser, Unsent
<1> HIDE DEF new
<1>6. LedgerTypes'
  BY <1>1, <1>3, <1>4, <1>5 DEF LedgerInv, LedgerTypes
<1>7. \A t \in Copies' : t \in Copies \/ t = row' \/ t = new
  BY <1>5 DEF Copies, LedgerInv, LedgerTypes
<1>8. InOrder'
  BY <1>3, <1>4, <1>6, <1>7, OrderKept DEF LedgerInv
<1>9. OnItsWay'
  <2>1. \A v \in Adders : sending[v].status = row.status /\ row.status \in Over =>
            sending'[v].status = row.status
    BY <1>5, UnsentIs DEF LedgerInv, LedgerTypes
  <2> QED
    BY <1>3, <1>5, <2>1 DEF LedgerInv, OnItsWay, IsTold, Missed
<1>10. EndIsStored'
  <2>1. ending = "stored" => sending'[1] = sending[1]
    BY <1>5 DEF LedgerInv, LedgerTypes
  <2> QED
    BY <1>3, <1>5, <2>1 DEF LedgerInv, EndIsStored
<1> QED
  BY <1>6, <1>8, <1>9, <1>10 DEF LedgerInv

\* What is sent is on its way, to a browser that is connected.
LEMMA SentKeeps ==
    ASSUME LedgerInv, NEW w \in Adders, sending' = [sending EXCEPT ![w] = Unsent],
           \/ Ledger!Send(sending[w])
           \/ wire' = wire /\ row.status = "running",
           UNCHANGED <<row, buffer, popped, linked, shown, fetched, gaps, seen, deltas>>
    PROVE  LedgerTypes' /\ InOrder' /\ OnItsWay'
<1>1. sending[w] \in Copies /\ sending[w] \in Spans \cup {Unsent} /\ row \in Spans /\ row.rev \in Nat
  BY DEF Copies, LedgerInv, LedgerTypes, Spans
<1>2. /\ wire \in Seq(Spans \cup {Unsent}) /\ wire' \in Seq(Spans \cup {Unsent})
      /\ Len(wire) <= Len(wire') /\ Len(wire) \in Nat /\ Len(wire') \in Nat
      /\ \A k \in 1..Len(wire) : wire'[k] = wire[k]
      /\ \A k \in 1..Len(wire') : wire'[k] = sending[w] \/ (k \in 1..Len(wire) /\ wire'[k] = wire[k])
      /\ linked /\ row.status # "running" =>
             Len(wire') = Len(wire) + 1 /\ wire'[Len(wire) + 1] = sending[w]
  <2>1. wire \in Seq(Spans \cup {Unsent}) /\ Len(wire) \in Nat
    BY DEF LedgerInv, LedgerTypes
  <2>2. CASE wire' = wire /\ ~(linked /\ row.status # "running")
    BY <2>1, <2>2
  <2>3. CASE wire' = Append(wire, sending[w])
    <3>1. /\ wire' \in Seq(Spans \cup {Unsent}) /\ Len(wire') = Len(wire) + 1
          /\ wire'[Len(wire) + 1] = sending[w]
          /\ \A k \in 1..Len(wire) : wire'[k] = wire[k]
      BY <1>1, <2>1, <2>3
    <3>2. \A k \in 1..Len(wire') : k \in 1..Len(wire) \/ k = Len(wire) + 1
      BY <2>1, <3>1
    <3> QED
      BY <2>1, <3>1, <3>2
  <2> QED
    BY <2>2, <2>3 DEF Ledger!Send
<1>3. LedgerTypes'
  BY <1>2 DEF LedgerInv, LedgerTypes
<1>4. \A t \in Copies' : t \in Copies \/ t = Unsent
  BY <1>1, <1>2 DEF Copies, LedgerInv, LedgerTypes
<1>5. InOrder'
  BY <1>1, <1>3, <1>4, OrderKept DEF LedgerInv
<1>6. linked /\ row.status \in Over /\ IsTold => IsTold'
  <2> SUFFICES ASSUME linked, row.status \in Over, IsTold PROVE IsTold'
    OBVIOUS
  <2>1. CASE shown.status = row.status
    BY <2>1 DEF IsTold
  <2>2. CASE sending[w].status = row.status
    BY <1>2, <2>2, UnsentIs DEF IsTold
  <2>3. ASSUME NEW v \in Adders, v # w, sending[v].status = row.status PROVE IsTold'
    BY <2>3 DEF LedgerInv, LedgerTypes, IsTold
  <2>4. ASSUME NEW k \in 1..Len(wire), wire[k].status = row.status PROVE IsTold'
    <3>1. k \in 1..Len(wire') /\ wire'[k].status = row'.status
      BY <1>2, <2>4
    <3> QED
      BY <3>1 DEF IsTold
  <2> QED
    BY <2>1, <2>2, <2>3, <2>4 DEF IsTold
<1>7. OnItsWay'
  BY <1>6 DEF LedgerInv, OnItsWay, Missed
<1> QED
  BY <1>3, <1>5, <1>7

LEMMA DeltaSendsKeeps ==
    ASSUME OwnerAssumption, LedgerInv, NEW w \in Adders, Ledger!DeltaSends(w) PROVE LedgerInv'
<1>1. /\ lock = w /\ lock' = 0 /\ sending' = [sending EXCEPT ![w] = Unsent]
      /\ Ledger!Send(sending[w]) \/ (w = 1 /\ wire' = wire)
      /\ UNCHANGED <<row, buffer, ending, popped, linked, shown, fetched, gaps, seen, deltas>>
  BY DEF Ledger!DeltaSends, Ledger!bounds, Unsent
<1>2. w = 1 => ending = "no" /\ row.status = "running"
  BY <1>1 DEF LedgerInv, EndIsStored
<1>3. LedgerTypes' /\ InOrder' /\ OnItsWay'
  BY <1>1, <1>2, SentKeeps
<1>4. ending = "stored" => sending'[1] = sending[1]
  BY <1>1, <1>2 DEF OwnerAssumption, LedgerInv, LedgerTypes
<1>5. EndIsStored'
  BY <1>1, <1>4 DEF LedgerInv, EndIsStored
<1> QED
  BY <1>3, <1>5 DEF LedgerInv

LEMMA FinishPopsKeeps == ASSUME LedgerInv, Ledger!FinishPops PROVE LedgerInv'
<1>1. /\ ending = "no" /\ ending' = "popped" /\ lock = 0 /\ buffer' = 0 /\ popped' = buffer
      /\ UNCHANGED <<row, lock, sending, linked, shown, wire, fetched, gaps, seen, deltas>>
  BY DEF Ledger!FinishPops, Ledger!browser, Ledger!bounds, Ledger!NoBuffer
<1>2. Copies' = Copies /\ LedgerTypes'
  BY <1>1 DEF Copies, LedgerInv, LedgerTypes
<1>3. InOrder' /\ OnItsWay'
  BY <1>1, <1>2, OnItsWayKept DEF LedgerInv, InOrder
<1>4. EndIsStored'
  BY <1>1 DEF LedgerInv, EndIsStored
<1> QED
  BY <1>2, <1>3, <1>4 DEF LedgerInv

LEMMA FinishStoresKeeps ==
    ASSUME OwnerAssumption, LedgerInv, Ledger!FinishStores PROVE LedgerInv'
<1>1. row \in Spans /\ row.rev \in Nat \ {0} /\ row.status = "running"
  BY DEF LedgerInv, LedgerTypes, Spans, EndIsStored, Ledger!FinishStores
<1>2. PICK words \in {99} \cup ({popped} \ {0}) :
          row' = [status |-> "completed", text |-> words, rev |-> row.rev + 1]
  BY DEF Ledger!FinishStores, Ledger!Updated, Ledger!NoBuffer
<1>3. words \in Nat
  BY <1>2 DEF LedgerInv, LedgerTypes
<1>4. row' \in Spans /\ row'.status = "completed" /\ row.rev < row'.rev /\ row.rev <= row'.rev
  BY <1>1, <1>2, <1>3, UnsentIs DEF Spans
<1>5. /\ sending' = [sending EXCEPT ![1] = row'] /\ ending = "popped" /\ ending' = "stored"
      /\ UNCHANGED <<buffer, lock, popped, linked, shown, wire, fetched, gaps, seen, deltas>>
  BY DEF Ledger!FinishStores, Ledger!browser, Ledger!bounds
<1>6. LedgerTypes'
  BY <1>4, <1>5 DEF LedgerInv, LedgerTypes
<1>7. \A t \in Copies' : t \in Copies \/ t = row'
  BY <1>5 DEF Copies, LedgerInv, LedgerTypes
<1>8. InOrder'
  BY <1>1, <1>4, <1>6, <1>7, OrderKept DEF LedgerInv
<1>9. sending'[1] = row'
  BY <1>5 DEF OwnerAssumption, LedgerInv, LedgerTypes
<1>10. OnItsWay'
  BY <1>9 DEF OwnerAssumption, OnItsWay, IsTold
<1>11. EndIsStored'
  BY <1>5, <1>9 DEF LedgerInv, EndIsStored
<1> QED
  BY <1>6, <1>8, <1>10, <1>11 DEF LedgerInv

LEMMA FinishSendsKeeps ==
    ASSUME OwnerAssumption, LedgerInv, Ledger!FinishSends PROVE LedgerInv'
<1>1. /\ ending = "stored" /\ ending' = "done" /\ sending' = [sending EXCEPT ![1] = Unsent]
      /\ Ledger!Send(sending[1])
      /\ UNCHANGED <<row, lock, buffer, popped, linked, shown, fetched, gaps, seen, deltas>>
  BY DEF Ledger!FinishSends, Ledger!bounds, Unsent
<1>2. LedgerTypes' /\ InOrder' /\ OnItsWay'
  BY <1>1, SentKeeps DEF OwnerAssumption
<1>3. EndIsStored'
  BY <1>1 DEF LedgerInv, EndIsStored
<1> QED
  BY <1>2, <1>3 DEF LedgerInv

LEMMA FetchKeeps == ASSUME LedgerInv, Ledger!Fetch PROVE LedgerInv'
<1> DEFINE answer == [span |-> row, since |-> gaps]
<1>1. fetched' = fetched \cup {answer} /\ answer.span = row
      /\ answer \in [span : Spans, since : 0..gaps]
  BY DEF Ledger!Fetch, Ledger!Listed, LedgerInv, LedgerTypes
<1>2. UNCHANGED <<row, buffer, lock, sending, ending, popped, linked, shown, wire, gaps, seen, deltas>>
  BY DEF Ledger!Fetch, Ledger!span
<1> HIDE DEF answer
<1>3. LedgerTypes'
  BY <1>1, <1>2 DEF LedgerInv, LedgerTypes
<1>4. \A t \in Copies' : t \in Copies
  BY <1>1, <1>2 DEF Copies
<1>5. InOrder'
  BY <1>2, <1>4 DEF LedgerInv, InOrder
<1>6. OnItsWay' /\ EndIsStored'
  BY <1>1, <1>2 DEF LedgerInv, OnItsWay, IsTold, Missed, EndIsStored
<1> QED
  BY <1>3, <1>5, <1>6 DEF LedgerInv

LEMMA ApplyKeeps == ASSUME LedgerInv, Ledger!Apply PROVE LedgerInv'
<1>1. PICK s \in fetched : /\ shown' = Ledger!Merge(s.span) /\ fetched' = fetched \ {s}
                           /\ seen' = IF s.since > seen THEN s.since ELSE seen
  BY DEF Ledger!Apply
<1>2. UNCHANGED <<row, buffer, lock, sending, ending, popped, linked, wire, gaps, deltas>>
  BY DEF Ledger!Apply, Ledger!span, Ledger!bounds
<1>3. s.span \in Copies /\ row.rev \in Nat /\ s.since \in 0..gaps /\ gaps \in Nat /\ seen \in 0..gaps
  BY DEF Copies, LedgerInv, LedgerTypes, Spans
<1>4. shown' \in {s.span, shown} /\ shown' \in Spans
  BY <1>1, <1>3, Merged DEF LedgerInv
<1>5. LedgerTypes'
  BY <1>1, <1>2, <1>3, <1>4 DEF LedgerInv, LedgerTypes
<1>6. \A t \in Copies' : t \in Copies
  BY <1>1, <1>2, <1>3, <1>4 DEF Copies
<1>7. InOrder'
  BY <1>2, <1>6 DEF LedgerInv, InOrder
<1>8. OnItsWay'
  <2> SUFFICES ASSUME linked, row.status \in Over PROVE IsTold' \/ Missed'
    BY <1>2 DEF OnItsWay
  <2>1. CASE shown.status = row.status \/ s.span.status = row.status
    BY <1>1, <1>2, <1>3, <2>1, Merged DEF LedgerInv, IsTold
  <2>2. CASE IsTold /\ shown.status # row.status
    BY <1>2, <2>2 DEF IsTold
  <2>3. CASE Missed /\ s.span.status # row.status
    <3>1. s.since < gaps /\ seen < gaps
      BY <1>3, <2>3 DEF Missed
    <3>2. seen' < gaps
      BY <1>1, <3>1
    <3> QED
      BY <1>1, <1>2, <2>3, <3>2 DEF Missed
  <2> QED
    BY <2>1, <2>2, <2>3 DEF LedgerInv, OnItsWay
<1>9. EndIsStored'
  BY <1>2 DEF LedgerInv, EndIsStored
<1> QED
  BY <1>5, <1>7, <1>8, <1>9 DEF LedgerInv

LEMMA UnansweredKeeps == ASSUME LedgerInv, Ledger!Unanswered PROVE LedgerInv'
<1>1. fetched' \subseteq fetched
  BY DEF Ledger!Unanswered
<1>2. UNCHANGED <<row, buffer, lock, sending, ending, popped, linked, shown, wire, gaps, seen, deltas>>
  BY DEF Ledger!Unanswered, Ledger!span, Ledger!bounds
<1>3. LedgerTypes' /\ InOrder'
  <2>1. LedgerTypes'
    BY <1>1, <1>2 DEF LedgerInv, LedgerTypes
  <2>2. \A t \in Copies' : t \in Copies
    BY <1>1, <1>2 DEF Copies
  <2> QED
    BY <1>2, <2>1, <2>2 DEF LedgerInv, InOrder
<1>4. OnItsWay' /\ EndIsStored'
  BY <1>1, <1>2 DEF LedgerInv, OnItsWay, IsTold, Missed, EndIsStored
<1> QED
  BY <1>3, <1>4 DEF LedgerInv

\* The oldest event is taken by the page, which shows it unless it has something newer.
LEMMA HearKeeps == ASSUME LedgerInv, Ledger!Hear PROVE LedgerInv'
<1>1. /\ wire # <<>> /\ shown' = Ledger!Merge(wire[1]) /\ wire' = Tail(wire)
      /\ UNCHANGED <<row, buffer, lock, sending, ending, popped, linked, fetched, gaps, seen, deltas>>
  BY DEF Ledger!Hear, Ledger!span, Ledger!bounds
<1>2. /\ wire' \in Seq(Spans \cup {Unsent}) /\ Len(wire) \in Nat /\ 1 \in 1..Len(wire)
      /\ Len(wire') = Len(wire) - 1
      /\ \A k \in 1..Len(wire') : wire'[k] = wire[k + 1] /\ k + 1 \in 1..Len(wire)
  BY <1>1 DEF LedgerInv, LedgerTypes
<1>3. wire[1] \in Copies /\ row.rev \in Nat
  BY <1>2 DEF Copies, LedgerInv, LedgerTypes, Spans
<1>4. shown' \in {wire[1], shown} /\ shown' \in Spans
  BY <1>1, <1>3, Merged DEF LedgerInv
<1>5. LedgerTypes'
  BY <1>1, <1>2, <1>4 DEF LedgerInv, LedgerTypes
<1>6. \A t \in Copies' : t \in Copies
  BY <1>1, <1>2, <1>3, <1>4 DEF Copies
<1>7. InOrder'
  BY <1>1, <1>6 DEF LedgerInv, InOrder
<1>8. row.status \in Over /\ IsTold => IsTold'
  <2> SUFFICES ASSUME row.status \in Over, IsTold PROVE IsTold'
    OBVIOUS
  <2>1. CASE shown.status = row.status \/ wire[1].status = row.status
    BY <1>1, <1>3, <2>1, Merged DEF LedgerInv, IsTold
  <2>2. CASE \E w \in Adders : sending[w].status = row.status
    BY <1>1, <2>2 DEF IsTold
  <2>3. ASSUME NEW k \in 1..Len(wire), k # 1, wire[k].status = row.status PROVE IsTold'
    <3>1. k - 1 \in 1..Len(wire') /\ wire'[k - 1] = wire[(k - 1) + 1] /\ (k - 1) + 1 = k
      BY <1>2, <2>3
    <3> QED
      BY <1>1, <2>3, <3>1 DEF IsTold
  <2> QED
    BY <2>1, <2>2, <2>3 DEF IsTold
<1>9. OnItsWay' /\ EndIsStored'
  BY <1>1, <1>8 DEF LedgerInv, OnItsWay, Missed, EndIsStored
<1> QED
  BY <1>5, <1>7, <1>9 DEF LedgerInv

\* A gap makes every snapshot of before it one too few.
LEMMA GapKeeps ==
    ASSUME LedgerInv, gaps' = gaps + 1,
           wire' \in Seq(Spans \cup {Unsent}),
           \A k \in 1..Len(wire') : \E n \in 1..Len(wire) : wire'[k] = wire[n],
           \A s \in fetched' : s \in fetched \/ s = [span |-> row, since |-> gaps + 1],
           UNCHANGED <<row, buffer, lock, sending, ending, popped, shown, seen, deltas>>
    PROVE  LedgerInv'
<1>1. row \in Spans /\ gaps \in Nat /\ seen \in 0..gaps /\ \A s \in fetched : s.since \in 0..gaps
  BY DEF LedgerInv, LedgerTypes
<1>2. \A s \in fetched' : s \in [span : Spans, since : 0..(gaps + 1)]
                          /\ (s.since = gaps + 1 => s.span = row)
  <2> TAKE s \in fetched'
  <2>1. CASE s \in fetched
    BY <1>1, <2>1 DEF LedgerInv, LedgerTypes
  <2>2. CASE s = [span |-> row, since |-> gaps + 1]
    BY <1>1, <2>2
  <2> QED
    BY <2>1, <2>2
<1>3. LedgerTypes'
  BY <1>1, <1>2 DEF LedgerInv, LedgerTypes
<1>4. \A t \in Copies' : t \in Copies
  <2>1. \A s \in fetched' : s.span \in Copies
    BY DEF Copies
  <2> QED
    BY <2>1 DEF Copies
<1>5. InOrder'
  BY <1>4 DEF LedgerInv, InOrder
<1>6. Missed'
  BY <1>1, <1>2 DEF Missed
<1>7. OnItsWay' /\ EndIsStored'
  BY <1>6 DEF OnItsWay, LedgerInv, EndIsStored
<1> QED
  BY <1>3, <1>5, <1>7 DEF LedgerInv

\* The places of one sequence after another.
LEMMA PlacesJoined ==
    ASSUME NEW S, NEW a \in Seq(S), NEW b \in Seq(S)
    PROVE  /\ a \o b \in Seq(S) /\ Len(a \o b) = Len(a) + Len(b)
           /\ \A k \in 1..Len(a \o b) : (a \o b)[k] = IF k <= Len(a) THEN a[k] ELSE b[k - Len(a)]
  OBVIOUS

LEMMA EvictKeeps == ASSUME LedgerInv, Ledger!Evict PROVE LedgerInv'
<1>0. DOMAIN wire = 1..Len(wire)
  BY DEF LedgerInv, LedgerTypes
<1>1. PICK n \in 1..Len(wire) : wire' = SubSeq(wire, 1, n - 1) \o SubSeq(wire, n + 1, Len(wire))
  BY <1>0, Zenon DEF Ledger!Evict, Ledger!RemoveAt
<1>2. wire \in Seq(Spans \cup {Unsent}) /\ Len(wire) \in Nat /\ n \in Nat
  BY DEF LedgerInv, LedgerTypes
<1> DEFINE left == SubSeq(wire, 1, n - 1)
           right == SubSeq(wire, n + 1, Len(wire))
<1>3. /\ left \in Seq(Spans \cup {Unsent}) /\ Len(left) = n - 1
      /\ \A k \in 1..(n - 1) : left[k] = wire[k] /\ k \in 1..Len(wire)
  BY <1>2
<1>4. /\ right \in Seq(Spans \cup {Unsent}) /\ Len(right) = Len(wire) - n
      /\ \A k \in 1..(Len(wire) - n) : right[k] = wire[k + n] /\ k + n \in 1..Len(wire)
  BY <1>2
<1>5. wire' = left \o right
  BY <1>1
<1> HIDE DEF left, right
<1>6. wire' \in Seq(Spans \cup {Unsent}) /\ Len(wire') = Len(wire) - 1
      /\ \A k \in 1..Len(wire') : wire'[k] = IF k <= n - 1 THEN left[k] ELSE right[k - (n - 1)]
  <2>1. /\ left \o right \in Seq(Spans \cup {Unsent}) /\ Len(left \o right) = (n - 1) + (Len(wire) - n)
        /\ \A k \in 1..Len(left \o right) :
              (left \o right)[k] = IF k <= n - 1 THEN left[k] ELSE right[k - (n - 1)]
    <3>1. left \in Seq(Spans \cup {Unsent}) /\ right \in Seq(Spans \cup {Unsent})
      BY <1>3, <1>4
    <3>2. /\ left \o right \in Seq(Spans \cup {Unsent}) /\ Len(left \o right) = Len(left) + Len(right)
          /\ \A k \in 1..Len(left \o right) :
                (left \o right)[k] = IF k <= Len(left) THEN left[k] ELSE right[k - Len(left)]
      BY <3>1, PlacesJoined
    <3>3. Len(left) = n - 1 /\ Len(right) = Len(wire) - n
      BY <1>3, <1>4
    <3> HIDE DEF left, right
    <3> QED
      BY <3>2, <3>3, Zenon
  <2>2. (n - 1) + (Len(wire) - n) = Len(wire) - 1
    BY <1>2
  <2> QED
    BY <2>1, <2>2, <1>5
<1>7. ASSUME NEW k \in 1..Len(wire') PROVE \E m \in 1..Len(wire) : wire'[k] = wire[m]
  <2>1. CASE k <= n - 1
    BY <1>2, <1>3, <1>6, <2>1
  <2>2. CASE ~(k <= n - 1)
    <3>1. k - (n - 1) \in 1..(Len(wire) - n) /\ wire'[k] = right[k - (n - 1)]
      BY <1>2, <1>6, <2>2
    <3> QED
      BY <1>4, <3>1
  <2> QED
    BY <2>1, <2>2
<1>8. /\ gaps' = gaps + 1
      /\ UNCHANGED <<row, buffer, lock, sending, ending, popped, shown, fetched, seen, deltas>>
  BY DEF Ledger!Evict, Ledger!span, Ledger!bounds
<1> QED
  BY <1>6, <1>7, <1>8, GapKeeps

LEMMA ConnectKeeps == ASSUME LedgerInv, Ledger!Connect PROVE LedgerInv'
<1>1. /\ gaps' = gaps + 1 /\ fetched' = fetched \cup {[span |-> row, since |-> gaps + 1]}
      /\ UNCHANGED <<row, buffer, lock, sending, ending, popped, shown, wire, seen, deltas>>
  BY DEF Ledger!Connect, Ledger!span, Ledger!bounds
<1>2. /\ wire' \in Seq(Spans \cup {Unsent})
      /\ \A k \in 1..Len(wire') : \E n \in 1..Len(wire) : wire'[k] = wire[n]
      /\ \A s \in fetched' : s \in fetched \/ s = [span |-> row, since |-> gaps + 1]
  BY <1>1 DEF LedgerInv, LedgerTypes
<1> QED
  BY <1>1, <1>2, GapKeeps

LEMMA DisconnectKeeps == ASSUME LedgerInv, Ledger!Disconnect PROVE LedgerInv'
<1>1. /\ ~linked' /\ wire' = <<>>
      /\ UNCHANGED <<row, buffer, lock, sending, ending, popped, shown, fetched, gaps, seen, deltas>>
  BY DEF Ledger!Disconnect, Ledger!Unlink, Ledger!span, Ledger!bounds
<1>2. LedgerTypes'
  BY <1>1 DEF LedgerInv, LedgerTypes
<1>3. \A t \in Copies' : t \in Copies
  BY <1>1 DEF Copies
<1>4. InOrder'
  BY <1>1, <1>3 DEF LedgerInv, InOrder
<1>5. OnItsWay' /\ EndIsStored'
  BY <1>1 DEF OnItsWay, LedgerInv, EndIsStored
<1> QED
  BY <1>2, <1>4, <1>5 DEF LedgerInv

LEMMA RestartKeeps == ASSUME OwnerAssumption, LedgerInv, Ledger!Crash PROVE LedgerInv'
<1>1. row \in Spans /\ row.rev \in Nat \ {0} /\ row.status \in {"running"} \cup Over
  BY DEF LedgerInv, LedgerTypes, Spans
<1>2. row' = IF row.status = "running"
             THEN [row EXCEPT !.status = "interrupted", !.rev = row.rev + 1] ELSE row
  BY DEF Ledger!Crash, Ledger!Active
<1>3. /\ row' \in Spans /\ row.rev <= row'.rev /\ row'.status # "running"
      /\ row'.status = row.status \/ (row.status = "running" /\ row.rev < row'.rev)
  <2>1. CASE row.status = "running"
    <3>1. row' = [status |-> "interrupted", text |-> row.text, rev |-> row.rev + 1]
      BY <1>1, <1>2, <2>1 DEF Spans
    <3>2. row.text \in Nat /\ row.rev + 1 \in Nat \ {0} /\ row.rev <= row.rev + 1
          /\ row.rev < row.rev + 1
      BY <1>1 DEF Spans
    <3> QED
      BY <2>1, <3>1, <3>2, UnsentIs DEF Spans
  <2>2. CASE row.status # "running"
    BY <1>1, <1>2, <2>2
  <2> QED
    BY <2>1, <2>2
<1>4. /\ sending' = [w \in Adders |-> Unsent] /\ buffer' = 0 /\ lock' = 0 /\ ending' = "done"
      /\ ~linked' /\ wire' = <<>> /\ UNCHANGED <<popped, shown, fetched, gaps, seen, deltas>>
  BY DEF Ledger!Crash, Ledger!Unlink, Ledger!NoBuffer, Unsent
<1>5. LedgerTypes'
  BY <1>3, <1>4 DEF LedgerInv, LedgerTypes
<1>6. \A t \in Copies' : t \in Copies \/ t = Unsent \/ t = row'
  BY <1>4 DEF Copies
<1>7. InOrder'
  BY <1>3, <1>5, <1>6, OrderKept DEF LedgerInv
<1>8. OnItsWay' /\ EndIsStored'
  BY <1>4 DEF OnItsWay, EndIsStored
<1> QED
  BY <1>5, <1>7, <1>8 DEF LedgerInv

LEMMA LedgerStep ==
    ASSUME OwnerAssumption, LedgerInv, [Ledger!Next]_(Ledger!vars) PROVE LedgerInv'
<1>1. CASE Ledger!Pause \/ UNCHANGED Ledger!vars
  <2>1. UNCHANGED <<row, buffer, lock, sending, ending, popped, linked, shown, wire, fetched,
                    gaps, seen, deltas>>
    BY <1>1 DEF Ledger!Pause, Ledger!vars, Ledger!span, Ledger!browser, Ledger!bounds
  <2> QED
    BY <2>1, PauseKeeps DEF LedgerInv, LedgerTypes
<1> QED
  BY <1>1, DeltaKeeps, DeltaSendsKeeps, FinishPopsKeeps, FinishStoresKeeps, FinishSendsKeeps,
     HearKeeps, EvictKeeps, FetchKeeps, ApplyKeeps, UnansweredKeeps, DisconnectKeeps,
     RestartKeeps, ConnectKeeps DEF Ledger!Next

\* In whatever order the additions, the end, the snapshots the browser asked for and a restart
\* reach it, and whichever events it missed, a connected browser that has had a snapshot since
\* then and to which no event is on its way shows the state the ledger has: no span it shows
\* as running is over (merge of activity.ts over the revisions of control/store.py).
THEOREM TheBrowserCatchesUp ==
    ASSUME OwnerAssumption PROVE Ledger!Spec => []Ledger!StatusAgrees
<1>1. Ledger!Init => LedgerInv
  BY LedgerInit
<1>2. LedgerInv /\ [Ledger!Next]_(Ledger!vars) => LedgerInv'
  BY LedgerStep
<1>3. LedgerInv => Ledger!StatusAgrees
  <2> SUFFICES ASSUME LedgerInv, linked, seen = gaps, wire = <<>>,
                      \A w \in Adders : sending[w] = Unsent
               PROVE  shown.status = row.status
    BY DEF Ledger!StatusAgrees, Ledger!Silent, Unsent
  <2>1. /\ row.status \in {"running"} \cup Over /\ shown.status \in {"running"} \cup Over
        /\ shown.rev <= row.rev /\ Before(shown, row)
    BY DEF LedgerInv, LedgerTypes, Spans, InOrder, Copies
  <2>2. CASE row.status = "running"
    BY <2>1, <2>2, UnsentIs DEF Before
  <2>3. CASE row.status \in Over
    <3>1. ~Missed /\ Len(wire) = 0
      BY DEF Missed, LedgerInv, LedgerTypes
    <3> QED
      BY <2>3, <3>1, UnsentIs DEF LedgerInv, OnItsWay, IsTold
  <2> QED
    BY <2>1, <2>2, <2>3
<1> QED
  BY <1>1, <1>2, <1>3, PTL DEF Ledger!Spec

-----------------------------------------------------------------------------
(* The night and the soul.                                                    *)

CONSTANTS Manuals, Steers, Apart, MaxDays, MaxEntries, MaxMishaps
VARIABLES day, night, timer, runLock, stopping, diary, logs, soul, bak, archive, ident, madeFrom,
          dreaming, work, paid, done, past
Night == INSTANCE Dreams WITH
    MaxFaults <- MaxMishaps, lock <- runLock, from <- madeFrom, pc <- dreaming

\* The timer, the requests for a dream and the steers are different actors.
ActorAssumption ==
    MaxDays \in Nat \ {0} /\ 0 \notin Manuals /\ 0 \notin Steers /\ Manuals \cap Steers = {}

Days == Night!Days
Actors == Night!Actors
Places == {"idle", "locks", "reads", "pays", "logs", "refuses", "copies", "archives", "saves",
           "sources", "writes", "latches", "returns", "done"}
Drafts == {"none", "good", "same", "empty", "bad"}
Timers == [last : Nat, failDay : Nat, failures : Nat, waits : BOOLEAN]
Works == [day : Nat, seen : Int, ident : Nat, prev : Nat, draft : Drafts, copy : Nat]
Mishaps == [half : BOOLEAN, spoiled : SUBSET Nat, faults : Nat]

NightTypes ==
    /\ day \in Days /\ timer \in Timers
    /\ diary \in [Days -> Int] /\ logs \in [Days -> Int]
    /\ soul \in Nat /\ bak \in Nat /\ archive \subseteq Nat
    /\ ident \in Nat /\ madeFrom \in Seq(Nat)
    /\ dreaming \in [Actors -> Places] /\ work \in [Actors -> Works]
    /\ paid \in [Days -> Nat] /\ done \in [Days -> Nat] /\ past \in Mishaps

\* Who reads the diary has a day to read of.
Dated ==
    /\ \A a \in Actors : dreaming[a] = "reads" => work[a].day \in Days
    /\ dreaming[0] = "locks" => work[0].day \in Days

LEMMA DaysAre == ASSUME ActorAssumption
                 PROVE  Days = 1..MaxDays /\ MaxDays \in Nat /\ 1 \in Days /\ Days \subseteq Nat
BY DEF Days, Night!Days, ActorAssumption

LEMMA NothingInHand == Night!NoWork \in Works /\ Night!NoTimer \in Timers
<1>1. Night!NoWork \in Works
  BY DEF Night!NoWork, Works, Drafts
<1>2. Night!NoTimer \in Timers
  BY DEF Night!NoTimer, Timers
<1> QED
  BY <1>1, <1>2

LEMMA NightTypesInit == ASSUME ActorAssumption, Night!Init PROVE NightTypes
<1>1. day = 1 /\ timer = Night!NoTimer /\ diary = [d \in Days |-> 0] /\ logs = [d \in Days |-> -1]
  BY DEF Night!Init, Days
<1>2. soul \in {0, 2} /\ bak = 0 /\ archive = {} /\ ident = 0
      /\ madeFrom = IF soul = 0 THEN <<0>> ELSE <<0, 0>>
  BY DEF Night!Init
<1>3. dreaming = [a \in Actors |-> "idle"] /\ work = [a \in Actors |-> Night!NoWork]
  BY Zenon DEF Night!Init, Actors
<1>4. /\ paid = [d \in Days |-> 0] /\ done = [d \in Days |-> 0]
      /\ past = [half |-> FALSE, spoiled |-> {}, faults |-> 0]
  BY DEF Night!Init, Days
<1>5. past \in Mishaps
  BY <1>4 DEF Mishaps
<1>6. "idle" \in Places
  BY DEF Places
<1>7. dreaming \in [Actors -> Places] /\ work \in [Actors -> Works]
  BY <1>3, <1>6, NothingInHand
<1> QED
  BY <1>1, <1>2, <1>4, <1>5, <1>7, DaysAre, NothingInHand DEF NightTypes

LEMMA Goes == ASSUME NightTypes, NEW a, NEW p \in Places, Night!Goto(a, p)
              PROVE  dreaming' \in [Actors -> Places]
BY DEF NightTypes, Night!Goto

LEMMA EndsTyped == ASSUME NightTypes, NEW a, Night!Ends(a)
                   PROVE  dreaming' \in [Actors -> Places] /\ work' \in [Actors -> Works]
<1>1. dreaming' \in [Actors -> Places]
  <2>1. (IF a = 0 THEN "idle" ELSE "done") \in Places
    BY DEF Places
  <2> QED
    BY <2>1, Goes DEF Night!Ends
<1> QED
  BY <1>1, NothingInHand DEF NightTypes, Night!Ends

LEMMA FailsTyped == ASSUME NightTypes, NEW a, Night!Failed(a)
                    PROVE  /\ dreaming' \in [Actors -> Places] /\ work' \in [Actors -> Works]
                           /\ timer' \in Timers
<1>1. Night!Ends(a) /\ timer' = IF a = 0 THEN [timer EXCEPT !.failures = timer.failures + 1,
                                                            !.waits = TRUE] ELSE timer
  BY DEF Night!Failed
<1>2. timer \in Timers
  BY DEF NightTypes
<1>3. timer.failures + 1 \in Nat
  BY <1>2 DEF Timers
<1>4. timer' \in Timers
  BY <1>1, <1>2, <1>3 DEF Timers
<1> QED
  BY <1>1, <1>4, EndsTyped

LEMMA ReturnsTyped == ASSUME NightTypes, NEW a, Night!Returns(a)
                      PROVE  dreaming' \in [Actors -> Places] /\ work' \in [Actors -> Works]
<1>1. CASE a = 0
  BY <1>1, Goes DEF Night!Returns, Places, NightTypes
<1>2. CASE a # 0
  BY <1>2, EndsTyped DEF Night!Returns
<1> QED
  BY <1>1, <1>2

LEMMA BestSoul == ASSUME NightTypes PROVE Night!LoadedSoul \in Nat /\ Night!LoadedSoul # 0
BY DEF NightTypes, Night!LoadedSoul, Night!Seed

LEMMA ClockTypes ==
    ASSUME ActorAssumption, NightTypes,
           Night!Midnight \/ Night!Window \/ Night!AppendDiary \/ Night!RetryIsDue
    PROVE  NightTypes'
<1>1. CASE Night!Midnight
  BY <1>1, DaysAre DEF Night!Midnight, NightTypes, Night!files, Night!history
<1>2. CASE Night!Window
  BY <1>2 DEF Night!Window, NightTypes, Night!files, Night!history
<1>3. CASE Night!AppendDiary
  BY <1>3 DEF Night!AppendDiary, NightTypes, Night!clock, Night!history
<1>4. CASE Night!RetryIsDue
  <2>1. timer' \in Timers
    BY <1>4 DEF Night!RetryIsDue, NightTypes, Timers
  <2> QED
    BY <1>4, <2>1 DEF Night!RetryIsDue, NightTypes, Night!clock, Night!files, Night!history
<1> QED
  BY <1>1, <1>2, <1>3, <1>4

LEMMA TickTypes ==
    ASSUME ActorAssumption, NightTypes, Night!Tick
    PROVE  NightTypes'
<1> DEFINE fresh == IF timer.failDay = day THEN timer
                    ELSE [timer EXCEPT !.failDay = day, !.failures = 0, !.waits = FALSE]
<1>1. day \in Nat /\ timer \in Timers /\ dreaming \in [Actors -> Places]
      /\ work \in [Actors -> Works]
  BY DaysAre DEF NightTypes
<1>2. fresh \in Timers
  BY <1>1 DEF Timers
<1>3. timer' = fresh /\ UNCHANGED <<Night!clock, runLock, stopping, Night!files, Night!history, past>>
  BY DEF Night!Tick
<1>4. dreaming' \in [Actors -> Places] /\ work' \in [Actors -> Works]
  <2>1. \/ UNCHANGED <<dreaming, work>>
        \/ /\ Night!Goto(0, "locks") /\ Night!Compacts(day) > 0
           /\ work' = [work EXCEPT ![0] = [Night!NoWork EXCEPT !.day = Night!Compacts(day)]]
    BY DEF Night!Tick
  <2>2. [Night!NoWork EXCEPT !.day = Night!Compacts(day)] \in Works \/ ~(Night!Compacts(day) > 0)
    BY <1>1, NothingInHand DEF Night!Compacts, Works
  <2> QED
    BY <1>1, <2>1, <2>2, Goes DEF Places
<1> QED
  BY <1>2, <1>3, <1>4 DEF NightTypes, Night!clock, Night!files, Night!history

LEMMA LockTypes ==
    ASSUME ActorAssumption, NightTypes, NEW a \in Actors, Night!Ask(a) \/ Night!Lock(a)
    PROVE  NightTypes'
<1>0. day \in Nat /\ work[a] \in Works /\ work \in [Actors -> Works]
  BY DaysAre DEF NightTypes
<1>1. CASE Night!Ask(a)
  BY <1>1, Goes DEF Night!Ask, NightTypes, Places, Night!clock, Night!files, Night!history
<1>2. ASSUME Night!Lock(a) PROVE dreaming' \in [Actors -> Places] /\ work' \in [Actors -> Works]
  <2>1. CASE Night!Ends(a)
    BY <2>1, EndsTyped
  <2>2. CASE Night!Goto(a, "reads") /\ work' = [work EXCEPT ![a].day = Night!DayOf(a)]
    <3>1. Night!DayOf(a) \in Nat
      BY <1>0 DEF Night!DayOf, Works
    <3>2. [work[a] EXCEPT !.day = Night!DayOf(a)] \in Works
      BY <1>0, <3>1 DEF Works
    <3> QED
      BY <1>0, <2>2, <3>2, Goes DEF Places
  <2> QED
    BY <1>2, <2>1, <2>2 DEF Night!Lock
<1>3. CASE Night!Lock(a)
  BY <1>2, <1>3 DEF Night!Lock, NightTypes, Night!clock, Night!files, Night!history
<1> QED
  BY <1>1, <1>3

LEMMA ReadTypes ==
    ASSUME ActorAssumption, NightTypes, Dated, NEW a \in Actors, Night!Read(a)
    PROVE  NightTypes'
<1>1. dreaming' \in [Actors -> Places] /\ work' \in [Actors -> Works]
  <2>1. CASE Night!Returns(a)
    BY <2>1, ReturnsTyped
  <2>2. CASE /\ Night!Goto(a, "pays")
             /\ work' = [work EXCEPT ![a].seen = diary[work[a].day], ![a].ident = ident,
                                     ![a].prev = Night!LoadedSoul]
    <3>1. diary[work[a].day] \in Int /\ ident \in Nat /\ Night!LoadedSoul \in Nat
      BY BestSoul DEF Night!Read, Night!At, Dated, NightTypes
    <3>2. [work[a] EXCEPT !.seen = diary[work[a].day], !.ident = ident,
                          !.prev = Night!LoadedSoul] \in Works
      BY <3>1 DEF NightTypes, Works
    <3>3. work' = [work EXCEPT ![a] = [work[a] EXCEPT !.seen = diary[work[a].day],
                                                      !.ident = ident, !.prev = Night!LoadedSoul]]
      BY <2>2 DEF NightTypes
    <3> QED
      BY <2>2, <3>2, <3>3, Goes DEF Places, NightTypes
  <2> QED
    BY <2>1, <2>2 DEF Night!Read
<1> QED
  BY <1>1 DEF Night!Read, NightTypes, Night!clock, Night!files, Night!history

\* A call that is paid for.
LEMMA PaidTypes ==
    ASSUME NightTypes, NEW d
    PROVE  /\ [paid EXCEPT ![d] = @ + 1] \in [Days -> Nat]
           /\ [done EXCEPT ![d] = @ + 1] \in [Days -> Nat]
<1>1. ASSUME NEW f \in [Days -> Nat] PROVE [f EXCEPT ![d] = f[d] + 1] \in [Days -> Nat]
  <2>1. \A e \in Days : f[e] \in Nat /\ f[e] + 1 \in Nat
    BY <1>1
  <2>2. [f EXCEPT ![d] = f[d] + 1] = [e \in Days |-> IF e = d THEN f[e] + 1 ELSE f[e]]
    BY <1>1
  <2> QED
    BY <2>1, <2>2
<1> QED
  BY <1>1 DEF NightTypes

LEMMA PayTypes ==
    ASSUME ActorAssumption, NightTypes, NEW a \in Actors, Night!Pay(a) \/ Night!CallFails(a)
    PROVE  NightTypes'
<1>1. paid' \in [Days -> Nat]
  BY PaidTypes DEF Night!Pay, Night!CallFails
<1>2. CASE Night!Pay(a)
  <2>1. CASE Night!Ends(a)
    BY <1>1, <1>2, <2>1, EndsTyped DEF Night!Pay, NightTypes, Night!clock, Night!files
  <2>2. CASE Night!Goto(a, "logs")
             /\ \E draft \in {"good", "same", "empty", "bad"} :
                    work' = [work EXCEPT ![a].draft = draft]
    <3>1. work' \in [Actors -> Works]
      <4>1. PICK draft \in Drafts : work' = [work EXCEPT ![a].draft = draft]
        BY <2>2 DEF Drafts
      <4>2. [work[a] EXCEPT !.draft = draft] \in Works
        BY DEF NightTypes, Works
      <4> QED
        BY <4>1, <4>2 DEF NightTypes
    <3>2. dreaming' \in [Actors -> Places]
      BY <2>2, Goes DEF Places
    <3> QED
      BY <1>1, <1>2, <3>1, <3>2 DEF Night!Pay, NightTypes, Night!clock, Night!files
  <2> QED
    BY <1>2, <2>1, <2>2 DEF Night!Pay
<1>3. CASE Night!CallFails(a)
  BY <1>1, <1>3, FailsTyped DEF Night!CallFails, NightTypes, Night!clock, Night!files
<1> QED
  BY <1>2, <1>3

LEMMA WriteLogTypes ==
    ASSUME ActorAssumption, NightTypes, NEW a \in Actors, Night!WriteLog(a)
    PROVE  NightTypes'
<1>1. work[a].seen \in Int
  BY DEF NightTypes, Works
<1>2. logs' \in [Days -> Int]
  BY <1>1 DEF Night!WriteLog, NightTypes
<1>3. dreaming' \in [Actors -> Places]
  <2>1. (IF work[a].draft = "empty" THEN "latches"
         ELSE IF work[a].draft = "bad" THEN "refuses" ELSE "copies") \in Places
    BY DEF Places
  <2> QED
    BY <2>1, Goes DEF Night!WriteLog, Night!Moves
<1> QED
  BY <1>2, <1>3 DEF Night!WriteLog, NightTypes, Night!clock, Night!history

LEMMA SettleTypes ==
    ASSUME ActorAssumption, NightTypes, NEW a \in Actors,
           Night!Refuse(a) \/ Night!Applied(a) \/ (a = 0 /\ Night!Latch)
    PROVE  NightTypes'
<1>1. timer \in Timers /\ work \in [Actors -> Works] /\ work[a].day \in Nat
  BY DEF NightTypes, Works
<1>2. CASE Night!Refuse(a)
  BY <1>2, FailsTyped DEF Night!Refuse, NightTypes, Night!clock, Night!files, Night!history
<1>3. CASE Night!Applied(a)
  <2>1. done' \in [Days -> Nat]
    BY <1>3, PaidTypes DEF Night!Applied
  <2>2. timer' \in Timers
    BY <1>1, <1>3 DEF Night!Applied, Timers
  <2>3. dreaming' \in [Actors -> Places] /\ work' \in [Actors -> Works]
    BY <1>3, ReturnsTyped DEF Night!Applied
  <2> QED
    BY <1>3, <2>1, <2>2, <2>3 DEF Night!Applied, NightTypes, Night!clock, Night!files
<1>4. CASE a = 0 /\ Night!Latch
  <2>1. timer' \in Timers
    BY <1>1, <1>4 DEF Night!Latch, Timers
  <2>2. dreaming' \in [Actors -> Places] /\ work' \in [Actors -> Works]
    BY <1>4, EndsTyped DEF Night!Latch
  <2> QED
    BY <1>4, <2>1, <2>2 DEF Night!Latch, NightTypes, Night!clock, Night!files, Night!history
<1> QED
  BY <1>2, <1>3, <1>4

LEMMA BackupTypes ==
    ASSUME ActorAssumption, NightTypes, NEW a \in Actors,
           Night!Copy(a) \/ Night!Archive(a) \/ Night!BackUp(a)
    PROVE  NightTypes'
<1>1. work[a] \in Works /\ work \in [Actors -> Works] /\ work[a].copy \in Nat /\ soul \in Nat
  BY DEF NightTypes, Works
<1>2. Night!AfterBackup(a) \in Places /\ {"archives", "saves"} \subseteq Places
  BY DEF Night!AfterBackup, Places
<1>3. CASE Night!Copy(a)
  <2>1. [work[a] EXCEPT !.copy = soul] \in Works
    BY <1>1 DEF Works
  <2>2. work' \in [Actors -> Works]
    BY <1>1, <1>3, <2>1 DEF Night!Copy
  <2>3. dreaming' \in [Actors -> Places]
    BY <1>2, <1>3, Goes DEF Night!Copy, Night!Moves
  <2> QED
    BY <1>3, <2>2, <2>3 DEF Night!Copy, NightTypes, Night!clock, Night!files, Night!history
<1>4. CASE Night!Archive(a)
  <2>1. dreaming' \in [Actors -> Places]
    BY <1>2, <1>4, Goes DEF Night!Archive, Night!Moves
  <2> QED
    BY <1>1, <1>4, <2>1 DEF Night!Archive, NightTypes, Night!clock, Night!history
<1>5. CASE Night!BackUp(a)
  <2>1. dreaming' \in [Actors -> Places]
    BY <1>2, <1>5, Goes DEF Night!BackUp, Night!Moves
  <2> QED
    BY <1>1, <1>5, <2>1 DEF Night!BackUp, NightTypes, Night!clock, Night!history
<1> QED
  BY <1>3, <1>4, <1>5

LEMMA WriteSoulTypes ==
    ASSUME ActorAssumption, NightTypes, NEW a \in Actors, Night!WriteSoul(a)
    PROVE  NightTypes'
<1>1. work[a].prev \in Nat /\ work[a].ident \in Nat /\ madeFrom \in Seq(Nat) /\ past \in Mishaps
  BY DEF NightTypes, Works
<1>2. soul' \in Nat /\ madeFrom' \in Seq(Nat)
  <2>1. CASE work[a].draft = "same"
    BY <1>1, <2>1 DEF Night!WriteSoul, NightTypes
  <2>2. CASE work[a].draft # "same"
    <3>1. soul' = Len(madeFrom) + 1 /\ madeFrom' = Append(madeFrom, work[a].ident)
      BY <2>2 DEF Night!WriteSoul
    <3>2. Len(madeFrom) \in Nat
      BY <1>1
    <3> QED
      BY <1>1, <3>1, <3>2
  <2> QED
    BY <2>1, <2>2
<1>3. dreaming' \in [Actors -> Places] /\ work' \in [Actors -> Works] /\ past' \in Mishaps
  <2>1. CASE a \in Steers
    <3>1. past' \in Mishaps
      BY <1>1, <2>1 DEF Night!WriteSoul, Mishaps
    <3> QED
      BY <2>1, <3>1, EndsTyped DEF Night!WriteSoul
  <2>2. CASE a \notin Steers
    <3>1. dreaming' \in [Actors -> Places]
      BY <2>2, Goes DEF Night!WriteSoul, Places
    <3> QED
      BY <1>1, <2>2, <3>1 DEF Night!WriteSoul, NightTypes
  <2> QED
    BY <2>1, <2>2
<1> QED
  BY <1>2, <1>3 DEF Night!WriteSoul, NightTypes, Night!clock, Night!history

LEMMA SteerTypes ==
    ASSUME ActorAssumption, NightTypes, NEW a \in Actors, Night!Steer(a) \/ Night!WriteSources(a)
    PROVE  NightTypes'
<1>1. dreaming' \in [Actors -> Places]
  BY Goes DEF Night!Steer, Night!WriteSources, Night!Moves, Places
<1>2. CASE Night!Steer(a)
  BY <1>1, <1>2 DEF Night!Steer, NightTypes, Night!clock, Night!files, Night!history
<1>3. CASE Night!WriteSources(a)
  <2>1. work[a] \in Works /\ ident + 1 \in Nat /\ work \in [Actors -> Works]
    BY DEF NightTypes
  <2>2. [work[a] EXCEPT !.ident = ident + 1, !.draft = "good"] \in Works
    BY <2>1 DEF Works, Drafts
  <2>3. work' = [work EXCEPT ![a] = [work[a] EXCEPT !.ident = ident + 1, !.draft = "good"]]
    BY <1>3, <2>1 DEF Night!WriteSources
  <2>4. work' \in [Actors -> Works]
    BY <2>1, <2>2, <2>3
  <2> QED
    BY <1>1, <1>3, <2>1, <2>4 DEF Night!WriteSources, NightTypes, Night!clock, Night!history
<1> QED
  BY <1>2, <1>3

LEMMA MishapTypes ==
    ASSUME ActorAssumption, NightTypes, Night!Spoil \/ Night!StopDreamer \/ Night!Restart
    PROVE  NightTypes'
<1>1. /\ past \in Mishaps /\ soul \in Nat /\ past.faults + 1 \in Nat
      /\ past.spoiled \cup {soul} \subseteq Nat
  BY DEF NightTypes, Mishaps
<1>2. CASE Night!Spoil
  <2>1. past' \in Mishaps
    BY <1>1, <1>2 DEF Night!Spoil, Mishaps
  <2> QED
    BY <1>2, <2>1 DEF Night!Spoil, NightTypes, Night!clock, Night!history
<1>3. CASE Night!StopDreamer
  BY <1>3 DEF Night!StopDreamer, NightTypes, Night!clock, Night!files, Night!history
<1>4. CASE Night!Restart
  <2>1. past' \in Mishaps
    <3>1. (past.half \/ \E s \in Steers : Night!At(s, "writes")) \in BOOLEAN
      BY Zenon
    <3>2. PICK h \in BOOLEAN : past' = [past EXCEPT !.faults = past.faults + 1, !.half = h]
      BY <1>4, <3>1, Zenon DEF Night!Restart
    <3>3. past' = [half |-> h, spoiled |-> past.spoiled, faults |-> past.faults + 1]
      BY <1>1, <3>2 DEF Mishaps
    <3> QED
      BY <1>1, <3>3 DEF Mishaps
  <2>2. dreaming' \in [Actors -> Places]
    BY <1>4 DEF Night!Restart, Places, Actors
  <2>3. work' = [a \in Actors |-> Night!NoWork] /\ timer' = Night!NoTimer
    BY <1>4 DEF Night!Restart, Actors
  <2>4. paid' = [d \in Days |-> 0] /\ done' = [d \in Days |-> 0]
    BY <1>4 DEF Night!Restart, Days
  <2> QED
    BY <1>4, <2>1, <2>2, <2>3, <2>4, NothingInHand
    DEF Night!Restart, NightTypes, Night!clock, Night!files
<1> QED
  BY <1>2, <1>3, <1>4

LEMMA ActorsAre == /\ 0 \in Actors /\ Night!Dreamers \subseteq Actors /\ Steers \subseteq Actors
                   /\ Manuals \subseteq Actors /\ Night!Dreamers = {0} \cup Manuals
                   /\ Actors = {0} \cup Manuals \cup Steers
BY DEF Actors, Night!Actors, Night!Dreamers

\* What an actor does.
Turn(a) ==
    \/ a \in Manuals /\ Night!Ask(a)
    \/ /\ a \in Night!Dreamers
       /\ \/ Night!Lock(a) \/ Night!Read(a) \/ Night!Pay(a) \/ Night!CallFails(a)
          \/ Night!WriteLog(a) \/ Night!Refuse(a) \/ Night!Applied(a)
    \/ Night!Copy(a) \/ Night!Archive(a) \/ Night!BackUp(a) \/ Night!WriteSoul(a)
    \/ a \in Steers /\ (Night!Steer(a) \/ Night!WriteSources(a))
    \/ a = 0 /\ (Night!Tick \/ Night!Latch)
Passing == Night!Midnight \/ Night!Window \/ Night!AppendDiary \/ Night!RetryIsDue
Mishap == Night!Spoil \/ Night!StopDreamer \/ Night!Restart

LEMMA NightMoves ==
    ASSUME [Night!Next]_(Night!vars)
    PROVE  UNCHANGED Night!vars \/ Passing \/ Mishap \/ \E a \in Actors : Turn(a)
<1>1. ASSUME Night!Tick \/ Night!Latch PROVE \E a \in Actors : Turn(a)
  BY <1>1, ActorsAre, Zenon DEF Turn
<1>2. ASSUME NEW a \in Manuals, Night!Ask(a) PROVE \E b \in Actors : Turn(b)
  BY <1>2, ActorsAre, Zenon DEF Turn
<1>3. ASSUME NEW a \in Night!Dreamers,
             \/ Night!Lock(a) \/ Night!Read(a) \/ Night!Pay(a) \/ Night!CallFails(a)
             \/ Night!WriteLog(a) \/ Night!Refuse(a) \/ Night!Applied(a)
      PROVE  \E b \in Actors : Turn(b)
  BY <1>3, ActorsAre, Zenon DEF Turn
<1>4. ASSUME NEW a \in Actors,
             Night!Copy(a) \/ Night!Archive(a) \/ Night!BackUp(a) \/ Night!WriteSoul(a)
      PROVE  \E b \in Actors : Turn(b)
  BY <1>4, Zenon DEF Turn
<1>5. ASSUME NEW a \in Steers, Night!Steer(a) \/ Night!WriteSources(a)
      PROVE  \E b \in Actors : Turn(b)
  BY <1>5, ActorsAre, Zenon DEF Turn
<1> QED
  BY <1>1, <1>2, <1>3, <1>4, <1>5, Zenon DEF Night!Next, Passing, Mishap, Actors

LEMMA NightTypesStep ==
    ASSUME ActorAssumption, NightTypes, Dated, [Night!Next]_(Night!vars)
    PROVE  NightTypes'
<1>1. CASE UNCHANGED Night!vars
  BY <1>1 DEF Night!vars, Night!clock, Night!files, Night!history, NightTypes
<1>2. ASSUME NEW a \in Actors, Turn(a) PROVE NightTypes'
  BY <1>2, TickTypes, LockTypes, ReadTypes, PayTypes, WriteLogTypes, SettleTypes, BackupTypes,
     WriteSoulTypes, SteerTypes DEF Turn
<1>3. CASE Passing
  BY <1>3, ClockTypes DEF Passing
<1>4. CASE Mishap
  BY <1>4, MishapTypes DEF Mishap
<1> QED
  BY <1>1, <1>2, <1>3, <1>4, NightMoves

\* The timer of a new calendar day has counted nothing.
Fresh == IF timer.failDay = day THEN timer
         ELSE [timer EXCEPT !.failDay = day, !.failures = 0, !.waits = FALSE]

LEMMA TickDoes ==
    ASSUME Night!Tick
    PROVE  /\ Night!MayStart(0) /\ dreaming[0] = "idle" /\ ~stopping /\ timer' = Fresh
           /\ \/ UNCHANGED <<dreaming, work>>
              \/ /\ Night!Goto(0, "locks")
                 /\ work' = [work EXCEPT ![0] = [Night!NoWork EXCEPT !.day = day - 1]]
                 /\ day - 1 > 0 /\ day - 1 # Fresh.last /\ Fresh.failures < 3
           /\ UNCHANGED <<day, runLock, stopping, diary, logs, soul, bak, archive, ident, madeFrom,
                          paid, done, past>>
<1>1. Night!MayStart(0) /\ dreaming[0] = "idle" /\ ~stopping /\ timer' = Fresh
  BY DEF Night!Tick, Fresh, Night!MayStart, Night!At
<1>2. UNCHANGED <<day, runLock, stopping, diary, logs, soul, bak, archive, ident, madeFrom,
                  paid, done, past>>
  BY DEF Night!Tick, Night!clock, Night!files, Night!history
<1>3. \/ UNCHANGED <<dreaming, work>>
      \/ /\ Night!Goto(0, "locks")
         /\ work' = [work EXCEPT ![0] = [Night!NoWork EXCEPT !.day = day - 1]]
         /\ day - 1 > 0 /\ day - 1 # Fresh.last /\ Fresh.failures < 3
  <2>1. IF Night!Compacts(day) > 0 /\ Night!Compacts(day) # Fresh.last /\ Fresh.failures < 3
           /\ ~Fresh.waits /\ night
        THEN /\ Night!Goto(0, "locks")
             /\ work' = [work EXCEPT ![0] = [Night!NoWork EXCEPT !.day = Night!Compacts(day)]]
        ELSE UNCHANGED <<dreaming, work>>
    BY DEF Night!Tick, Fresh
  <2>2. Night!Compacts(day) = day - 1
    BY DEF Night!Compacts
  <2> QED
    BY <2>1, <2>2
<1> QED
  BY <1>1, <1>2, <1>3

\* An actor moves alone.
LEMMA OthersStand ==
    ASSUME NightTypes, NEW a \in Actors, Turn(a), NEW b \in Actors \ {a}
    PROVE  dreaming'[b] = dreaming[b] /\ work'[b] = work[b]
<1>1. dreaming \in [Actors -> Places] /\ work \in [Actors -> Works]
  BY DEF NightTypes
<1>2. ASSUME \E p : Night!Goto(a, p) PROVE dreaming'[b] = dreaming[b]
  BY <1>1, <1>2 DEF Night!Goto
<1>3. ASSUME \E w : work' = [work EXCEPT ![a] = w] PROVE work'[b] = work[b]
  BY <1>1, <1>3
<1>4. CASE Night!Ask(a)
  BY <1>2, <1>4 DEF Night!Ask
<1>5. CASE Night!Lock(a)
  BY <1>2, <1>3, <1>5 DEF Night!Lock, Night!Ends
<1>6. CASE Night!Read(a)
  <2>1. CASE Night!Returns(a)
    BY <1>2, <1>3, <2>1 DEF Night!Returns, Night!Ends
  <2>2. CASE ~Night!Returns(a)
    BY <1>2, <1>3, <1>6, <2>2 DEF Night!Read
  <2> QED
    BY <2>1, <2>2
<1>7. CASE Night!Pay(a) \/ Night!CallFails(a)
  BY <1>2, <1>3, <1>7 DEF Night!Pay, Night!CallFails, Night!Failed, Night!Ends
<1>8. CASE Night!WriteLog(a) \/ Night!Refuse(a)
  BY <1>2, <1>3, <1>8 DEF Night!WriteLog, Night!Refuse, Night!Failed, Night!Ends, Night!Moves
<1>9. CASE Night!Applied(a)
  BY <1>2, <1>3, <1>9 DEF Night!Applied, Night!Returns, Night!Ends
<1>10. CASE Night!Copy(a) \/ Night!Archive(a) \/ Night!BackUp(a)
  BY <1>2, <1>3, <1>10 DEF Night!Copy, Night!Archive, Night!BackUp, Night!Moves
<1>11. CASE Night!WriteSoul(a)
  BY <1>2, <1>3, <1>11 DEF Night!WriteSoul, Night!Ends
<1>12. CASE Night!Steer(a) \/ Night!WriteSources(a)
  BY <1>2, <1>3, <1>12 DEF Night!Steer, Night!WriteSources, Night!Moves
<1>13. CASE a = 0 /\ Night!Tick
  <2>1. \/ UNCHANGED <<dreaming, work>>
        \/ (\E p : Night!Goto(0, p)) /\ (\E w : work' = [work EXCEPT ![0] = w])
    BY <1>13, TickDoes, Zenon
  <2> QED
    BY <1>2, <1>3, <1>13, <2>1
<1>14. CASE a = 0 /\ Night!Latch
  BY <1>2, <1>3, <1>14 DEF Night!Latch, Night!Ends
<1> QED
  BY <1>4, <1>5, <1>6, <1>7, <1>8, <1>9, <1>10, <1>11, <1>12, <1>13, <1>14 DEF Turn

\* Who comes to the lock has a day if it is the timer, who comes to read has one.
LEMMA Comes ==
    ASSUME ActorAssumption, NightTypes, NEW a \in Actors, Turn(a)
    PROVE  /\ dreaming'[a] = "reads" => a \in Night!Dreamers /\ Night!Lock(a)
           /\ dreaming'[a] = "locks" => Night!Ask(a) \/ (a = 0 /\ Night!Tick)
<1>1. dreaming \in [Actors -> Places]
  BY DEF NightTypes
<1>2. ASSUME NEW p, Night!Goto(a, p) PROVE dreaming'[a] = p
  BY <1>1, <1>2 DEF Night!Goto
<1>3. ASSUME Night!Ends(a) PROVE dreaming'[a] \notin {"reads", "locks"}
  BY <1>2, <1>3 DEF Night!Ends
<1>4. ASSUME Night!Returns(a) PROVE dreaming'[a] \notin {"reads", "locks"}
  BY <1>2, <1>3, <1>4 DEF Night!Returns
<1>5. CASE a \in Night!Dreamers /\ Night!Lock(a)
  <2>1. dreaming'[a] # "locks"
    BY <1>2, <1>3, <1>5 DEF Night!Lock
  <2> QED
    BY <1>5, <2>1
<1>6. CASE Night!Read(a)
  BY <1>2, <1>4, <1>6 DEF Night!Read
<1>7. CASE Night!Pay(a) \/ Night!CallFails(a) \/ Night!Refuse(a)
  BY <1>2, <1>3, <1>7 DEF Night!Pay, Night!CallFails, Night!Refuse, Night!Failed
<1>8. CASE Night!WriteLog(a)
  BY <1>2, <1>8 DEF Night!WriteLog, Night!Moves
<1>9. CASE Night!Applied(a)
  BY <1>4, <1>9 DEF Night!Applied
<1>10. CASE Night!Copy(a) \/ Night!Archive(a) \/ Night!BackUp(a)
  BY <1>2, <1>10 DEF Night!Copy, Night!Archive, Night!BackUp, Night!Moves, Night!AfterBackup
<1>11. CASE Night!WriteSoul(a)
  BY <1>2, <1>3, <1>11 DEF Night!WriteSoul
<1>12. CASE Night!Steer(a) \/ Night!WriteSources(a)
  BY <1>2, <1>12 DEF Night!Steer, Night!WriteSources, Night!Moves
<1>13. CASE a = 0 /\ Night!Latch
  BY <1>3, <1>13 DEF Night!Latch
<1>14. CASE Night!Ask(a)
  BY <1>2, <1>14 DEF Night!Ask
<1>15. CASE a = 0 /\ Night!Tick
  BY <1>2, <1>15, TickDoes
<1> QED
  BY <1>5, <1>6, <1>7, <1>8, <1>9, <1>10, <1>11, <1>12, <1>13, <1>14, <1>15 DEF Turn

LEMMA DatedStep ==
    ASSUME ActorAssumption, NightTypes, Dated, [Night!Next]_(Night!vars)
    PROVE  Dated'
<1>1. CASE UNCHANGED <<dreaming, work>>
  BY <1>1 DEF Dated
<1>2. CASE Passing
  BY <1>1, <1>2 DEF Passing, Night!Midnight, Night!Window, Night!AppendDiary, Night!RetryIsDue
<1>3. CASE Night!Spoil \/ Night!StopDreamer
  BY <1>1, <1>3 DEF Night!Spoil, Night!StopDreamer
<1>4. CASE Night!Restart
  BY <1>4, ActorsAre DEF Night!Restart, Dated, Actors
<1>5. ASSUME NEW a \in Actors, Turn(a) PROVE Dated'
  <2>1. day \in Days /\ Days \subseteq Nat /\ work \in [Actors -> Works]
    BY DaysAre DEF NightTypes
  <2>2. \A b \in Actors \ {a} : dreaming'[b] = dreaming[b] /\ work'[b] = work[b]
    BY <1>5, OthersStand
  <2>3. ASSUME dreaming'[a] = "reads" PROVE work'[a].day \in Days
    <3>1. Night!Lock(a) /\ Night!At(a, "locks")
      BY <1>5, <2>3, Comes DEF Night!Lock
    <3>2. ~Night!Ends(a)
      BY <2>3 DEF Night!Ends, Night!Goto, NightTypes
    <3>3. work' = [work EXCEPT ![a].day = Night!DayOf(a)]
      BY <3>1, <3>2 DEF Night!Lock
    <3>4. work'[a].day = Night!DayOf(a)
      BY <2>1, <3>3 DEF Works
    <3>5. a \in Night!Dreamers
      BY <1>5, <2>3, Comes
    <3> QED
      BY <2>1, <3>1, <3>4, <3>5, ActorsAre DEF Night!DayOf, Dated, Night!At
  <2>4. ASSUME a = 0, dreaming'[0] = "locks" PROVE work'[0].day \in Days
    <3>1. Night!Tick
      BY <1>5, <2>4, Comes DEF Night!Ask, ActorAssumption
    <3>2. work' = [work EXCEPT ![0] = [Night!NoWork EXCEPT !.day = day - 1]] /\ day - 1 > 0
      BY <2>4, <3>1, TickDoes
    <3>3. work'[0].day = day - 1
      BY <2>1, <3>2, ActorsAre, NothingInHand DEF Works
    <3> QED
      BY <2>1, <3>2, <3>3, DaysAre
  <2> QED
    BY <2>2, <2>3, <2>4, ActorsAre DEF Dated
<1> QED
  BY <1>1, <1>2, <1>3, <1>4, <1>5, NightMoves DEF Mishap, Night!vars

\* One timer, and no dream is asked for by hand.
Working == {"locks", "reads", "pays", "logs", "refuses", "copies", "archives", "saves", "writes",
            "latches", "returns"}
PaidFor == Working \ {"locks", "reads", "pays"}
Awake == ~stopping \/ dreaming[0] \in Working
Fee == IF dreaming[0] \in PaidFor THEN 1 ELSE 0
Tonight(d) == d = timer.failDay - 1 /\ timer.last # d

Unpaid ==
    /\ timer.failDay <= day
    /\ \A d \in Days : d >= timer.failDay => paid[d] = 0 /\ done[d] = 0
Within == \A d \in Days : paid[d] <= 3 /\ done[d] <= 1
OnDuty ==
    dreaming[0] \in Working
        => work[0].day \in Days /\ Tonight(work[0].day) /\ timer.failures < 3
Priced == \A d \in Days : Tonight(d) /\ Awake => paid[d] <= timer.failures + Fee
NotYet == \A d \in Days : Tonight(d) /\ dreaming[0] # "returns" => done[d] = 0
Whole == \A d \in Days : logs[d] # -1 => d < day /\ logs[d] = diary[d]
AsRead == dreaming[0] \in {"pays", "logs"} => work[0].seen = diary[work[0].day]

OneNight == Unpaid /\ Within /\ OnDuty /\ Priced /\ NotYet /\ Whole /\ AsRead

LEMMA TimerTypes ==
    ASSUME ActorAssumption, NightTypes
    PROVE  /\ timer.last \in Nat /\ timer.failDay \in Nat /\ timer.failures \in Nat
           /\ day \in Days /\ Days \subseteq Nat /\ dreaming[0] \in Places /\ work[0] \in Works
           /\ work[0].day \in Nat
           /\ \A d \in Days : paid[d] \in Nat /\ done[d] \in Nat /\ diary[d] \in Int
BY DaysAre, ActorsAre DEF NightTypes, Timers, Works

\* What the timer's round does without an answer, a bill, a log or a latch.
KeepsTheBooks ==
    /\ timer'.last = timer.last /\ timer'.failDay = timer.failDay
    /\ timer'.failures = timer.failures
    /\ paid' = paid /\ done' = done /\ logs' = logs
    /\ day <= day' /\ \A d \in Days : d < day => diary'[d] = diary[d]
GoesOn ==
    /\ dreaming'[0] \in Working => dreaming[0] \in Working /\ work'[0].day = work[0].day
    /\ dreaming[0] \in PaidFor => dreaming'[0] \in PaidFor
    /\ dreaming[0] = "returns" => dreaming'[0] = "returns"
    /\ dreaming'[0] \in {"pays", "logs"} => work'[0].seen = diary[work[0].day]

LEMMA TodayAhead ==
    ASSUME ActorAssumption, NightTypes, Unpaid, NEW d \in Days, Tonight(d)
    PROVE  d < day
BY TimerTypes DEF Unpaid, Tonight

LEMMA Quiet ==
    ASSUME ActorAssumption, NightTypes, NightTypes', OneNight, KeepsTheBooks, GoesOn,
           Awake' => Awake
    PROVE  OneNight'
<1>1. \A d : Tonight(d)' <=> Tonight(d)
  BY DEF KeepsTheBooks, Tonight
<1>2. Unpaid' /\ Within'
  <2>1. day' \in Nat /\ day \in Nat /\ timer.failDay \in Nat
    BY DaysAre, TimerTypes DEF NightTypes
  <2> QED
    BY <2>1 DEF KeepsTheBooks, OneNight, Unpaid, Within
<1>3. OnDuty'
  BY <1>1 DEF GoesOn, KeepsTheBooks, OneNight, OnDuty
<1>4. Fee <= Fee' /\ Fee \in {0, 1} /\ Fee' \in {0, 1}
  BY DEF GoesOn, Fee
<1>5. Priced'
  BY <1>1, <1>4, TimerTypes DEF KeepsTheBooks, OneNight, Priced
<1>6. NotYet'
  BY <1>1 DEF GoesOn, KeepsTheBooks, OneNight, NotYet
<1>7. Whole'
  <2>1. day' \in Nat /\ day \in Nat
    BY DaysAre DEF NightTypes
  <2> QED
    BY <2>1, DaysAre DEF KeepsTheBooks, OneNight, Whole
<1>8. AsRead'
  <2> SUFFICES ASSUME dreaming'[0] \in {"pays", "logs"}
               PROVE  work'[0].seen = diary'[work'[0].day]
    BY DEF AsRead
  <2>1. dreaming'[0] \in Working
    BY DEF Working
  <2>2. work'[0].seen = diary[work[0].day] /\ work'[0].day = work[0].day
        /\ work[0].day \in Days /\ Tonight(work[0].day)
    BY <2>1 DEF GoesOn, OneNight, OnDuty
  <2>3. work[0].day < day
    BY <2>2, TodayAhead DEF OneNight
  <2> QED
    BY <2>2, <2>3 DEF KeepsTheBooks
<1> QED
  BY <1>2, <1>3, <1>5, <1>6, <1>7, <1>8 DEF OneNight

\* A step in which the timer has no part.
LEMMA TimerIdle ==
    ASSUME ActorAssumption, NightTypes, NightTypes', OneNight, KeepsTheBooks,
           dreaming'[0] = dreaming[0], work'[0] = work[0], stopping' = stopping
    PROVE  OneNight'
<1>1. Awake' => Awake
  BY Zenon DEF Awake
<1>2. GoesOn
  BY DEF GoesOn, OneNight, AsRead
<1> QED
  BY <1>1, <1>2, Quiet

LEMMA PassingNight ==
    ASSUME ActorAssumption, NightTypes, NightTypes', OneNight, Passing
    PROVE  OneNight'
<1>1. day \in Nat /\ day' \in Nat /\ timer \in Timers /\ diary \in [Days -> Int]
  BY DaysAre DEF NightTypes
<1>2. dreaming' = dreaming /\ work' = work /\ stopping' = stopping /\ paid' = paid /\ done' = done
      /\ logs' = logs
  BY DEF Passing, Night!Midnight, Night!Window, Night!AppendDiary, Night!RetryIsDue, Night!files,
         Night!history
<1>3. KeepsTheBooks
  <2>1. CASE Night!Midnight
    BY <1>1, <1>2, <2>1 DEF Night!Midnight, Night!files, KeepsTheBooks
  <2>2. CASE Night!Window
    BY <1>1, <1>2, <2>2 DEF Night!Window, Night!files, KeepsTheBooks
  <2>3. CASE Night!AppendDiary
    BY <1>1, <1>2, <2>3 DEF Night!AppendDiary, Night!clock, KeepsTheBooks
  <2>4. CASE Night!RetryIsDue
    BY <1>1, <1>2, <2>4 DEF Night!RetryIsDue, Night!clock, Night!files, KeepsTheBooks, Timers
  <2> QED
    BY <2>1, <2>2, <2>3, <2>4 DEF Passing
<1> QED
  BY <1>2, <1>3, TimerIdle

\* The steers leave the timer's books alone.
LEMMA SteeredNight ==
    ASSUME ActorAssumption, NightTypes, NightTypes', OneNight, Manuals = {},
           NEW a \in Actors \ {0}, Turn(a)
    PROVE  OneNight'
<1>1. a \in Steers /\ a # 0 /\ a \notin Night!Dreamers /\ a \notin Manuals
  BY ActorsAre DEF ActorAssumption
<1>2. \/ Night!Copy(a) \/ Night!Archive(a) \/ Night!BackUp(a) \/ Night!WriteSoul(a)
      \/ Night!Steer(a) \/ Night!WriteSources(a)
  BY <1>1 DEF Turn
<1>3. UNCHANGED <<day, timer, stopping, diary, logs, paid, done>>
  <2>1. CASE Night!Copy(a) \/ Night!Archive(a) \/ Night!BackUp(a)
    BY <2>1 DEF Night!Copy, Night!Archive, Night!BackUp, Night!clock, Night!files, Night!history
  <2>2. CASE Night!WriteSoul(a) \/ Night!Steer(a) \/ Night!WriteSources(a)
    BY <2>2 DEF Night!WriteSoul, Night!Steer, Night!WriteSources, Night!clock, Night!files,
                Night!history
  <2> QED
    BY <1>2, <2>1, <2>2
<1>4. dreaming'[0] = dreaming[0] /\ work'[0] = work[0]
  BY ActorsAre, OthersStand
<1>5. day \in Nat
  BY DaysAre DEF NightTypes
<1>6. KeepsTheBooks
  BY <1>3, <1>5 DEF KeepsTheBooks
<1> QED
  BY <1>3, <1>4, <1>6, TimerIdle

LEMMA MishapNight ==
    ASSUME ActorAssumption, NightTypes, NightTypes', OneNight, Mishap
    PROVE  OneNight'
<1>1. day \in Nat
  BY DaysAre DEF NightTypes
<1>2. CASE Night!Spoil
  <2>1. KeepsTheBooks /\ dreaming' = dreaming /\ work' = work /\ stopping' = stopping
    BY <1>1, <1>2 DEF Night!Spoil, KeepsTheBooks, Night!clock, Night!history
  <2> QED
    BY <2>1, TimerIdle
<1>3. CASE Night!StopDreamer
  <2>1. KeepsTheBooks /\ dreaming' = dreaming /\ work' = work
    BY <1>1, <1>3 DEF Night!StopDreamer, KeepsTheBooks, Night!clock, Night!files, Night!history
  <2>2. GoesOn
    BY <2>1 DEF GoesOn, OneNight, AsRead
  <2>3. Awake' => Awake
    BY <1>3, <2>1, Zenon DEF Night!StopDreamer, Awake
  <2> QED
    BY <2>1, <2>2, <2>3, Quiet
<1>4. CASE Night!Restart
  <2>1. timer' = Night!NoTimer /\ paid' = [d \in Days |-> 0] /\ done' = [d \in Days |-> 0]
        /\ day' = day /\ logs' = logs /\ diary' = diary
    BY <1>4 DEF Night!Restart, Days, Night!clock, Night!files
  <2>2. dreaming'[0] = "idle"
    BY <1>4, ActorsAre DEF Night!Restart, Actors
  <2>3. timer'.failDay = 0 /\ timer'.last = 0 /\ timer'.failures = 0
    BY <2>1 DEF Night!NoTimer
  <2>4. Unpaid' /\ Within' /\ NotYet'
    BY <1>1, <2>1, <2>3 DEF Unpaid, Within, NotYet
  <2>5. OnDuty' /\ AsRead' /\ Fee' = 0
    BY <2>2 DEF OnDuty, AsRead, Fee, Working, PaidFor
  <2>6. Priced'
    BY <2>1, <2>3, <2>5 DEF Priced
  <2>7. Whole'
    BY <2>1 DEF OneNight, Whole
  <2> QED
    BY <2>4, <2>5, <2>6, <2>7 DEF OneNight
<1> QED
  BY <1>2, <1>3, <1>4 DEF Mishap

LEMMA TimerGoes ==
    ASSUME NightTypes
    PROVE  /\ \A p : Night!Goto(0, p) => dreaming'[0] = p
           /\ Night!Ends(0) => dreaming'[0] = "idle"
           /\ Night!Returns(0) => dreaming'[0] = "returns" /\ work' = work
BY ActorsAre DEF NightTypes, Night!Goto, Night!Ends, Night!Returns

LEMMA TickNight ==
    ASSUME ActorAssumption, NightTypes, NightTypes', OneNight, Night!Tick
    PROVE  OneNight'
<1>1. timer' = Fresh /\ dreaming[0] = "idle"
      /\ UNCHANGED <<day, stopping, diary, logs, paid, done>>
  BY TickDoes
<1>2. timer \in Timers /\ day \in Nat /\ Days \subseteq Nat /\ work \in [Actors -> Works]
  BY DaysAre DEF NightTypes
<1>3. timer'.failDay = day /\ timer'.last = timer.last
      /\ timer'.failures = (IF timer.failDay = day THEN timer.failures ELSE 0)
  BY <1>1, <1>2 DEF Fresh, Timers
<1>4. Unpaid' /\ Within' /\ Whole'
  BY <1>1, <1>2, <1>3, TimerTypes DEF OneNight, Unpaid, Within, Whole
<1>5. dreaming'[0] \in {"idle", "locks"}
  BY <1>1, TickDoes, TimerGoes
<1>6. AsRead' /\ Fee' = 0 /\ Fee = 0
  BY <1>1, <1>5 DEF AsRead, Fee, PaidFor, Working
<1>7. OnDuty'
  <2> SUFFICES ASSUME dreaming'[0] \in Working
               PROVE  (work[0].day \in Days /\ Tonight(work[0].day) /\ timer.failures < 3)'
    BY DEF OnDuty
  <2>1. /\ work' = [work EXCEPT ![0] = [Night!NoWork EXCEPT !.day = day - 1]]
        /\ day - 1 > 0 /\ day - 1 # Fresh.last /\ Fresh.failures < 3
    BY <1>1, TickDoes DEF Working
  <2>2. work'[0].day = day - 1
    BY <1>2, <2>1, ActorsAre, NothingInHand DEF Works
  <2>3. day - 1 \in Days
    <3>1. day \in 1..MaxDays /\ MaxDays \in Nat /\ Days = 1..MaxDays /\ day - 1 > 0
      BY <2>1, DaysAre, TimerTypes
    <3> QED
      BY <3>1
  <2> QED
    BY <1>1, <1>3, <2>1, <2>2, <2>3 DEF Tonight
<1>8. ASSUME NEW d \in Days, Tonight(d)', timer.failDay # day PROVE paid[d] = 0 /\ done[d] = 0
  <2>1. d = day - 1 /\ timer.failDay < day
    BY <1>2, <1>3, <1>8, TimerTypes DEF Tonight, OneNight, Unpaid
  <2> QED
    BY <1>2, <2>1, TimerTypes DEF OneNight, Unpaid
<1>9. ASSUME NEW d \in Days, Tonight(d)', timer.failDay = day PROVE Tonight(d)
  BY <1>3, <1>9 DEF Tonight
<1>10. Awake
  BY TickDoes, Zenon DEF Awake
<1>11. Priced'
  <2> SUFFICES ASSUME NEW d \in Days, Tonight(d)'
               PROVE  paid'[d] <= timer'.failures + Fee'
    BY DEF Priced
  <2> QED
    BY <1>1, <1>3, <1>6, <1>8, <1>9, <1>10, TimerTypes DEF OneNight, Priced
<1>12. NotYet'
  <2> SUFFICES ASSUME NEW d \in Days, Tonight(d)' PROVE done'[d] = 0
    BY DEF NotYet
  <2>1. dreaming[0] # "returns"
    BY <1>1
  <2> QED
    BY <1>1, <1>8, <1>9, <2>1 DEF OneNight, NotYet
<1> QED
  BY <1>4, <1>6, <1>7, <1>11, <1>12 DEF OneNight

LEMMA LockNight ==
    ASSUME ActorAssumption, NightTypes, NightTypes', OneNight, Night!Lock(0)
    PROVE  OneNight'
<1>1. dreaming[0] = "locks" /\ day \in Nat
  BY DaysAre DEF NightTypes, Night!Lock, Night!At
<1>2. KeepsTheBooks /\ stopping' = stopping
  BY <1>1 DEF Night!Lock, KeepsTheBooks, Night!clock, Night!files, Night!history
<1>3. Awake' => Awake
  BY <1>1 DEF Awake, Working
<1>4. dreaming'[0] \in {"idle", "reads"}
  BY TimerGoes DEF Night!Lock
<1>5. ASSUME dreaming'[0] = "reads" PROVE work'[0].day = work[0].day
  <2>1. work' = [work EXCEPT ![0].day = Night!DayOf(0)]
    BY <1>5, TimerGoes DEF Night!Lock
  <2>2. Night!DayOf(0) = work[0].day
    BY DEF Night!DayOf, ActorAssumption
  <2>3. work[0] \in Works /\ work \in [Actors -> Works]
    BY TimerTypes DEF NightTypes
  <2> QED
    BY <2>1, <2>2, <2>3, ActorsAre DEF Works
<1>6. GoesOn
  BY <1>1, <1>4, <1>5 DEF GoesOn, Working, PaidFor
<1> QED
  BY <1>2, <1>3, <1>6, Quiet

LEMMA ReadNight ==
    ASSUME ActorAssumption, NightTypes, NightTypes', OneNight, Night!Read(0)
    PROVE  OneNight'
<1>1. dreaming[0] = "reads" /\ day \in Nat
  BY DaysAre DEF NightTypes, Night!Read, Night!At
<1>2. KeepsTheBooks /\ stopping' = stopping
  BY <1>1 DEF Night!Read, KeepsTheBooks, Night!clock, Night!files, Night!history
<1>3. Awake' => Awake
  BY <1>1 DEF Awake, Working
<1>4. GoesOn
  <2>1. CASE Night!Returns(0)
    BY <1>1, <2>1, TimerGoes DEF GoesOn, Working, PaidFor
  <2>2. CASE /\ Night!Goto(0, "pays")
             /\ work' = [work EXCEPT ![0].seen = diary[work[0].day], ![0].ident = ident,
                                     ![0].prev = Night!LoadedSoul]
    <3>1. dreaming'[0] = "pays"
      BY <2>2, TimerGoes
    <3>2. work'[0] = [work[0] EXCEPT !.seen = diary[work[0].day], !.ident = ident,
                                     !.prev = Night!LoadedSoul]
      BY <2>2, ActorsAre DEF NightTypes
    <3>3. work'[0].seen = diary[work[0].day] /\ work'[0].day = work[0].day
      BY <3>2, TimerTypes DEF Works
    <3> QED
      BY <1>1, <3>1, <3>3 DEF GoesOn, Working, PaidFor
  <2> QED
    BY <2>1, <2>2 DEF Night!Read
<1> QED
  BY <1>2, <1>3, <1>4, Quiet

\* A night that is on its way to the soul.
LEMMA WriteNight ==
    ASSUME ActorAssumption, NightTypes, NightTypes', OneNight,
           Night!Copy(0) \/ Night!Archive(0) \/ Night!BackUp(0) \/ Night!WriteSoul(0)
    PROVE  OneNight'
<1>1. day \in Nat /\ 0 \notin Steers /\ work \in [Actors -> Works]
  BY DaysAre DEF NightTypes, ActorAssumption
<1>2. dreaming[0] \in {"copies", "archives", "saves", "writes"}
  BY DEF Night!Copy, Night!Archive, Night!BackUp, Night!WriteSoul, Night!Moves, Night!At
<1>3. Awake' => Awake
  BY <1>2 DEF Awake, Working
<1>4. CASE Night!Copy(0)
  <2>1. KeepsTheBooks
    BY <1>1, <1>4 DEF Night!Copy, KeepsTheBooks, Night!clock, Night!files, Night!history
  <2>2. dreaming'[0] \in {"writes", "archives"}
    BY <1>1, <1>4, TimerGoes DEF Night!Copy, Night!Moves, Night!AfterBackup
  <2>3. work'[0].day = work[0].day
    BY <1>1, <1>4, ActorsAre DEF Night!Copy, Works
  <2>4. GoesOn
    BY <1>2, <2>2, <2>3 DEF GoesOn, Working, PaidFor
  <2> QED
    BY <1>3, <2>1, <2>4, Quiet
<1>5. CASE Night!Archive(0) \/ Night!BackUp(0) \/ Night!WriteSoul(0)
  <2>1. KeepsTheBooks
    BY <1>1, <1>5 DEF Night!Archive, Night!BackUp, Night!WriteSoul, KeepsTheBooks, Night!clock,
                      Night!history
  <2>2. dreaming'[0] \in {"saves", "writes", "latches"} /\ work' = work
    BY <1>1, <1>5, TimerGoes
    DEF Night!Archive, Night!BackUp, Night!WriteSoul, Night!Moves, Night!AfterBackup
  <2>3. GoesOn
    BY <1>2, <2>2 DEF GoesOn, Working, PaidFor
  <2> QED
    BY <1>3, <2>1, <2>3, Quiet
<1> QED
  BY <1>4, <1>5

LEMMA WriteLogNight ==
    ASSUME ActorAssumption, NightTypes, NightTypes', OneNight, Night!WriteLog(0)
    PROVE  OneNight'
<1>1. day \in Nat /\ dreaming[0] = "logs" /\ logs \in [Days -> Int]
  BY DaysAre DEF NightTypes, Night!WriteLog, Night!Moves, Night!At
<1>2. dreaming'[0] \in {"latches", "refuses", "copies"}
  BY TimerGoes DEF Night!WriteLog, Night!Moves
<1>3. UNCHANGED <<day, timer, diary, work, paid, done, stopping>>
      /\ logs' = [logs EXCEPT ![work[0].day] = work[0].seen]
  BY DEF Night!WriteLog, Night!clock, Night!history
<1>4. work[0].day \in Days /\ Tonight(work[0].day) /\ timer.failures < 3
      /\ work[0].seen = diary[work[0].day]
  BY <1>1 DEF OneNight, OnDuty, AsRead, Working
<1>5. work[0].day < day
  BY <1>4, TodayAhead DEF OneNight
<1>6. Whole'
  BY <1>1, <1>3, <1>4, <1>5 DEF OneNight, Whole
<1>7. Unpaid' /\ Within'
  BY <1>3 DEF OneNight, Unpaid, Within
<1>8. OnDuty' /\ AsRead'
  BY <1>2, <1>3, <1>4 DEF OnDuty, AsRead, Tonight
<1>9. Awake /\ Fee = 1 /\ Fee' = 1 /\ dreaming[0] # "returns"
  BY <1>1, <1>2 DEF Awake, Working, Fee, PaidFor
<1>10. Priced' /\ NotYet'
  <2>1. \A d \in Days : Tonight(d)' => Tonight(d)
    BY <1>3 DEF Tonight
  <2> QED
    BY <1>3, <1>9, <2>1 DEF OneNight, Priced, NotYet
<1> QED
  BY <1>6, <1>7, <1>8, <1>10 DEF OneNight

LEMMA BillNight ==
    ASSUME ActorAssumption, NightTypes, OneNight, dreaming[0] = "pays",
           paid' = [paid EXCEPT ![work[0].day] = @ + 1], done' = done, day' = day,
           timer'.failDay = timer.failDay
    PROVE  /\ Unpaid' /\ Within' /\ work[0].day \in Days /\ Tonight(work[0].day)
           /\ paid[work[0].day] <= timer.failures /\ timer.failures < 3
<1>1. work[0].day \in Days /\ Tonight(work[0].day) /\ timer.failures < 3
  BY DEF OneNight, OnDuty, Working
<1>2. Fee = 0 /\ Awake
  BY DEF Fee, PaidFor, Awake, Working
<1>3. paid[work[0].day] <= timer.failures
  BY <1>1, <1>2, TimerTypes DEF OneNight, Priced
<1>4. \A d \in Days : paid'[d] = IF d = work[0].day THEN paid[d] + 1 ELSE paid[d]
  BY <1>1 DEF NightTypes
<1>5. Unpaid'
  <2>1. work[0].day < timer.failDay
    BY <1>1, TimerTypes DEF Tonight
  <2> QED
    BY <1>4, <2>1, TimerTypes DEF OneNight, Unpaid
<1>6. Within'
  BY <1>1, <1>3, <1>4, TimerTypes DEF OneNight, Within
<1> QED
  BY <1>1, <1>3, <1>5, <1>6

LEMMA PayNight ==
    ASSUME ActorAssumption, NightTypes, NightTypes', OneNight, Night!Pay(0)
    PROVE  OneNight'
<1>1. dreaming[0] = "pays" /\ paid' = [paid EXCEPT ![work[0].day] = @ + 1]
      /\ UNCHANGED <<day, timer, diary, logs, done, stopping>>
  BY DEF Night!Pay, Night!At, Night!clock, Night!files
<1>2. /\ Unpaid' /\ Within' /\ work[0].day \in Days /\ Tonight(work[0].day)
      /\ paid[work[0].day] <= timer.failures /\ timer.failures < 3
  BY <1>1, BillNight
<1>3. Whole'
  BY <1>1 DEF OneNight, Whole
<1>4. \A d : Tonight(d)' <=> Tonight(d)
  BY <1>1 DEF Tonight
<1>5. NotYet'
  BY <1>1, <1>4 DEF OneNight, NotYet
<1>6. CASE Night!Ends(0) /\ stopping
  <2>1. dreaming'[0] = "idle"
    BY <1>6, TimerGoes
  <2>2. ~Awake'
    <3>1. dreaming'[0] \notin Working
      BY <2>1 DEF Working
    <3> QED
      BY <1>1, <1>6, <3>1, Zenon DEF Awake
  <2>3. OnDuty' /\ AsRead' /\ Priced'
    BY <2>1, <2>2 DEF OnDuty, AsRead, Priced, Working
  <2> QED
    BY <1>2, <1>3, <1>5, <2>3 DEF OneNight
<1>7. CASE Night!Goto(0, "logs")
           /\ \E draft \in {"good", "same", "empty", "bad"} :
                  work' = [work EXCEPT ![0].draft = draft]
  <2>1. dreaming'[0] = "logs"
    BY <1>7, TimerGoes
  <2>2. work'[0].day = work[0].day /\ work'[0].seen = work[0].seen
    BY <1>7, ActorsAre DEF NightTypes, Works
  <2>3. OnDuty'
    BY <1>1, <1>2, <2>2 DEF OnDuty, Tonight
  <2>4. AsRead'
    BY <1>1, <2>2 DEF OneNight, AsRead
  <2>5. Fee' = 1
    BY <2>1 DEF Fee, PaidFor, Working
  <2>6. Priced'
    <3> SUFFICES ASSUME NEW d \in Days, Tonight(d)' PROVE paid'[d] <= timer'.failures + Fee'
      BY DEF Priced
    <3>1. d = work[0].day
      BY <1>2, <1>4, TimerTypes DEF Tonight
    <3>2. paid'[d] = paid[d] + 1
      BY <1>1, <3>1 DEF NightTypes
    <3> QED
      BY <1>1, <1>2, <2>5, <3>1, <3>2, TimerTypes
  <2> QED
    BY <1>2, <1>3, <1>5, <2>3, <2>4, <2>6 DEF OneNight
<1> QED
  BY <1>6, <1>7 DEF Night!Pay

\* A failure is counted against the night it was paid for.
LEMMA FailureNight ==
    ASSUME ActorAssumption, NightTypes, NightTypes', OneNight, Night!CallFails(0) \/ Night!Refuse(0)
    PROVE  OneNight'
<1>1. /\ dreaming'[0] = "idle" /\ UNCHANGED <<day, diary, logs, done, stopping>>
      /\ timer' = [timer EXCEPT !.failures = timer.failures + 1, !.waits = TRUE]
  <2>1. Night!Failed(0)
    BY DEF Night!CallFails, Night!Refuse
  <2>2. timer' = [timer EXCEPT !.failures = timer.failures + 1, !.waits = TRUE]
    BY <2>1 DEF Night!Failed
  <2> QED
    BY <2>1, <2>2, TimerGoes
    DEF Night!CallFails, Night!Refuse, Night!Failed, Night!clock, Night!files, Night!history
<1>2. timer'.failDay = timer.failDay /\ timer'.last = timer.last
      /\ timer'.failures = timer.failures + 1
  BY <1>1 DEF NightTypes, Timers
<1>3. \A d : Tonight(d)' <=> Tonight(d)
  BY <1>2 DEF Tonight
<1>4. Whole' /\ NotYet' /\ OnDuty' /\ AsRead' /\ Fee' = 0
  <2>1. dreaming[0] # "returns"
    BY DEF Night!CallFails, Night!Refuse, Night!At
  <2>2. Whole' /\ NotYet'
    BY <1>1, <1>3, <2>1 DEF OneNight, Whole, NotYet
  <2> QED
    BY <1>1, <2>2 DEF OnDuty, AsRead, Fee, Working, PaidFor
<1>5. CASE Night!CallFails(0)
  <2>1. dreaming[0] = "pays" /\ paid' = [paid EXCEPT ![work[0].day] = @ + 1]
    BY <1>5 DEF Night!CallFails, Night!At
  <2>2. /\ Unpaid' /\ Within' /\ work[0].day \in Days /\ Tonight(work[0].day)
        /\ paid[work[0].day] <= timer.failures
    BY <1>1, <1>2, <2>1, BillNight
  <2>3. Priced'
    <3> SUFFICES ASSUME NEW d \in Days, Tonight(d)' PROVE paid'[d] <= timer'.failures + Fee'
      BY DEF Priced
    <3>1. d = work[0].day
      BY <1>3, <2>2, TimerTypes DEF Tonight
    <3>2. paid'[d] = paid[d] + 1
      BY <2>1, <3>1 DEF NightTypes
    <3> QED
      BY <1>2, <1>4, <2>2, <3>1, <3>2, TimerTypes
  <2> QED
    BY <1>4, <2>2, <2>3 DEF OneNight
<1>6. CASE Night!Refuse(0)
  <2>1. paid' = paid /\ dreaming[0] = "refuses"
    BY <1>6 DEF Night!Refuse, Night!At, Night!history
  <2>2. Unpaid' /\ Within'
    BY <1>1, <1>2, <2>1 DEF OneNight, Unpaid, Within
  <2>3. Fee = 1 /\ Awake
    BY <2>1 DEF Fee, PaidFor, Working, Awake
  <2>4. Priced'
    BY <1>2, <1>3, <1>4, <2>1, <2>3, TimerTypes DEF OneNight, Priced
  <2> QED
    BY <1>4, <2>2, <2>4 DEF OneNight
<1> QED
  BY <1>5, <1>6

LEMMA AppliedNight ==
    ASSUME ActorAssumption, NightTypes, NightTypes', OneNight, Night!Applied(0)
    PROVE  OneNight'
<1>1. /\ dreaming[0] = "latches" /\ dreaming'[0] = "returns" /\ work' = work
      /\ UNCHANGED <<day, diary, logs, paid, stopping, timer>>
      /\ done' = [done EXCEPT ![work[0].day] = @ + 1]
  BY TimerGoes DEF Night!Applied, Night!At, Night!clock, Night!files, ActorAssumption
<1>2. work[0].day \in Days /\ Tonight(work[0].day) /\ timer.failures < 3
  BY <1>1 DEF OneNight, OnDuty, Working
<1>3. done[work[0].day] = 0
  BY <1>1, <1>2 DEF OneNight, NotYet
<1>4. \A d \in Days : done'[d] = IF d = work[0].day THEN done[d] + 1 ELSE done[d]
  BY <1>1, <1>2 DEF NightTypes
<1>5. Unpaid'
  <2>1. work[0].day < timer.failDay
    BY <1>2, TimerTypes DEF Tonight
  <2> QED
    BY <1>1, <1>4, <2>1, TimerTypes DEF OneNight, Unpaid
<1>6. Within'
  BY <1>1, <1>3, <1>4, TimerTypes DEF OneNight, Within
<1>7. OnDuty' /\ AsRead' /\ NotYet' /\ Whole'
  BY <1>1, <1>2 DEF OneNight, OnDuty, AsRead, NotYet, Whole, Tonight
<1>8. Fee = 1 /\ Fee' = 1 /\ Awake
  BY <1>1 DEF Fee, PaidFor, Working, Awake
<1>9. Priced'
  BY <1>1, <1>8 DEF OneNight, Priced, Tonight
<1> QED
  BY <1>5, <1>6, <1>7, <1>9 DEF OneNight

LEMMA LatchNight ==
    ASSUME ActorAssumption, NightTypes, NightTypes', OneNight, Night!Latch
    PROVE  OneNight'
<1>1. /\ dreaming[0] = "returns" /\ dreaming'[0] = "idle"
      /\ UNCHANGED <<day, diary, logs, paid, done, stopping>>
      /\ timer' = [timer EXCEPT !.last = work[0].day, !.failures = 0]
  BY TimerGoes DEF Night!Latch, Night!At, Night!clock, Night!files, Night!history
<1>2. work[0].day \in Days /\ Tonight(work[0].day)
  BY <1>1 DEF OneNight, OnDuty, Working
<1>3. timer'.last = work[0].day /\ timer'.failDay = timer.failDay
  BY <1>1 DEF NightTypes, Timers
<1>4. Unpaid' /\ Within' /\ Whole'
  BY <1>1, <1>3 DEF OneNight, Unpaid, Within, Whole
<1>5. OnDuty' /\ AsRead'
  BY <1>1 DEF OnDuty, AsRead, Working
<1>6. \A d \in Days : ~Tonight(d)'
  BY <1>2, <1>3, TimerTypes DEF Tonight
<1>7. Priced' /\ NotYet'
  BY <1>6 DEF Priced, NotYet
<1> QED
  BY <1>4, <1>5, <1>7 DEF OneNight

LEMMA OneNightStep ==
    ASSUME ActorAssumption, Manuals = {}, NightTypes, NightTypes', OneNight,
           [Night!Next]_(Night!vars)
    PROVE  OneNight'
<1>1. CASE UNCHANGED Night!vars
  <2>1. day \in Nat
    BY DaysAre DEF NightTypes
  <2>2. KeepsTheBooks /\ dreaming' = dreaming /\ work' = work /\ stopping' = stopping
    BY <1>1, <2>1 DEF KeepsTheBooks, Night!vars, Night!clock, Night!files, Night!history
  <2> QED
    BY <2>2, TimerIdle
<1>2. ASSUME Turn(0) PROVE OneNight'
  <2>1. 0 \notin Manuals /\ 0 \notin Steers
    BY DEF ActorAssumption
  <2> QED
    BY <1>2, <2>1, TickNight, LockNight, ReadNight, PayNight, FailureNight, WriteLogNight,
       WriteNight, AppliedNight, LatchNight, Zenon DEF Turn
<1>3. ASSUME NEW a \in Actors, Turn(a) PROVE OneNight'
  BY <1>2, <1>3, SteeredNight
<1> QED
  BY <1>1, <1>3, PassingNight, MishapNight, NightMoves

LEMMA OneNightInit == ASSUME ActorAssumption, Night!Init PROVE OneNight /\ Dated
<1>1. /\ day = 1 /\ timer = Night!NoTimer /\ logs = [d \in Days |-> -1]
      /\ paid = [d \in Days |-> 0] /\ done = [d \in Days |-> 0]
  BY DEF Night!Init, Days
<1>2. \A a \in Actors : dreaming[a] = "idle"
  BY DEF Night!Init, Actors
<1>3. timer.failDay = 0 /\ timer.last = 0 /\ timer.failures = 0
  BY <1>1 DEF Night!NoTimer
<1>4. Dated /\ OnDuty /\ AsRead
  BY <1>2, ActorsAre DEF Dated, OnDuty, AsRead, Working
<1>5. Unpaid /\ Within /\ NotYet /\ Whole
  BY <1>1, <1>3 DEF Unpaid, Within, NotYet, Whole
<1>6. Priced
  BY <1>1, <1>3 DEF Priced, Fee
<1> QED
  BY <1>4, <1>5, <1>6 DEF OneNight

\* With no dream asked for by hand, for any steers and however often the process restarts: the
\* model is paid for a day's dream three times at most by one process, a day's dream is applied
\* once, and a daily log is of the whole day it is named for (PaidPerNight, AppliedOnce and
\* NightIsWhole of Dreams; _dream_tick and run_dream of rau/dream/dreamer.py).
THEOREM TheNightIsPaidOnce ==
    ASSUME ActorAssumption, Manuals = {}
    PROVE  Night!Spec => [](Night!PaidPerNight /\ Night!AppliedOnce /\ Night!NightIsWhole)
<1>1. Night!Init => NightTypes /\ Dated /\ OneNight
  BY NightTypesInit, OneNightInit
<1>2. NightTypes /\ Dated /\ OneNight /\ [Night!Next]_(Night!vars)
        => (NightTypes /\ Dated /\ OneNight)'
  BY NightTypesStep, DatedStep, OneNightStep
<1>3. NightTypes /\ Dated /\ OneNight
        => Night!PaidPerNight /\ Night!AppliedOnce /\ Night!NightIsWhole
  BY DEF OneNight, Within, Whole, Night!PaidPerNight, Night!AppliedOnce, Night!NightIsWhole, Days
<1> QED
  BY <1>1, <1>2, <1>3, PTL DEF Night!Spec

\* The soul, its backups and the sources it is made from.
Section == {"reads", "pays", "logs", "refuses", "copies", "archives", "saves", "sources", "writes",
            "latches"}
AtRest == {"idle", "done"}
Alone ==
    \A a \in Actors : dreaming[a] \in Section
        => \A b \in Actors : dreaming[b] \in Section => a = b
Keyed == \A a \in Night!Dreamers : dreaming[a] \in Section => runLock
OneSteer ==
    \A s \in Steers : dreaming[s] \notin AtRest => \A b \in Actors \ {s} : dreaming[b] \in AtRest
Distinct ==
    /\ \A s \in Steers : dreaming[s] \notin {"locks", "returns"}
    /\ \A a \in Night!Dreamers : dreaming[a] # "sources"
InTurn == Alone /\ Keyed /\ OneSteer /\ Distinct

\* Where a turn takes its actor.
Starts(a) ==
    /\ dreaming[a] = "idle" /\ Night!MayStart(a) /\ runLock' = runLock
    /\ \/ dreaming'[a] = "idle"
       \/ a \in Night!Dreamers /\ dreaming'[a] = "locks"
       \/ a \in Steers /\ dreaming'[a] = "copies"
TakesTheLock(a) ==
    /\ a \in Night!Dreamers /\ dreaming[a] = "locks"
    /\ \/ dreaming'[a] \in AtRest /\ runLock' = runLock
       \/ dreaming'[a] = "reads" /\ ~runLock /\ runLock'
Continues(a) ==
    /\ dreaming[a] \in Section /\ dreaming'[a] \in Section /\ runLock' = runLock
    /\ dreaming'[a] = "sources" => a \in Steers
Finishes(a) ==
    /\ dreaming[a] \in Section
    /\ \/ dreaming'[a] \in AtRest
       \/ a = 0 /\ dreaming'[a] = "returns"
Course(a) ==
    Starts(a) \/ TakesTheLock(a) \/ Continues(a) \/ Finishes(a)
    \/ (dreaming[a] = "returns" /\ dreaming'[a] = "idle" /\ runLock' = runLock)

LEMMA PlaceOf ==
    ASSUME NightTypes, NEW a \in Actors
    PROVE  /\ \A p : Night!Goto(a, p) => dreaming'[a] = p
           /\ Night!Ends(a) => dreaming'[a] \in AtRest /\ work' = [work EXCEPT ![a] = Night!NoWork]
           /\ Night!Returns(a) => \/ dreaming'[a] \in AtRest
                                  \/ a = 0 /\ dreaming'[a] = "returns"
<1>1. dreaming \in [Actors -> Places]
  BY DEF NightTypes
<1>2. \A p : Night!Goto(a, p) => dreaming'[a] = p
  BY <1>1 DEF Night!Goto
<1>3. Night!Ends(a) => dreaming'[a] \in AtRest /\ work' = [work EXCEPT ![a] = Night!NoWork]
  BY <1>2 DEF Night!Ends, AtRest
<1> QED
  BY <1>2, <1>3 DEF Night!Returns

LEMMA Courses ==
    ASSUME ActorAssumption, NightTypes, NEW a \in Actors, Turn(a)
    PROVE  Course(a)
<1>1. CASE Night!Ask(a) /\ a \in Manuals
  BY <1>1, PlaceOf, ActorsAre, Zenon
  DEF Night!Ask, Night!MayStart, Night!At, Night!clock, Night!files, Course, Starts, Night!Dreamers
<1>2. CASE a \in Night!Dreamers /\ Night!Lock(a)
  <2>1. dreaming[a] = "locks"
    BY <1>2 DEF Night!Lock, Night!At
  <2>2. CASE runLock \/ stopping
    BY <1>2, <2>1, <2>2, PlaceOf, Zenon DEF Night!Lock, Course, TakesTheLock
  <2>3. CASE ~(runLock \/ stopping)
    BY <1>2, <2>1, <2>3, PlaceOf, Zenon DEF Night!Lock, Course, TakesTheLock
  <2> QED
    BY <2>2, <2>3
<1>3. CASE Night!Read(a)
  <2>1. dreaming[a] = "reads"
    BY <1>3 DEF Night!Read, Night!At
  <2>2. CASE Night!Returns(a)
    BY <2>1, <2>2, PlaceOf DEF Course, Finishes, Section
  <2>3. CASE Night!Goto(a, "pays") /\ runLock' = runLock
    BY <2>1, <2>3, PlaceOf DEF Course, Continues, Section
  <2> QED
    BY <1>3, <2>2, <2>3 DEF Night!Read
<1>4. CASE Night!Pay(a)
  <2>1. dreaming[a] = "pays"
    BY <1>4 DEF Night!Pay, Night!At
  <2>2. CASE Night!Ends(a)
    BY <2>1, <2>2, PlaceOf DEF Course, Finishes, Section
  <2>3. CASE Night!Goto(a, "logs") /\ runLock' = runLock
    BY <2>1, <2>3, PlaceOf DEF Course, Continues, Section
  <2> QED
    BY <1>4, <2>2, <2>3 DEF Night!Pay
<1>5. CASE Night!CallFails(a) \/ Night!Refuse(a)
  <2>1. dreaming[a] \in Section
    BY <1>5 DEF Night!CallFails, Night!Refuse, Night!At, Section
  <2> QED
    BY <1>5, <2>1, PlaceOf DEF Night!CallFails, Night!Refuse, Night!Failed, Course, Finishes
<1>6. CASE Night!WriteLog(a)
  <2>1. dreaming[a] = "logs" /\ runLock' = runLock
    BY <1>6 DEF Night!WriteLog, Night!Moves, Night!At
  <2>2. dreaming'[a] \in {"latches", "refuses", "copies"}
    BY <1>6, PlaceOf DEF Night!WriteLog, Night!Moves
  <2> QED
    BY <2>1, <2>2 DEF Course, Continues, Section
<1>7. CASE Night!Applied(a)
  BY <1>7, PlaceOf DEF Night!Applied, Night!At, Course, Finishes, Section
<1>8. CASE Night!Copy(a) \/ Night!Archive(a) \/ Night!BackUp(a)
  <2>1. dreaming[a] \in {"copies", "archives", "saves"} /\ runLock' = runLock
    BY <1>8 DEF Night!Copy, Night!Archive, Night!BackUp, Night!Moves, Night!At
  <2>2. (Night!AfterBackup(a) = "sources" /\ a \in Steers) \/ Night!AfterBackup(a) = "writes"
    BY DEF Night!AfterBackup
  <2>3. dreaming'[a] \in {"archives", "saves", "writes"} \/ (dreaming'[a] = "sources" /\ a \in Steers)
    BY <1>8, <2>2, PlaceOf DEF Night!Copy, Night!Archive, Night!BackUp, Night!Moves
  <2> QED
    BY <2>1, <2>3 DEF Course, Continues, Section
<1>9. CASE Night!WriteSoul(a)
  <2>1. dreaming[a] = "writes" /\ runLock' = runLock
    BY <1>9 DEF Night!WriteSoul, Night!At
  <2>2. CASE Night!Ends(a)
    BY <2>1, <2>2, PlaceOf DEF Course, Finishes, Section
  <2>3. CASE Night!Goto(a, "latches")
    BY <2>1, <2>3, PlaceOf DEF Course, Continues, Section
  <2> QED
    BY <1>9, <2>2, <2>3 DEF Night!WriteSoul
<1>10. CASE a \in Steers /\ Night!Steer(a)
  BY <1>10, PlaceOf, Zenon DEF Night!Steer, Night!MayStart, Night!At, Course, Starts
<1>11. CASE a \in Steers /\ Night!WriteSources(a)
  <2>1. dreaming[a] = "sources" /\ dreaming'[a] = "writes" /\ runLock' = runLock
    BY <1>11, PlaceOf DEF Night!WriteSources, Night!Moves, Night!At
  <2> QED
    BY <2>1 DEF Course, Continues, Section
<1>12. CASE a = 0 /\ Night!Latch
  <2>1. dreaming[a] = "returns" /\ dreaming'[a] = "idle" /\ runLock' = runLock
    BY <1>12, TimerGoes DEF Night!Latch, Night!At
  <2> QED
    BY <2>1 DEF Course
<1>13. CASE a = 0 /\ Night!Tick
  <2>1. dreaming[a] = "idle" /\ Night!MayStart(a) /\ runLock' = runLock
    BY <1>13, TickDoes
  <2>2. dreaming'[a] \in {"idle", "locks"}
    BY <1>13, <2>1, TickDoes, TimerGoes
  <2> QED
    BY <1>13, <2>1, <2>2, ActorsAre DEF Course, Starts
<1> QED
  BY <1>1, <1>2, <1>3, <1>4, <1>5, <1>6, <1>7, <1>8, <1>9, <1>10, <1>11, <1>12, <1>13, Zenon DEF Turn

LEMMA InTurnStands ==
    ASSUME InTurn, dreaming' = dreaming, runLock' = runLock
    PROVE  InTurn'
<1>1. Alone' /\ OneSteer' /\ Distinct'
  BY DEF InTurn, Alone, OneSteer, Distinct
<1>2. Keyed'
  BY Zenon DEF InTurn, Keyed
<1> QED
  BY <1>1, <1>2 DEF InTurn

\* Who starts finds no steer under way, and a steer finds nobody at work.
LEMMA MayStartSays ==
    ASSUME Apart = TRUE, NEW a \in Actors, Night!MayStart(a), NEW b \in Actors,
           a \in Steers \/ b \in Steers
    PROVE  dreaming[b] \in AtRest
BY DEF Night!MayStart, Night!Idle, Actors, AtRest

LEMMA EntersAlone ==
    ASSUME ActorAssumption, Apart = TRUE, InTurn, NEW a \in Actors, Course(a),
           dreaming[a] \notin Section, dreaming'[a] \in Section
    PROVE  \A b \in Actors : dreaming[b] \notin Section
<1>1. CASE Starts(a)
  <2>1. a \in Steers /\ Night!MayStart(a)
    BY <1>1 DEF Starts, Section
  <2> QED
    BY <2>1, MayStartSays DEF AtRest, Section
<1>2. CASE TakesTheLock(a)
  <2>1. a \in Night!Dreamers /\ dreaming[a] = "locks" /\ ~runLock
    BY <1>2 DEF TakesTheLock, AtRest, Section
  <2>2. \A b \in Night!Dreamers : dreaming[b] \notin Section
    BY <2>1, Zenon DEF InTurn, Keyed
  <2>3. \A s \in Steers : dreaming[s] \in AtRest
    <3> SUFFICES ASSUME NEW s \in Steers, dreaming[s] \notin AtRest PROVE FALSE
      OBVIOUS
    <3>1. a # s
      BY <2>1 DEF InTurn, Distinct
    <3> QED
      BY <2>1, <3>1 DEF InTurn, OneSteer, AtRest
  <2> QED
    BY <2>2, <2>3, ActorsAre DEF AtRest, Section
<1>3. CASE Continues(a) \/ Finishes(a) \/ (dreaming[a] = "returns" /\ dreaming'[a] = "idle")
  BY <1>3 DEF Continues, Finishes, Section
<1> QED
  BY <1>1, <1>2, <1>3 DEF Course

LEMMA InTurnMoves ==
    ASSUME ActorAssumption, NightTypes, Apart = TRUE, InTurn, NEW a \in Actors, Turn(a)
    PROVE  InTurn'
<1>1. Course(a)
  BY Courses
<1>2. \A b \in Actors \ {a} : dreaming'[b] = dreaming[b]
  BY OthersStand
<1>3. ASSUME dreaming'[a] \in Section PROVE \A b \in Actors \ {a} : dreaming[b] \notin Section
  <2>1. CASE dreaming[a] \in Section
    BY <2>1 DEF InTurn, Alone
  <2>2. CASE dreaming[a] \notin Section
    BY <1>1, <1>3, <2>2, EntersAlone
  <2> QED
    BY <2>1, <2>2
<1>4. Alone'
  <2> SUFFICES ASSUME NEW b \in Actors, NEW c \in Actors,
                      dreaming'[b] \in Section, dreaming'[c] \in Section
               PROVE  b = c
    BY DEF Alone
  <2>1. CASE b # a /\ c # a
    BY <1>2, <2>1 DEF InTurn, Alone
  <2>2. CASE b = a \/ c = a
    BY <1>2, <1>3, <2>2
  <2> QED
    BY <2>1, <2>2
<1>5. Keyed'
  <2> SUFFICES ASSUME NEW b \in Night!Dreamers, dreaming'[b] \in Section PROVE runLock'
    BY DEF Keyed
  <2>1. CASE b = a
    <3>1. ~Finishes(a) /\ ~(dreaming[a] = "returns" /\ dreaming'[a] = "idle")
      BY <2>1 DEF Finishes, AtRest, Section
    <3>2. CASE Starts(a)
      <4>1. dreaming'[a] \notin Section
        BY <2>1, <3>2, ActorsAre DEF Starts, Section, ActorAssumption
      <4> QED
        BY <2>1, <4>1
    <3>3. CASE TakesTheLock(a)
      <4>1. dreaming'[a] \notin AtRest
        BY <2>1 DEF AtRest, Section
      <4> QED
        BY <3>3, <4>1, Zenon DEF TakesTheLock
    <3>4. CASE Continues(a)
      BY <2>1, <3>4, Zenon DEF Continues, InTurn, Keyed
    <3> QED
      BY <1>1, <3>1, <3>2, <3>3, <3>4, Zenon DEF Course
  <2>2. CASE b # a
    <3>1. dreaming[b] \in Section /\ b \in Actors
      BY <1>2, <2>2, ActorsAre
    <3>2. dreaming[a] \notin Section /\ dreaming'[a] \notin Section
      BY <1>3, <2>2, <3>1 DEF InTurn, Alone
    <3>3. runLock
      BY <3>1, Zenon DEF InTurn, Keyed
    <3>4. ~Continues(a) /\ ~Finishes(a)
      BY <3>2 DEF Continues, Finishes
    <3>5. CASE TakesTheLock(a)
      BY <3>3, <3>5, Zenon DEF TakesTheLock
    <3>6. CASE Starts(a)
      BY <3>3, <3>6, Zenon DEF Starts
    <3> QED
      BY <1>1, <3>3, <3>4, <3>5, <3>6, Zenon DEF Course
  <2> QED
    BY <2>1, <2>2
<1>6. OneSteer'
  <2> SUFFICES ASSUME NEW s \in Steers, dreaming'[s] \notin AtRest, NEW b \in Actors \ {s}
               PROVE  dreaming'[b] \in AtRest
    BY DEF OneSteer
  <2>0. s \in Actors
    BY ActorsAre
  <2>1. ASSUME dreaming[a] \in AtRest, dreaming'[a] \notin AtRest PROVE Night!MayStart(a)
    BY <1>1, <2>1 DEF Course, Starts, TakesTheLock, Continues, Finishes, AtRest, Section
  <2>2. CASE s # a /\ b # a
    BY <1>2, <2>0, <2>2 DEF InTurn, OneSteer
  <2>3. CASE s = a
    <3>1. dreaming[b] \in AtRest
      BY <2>0, <2>1, <2>3, MayStartSays DEF InTurn, OneSteer
    <3> QED
      BY <1>2, <2>3, <3>1
  <2>4. CASE b = a
    <3>1. dreaming[s] \notin AtRest
      BY <1>2, <2>0, <2>4
    <3>2. dreaming[a] \in AtRest
      BY <2>4, <3>1 DEF InTurn, OneSteer
    <3> QED
      BY <2>0, <2>1, <2>4, <3>1, <3>2, MayStartSays
  <2> QED
    BY <2>2, <2>3, <2>4
<1>7. Distinct'
  <2>1. ASSUME a \in Steers PROVE dreaming'[a] \notin {"locks", "returns"}
    <3>1. a \notin Night!Dreamers /\ a # 0
      BY <2>1, ActorsAre DEF ActorAssumption
    <3> QED
      BY <1>1, <2>1, <3>1 DEF Course, Starts, TakesTheLock, Continues, Finishes, AtRest, Section
  <2>2. ASSUME a \in Night!Dreamers PROVE dreaming'[a] # "sources"
    <3>1. a \notin Steers
      BY <2>2, ActorsAre DEF ActorAssumption
    <3> QED
      BY <1>1, <2>2, <3>1 DEF Course, Starts, TakesTheLock, Continues, Finishes, AtRest, Section
  <2> QED
    BY <1>2, <2>1, <2>2, ActorsAre DEF InTurn, Distinct
<1> QED
  BY <1>4, <1>5, <1>6, <1>7 DEF InTurn

LEMMA RestartRests ==
    ASSUME ActorAssumption, Night!Restart
    PROVE  \A a \in Actors : dreaming'[a] \in AtRest
BY DEF Night!Restart, Actors, AtRest

LEMMA InTurnStep ==
    ASSUME ActorAssumption, NightTypes, Apart = TRUE, InTurn, [Night!Next]_(Night!vars)
    PROVE  InTurn'
<1>1. CASE UNCHANGED Night!vars
  BY <1>1, InTurnStands DEF Night!vars
<1>2. CASE Passing
  <2>1. dreaming' = dreaming /\ runLock' = runLock
    BY <1>2 DEF Passing, Night!Midnight, Night!Window, Night!AppendDiary, Night!RetryIsDue
  <2> QED
    BY <2>1, InTurnStands
<1>3. CASE Night!Spoil \/ Night!StopDreamer
  <2>1. dreaming' = dreaming /\ runLock' = runLock
    BY <1>3 DEF Night!Spoil, Night!StopDreamer
  <2> QED
    BY <2>1, InTurnStands
<1>4. CASE Night!Restart
  BY <1>4, RestartRests, ActorsAre DEF InTurn, Alone, Keyed, OneSteer, Distinct, AtRest, Section
<1> QED
  BY <1>1, <1>2, <1>3, <1>4, InTurnMoves, NightMoves DEF Mishap

SoulsStand == \A s \in 2..Len(madeFrom) : s = soul \/ s \in archive \/ s \in past.spoiled
Sound == past.spoiled = {} /\ ~past.half
InForce ==
    soul \notin {0, 1} /\ Sound /\ (\A s \in Steers : dreaming[s] # "writes")
        => madeFrom[soul] = ident
Backed ==
    archive # {}
        => \/ bak # 0 \/ past.faults >= 2 \/ (soul # 0 /\ past.faults >= 1)
           \/ \E a \in Actors : dreaming[a] = "saves"
Unspoilt == soul = 0 /\ past.spoiled = {} => bak = 0
Blamed == past.spoiled # {} => past.faults >= 1

\* What is held of the soul is the soul that is in force, unless it was spoiled since.
CopyIsOf(a) ==
    dreaming[a] \in {"archives", "saves"}
        => work[a].copy # 0 /\ (soul = work[a].copy \/ (soul = 0 /\ past.spoiled # {}))
IsArchived(a) ==
    dreaming[a] \in {"saves", "sources", "writes"} => soul = 0 \/ soul \in archive
AfterRead == {"pays", "logs", "refuses", "copies", "archives", "saves", "writes"}
DreamsOf(a) ==
    a \in Night!Dreamers /\ dreaming[a] \in AfterRead
        => /\ work[a].ident = ident /\ work[a].prev # 0
           /\ \/ work[a].prev = soul
              \/ soul = 0 /\ (work[a].prev = 1 \/ past.spoiled # {})
SteersBy(a) ==
    a \in Steers /\ dreaming[a] = "writes" => work[a].ident = ident /\ work[a].draft = "good"
Holds(a) == CopyIsOf(a) /\ IsArchived(a) /\ DreamsOf(a) /\ SteersBy(a)

SoulKept == SoulsStand /\ InForce /\ Backed /\ Unspoilt /\ Blamed /\ \A a \in Actors : Holds(a)

LEMMA FaultCount == ASSUME NightTypes PROVE past.faults \in Nat
BY DEF NightTypes, Mishaps

LEMMA OutsideHolds ==
    ASSUME NEW a \in Actors, dreaming'[a] \notin Section
    PROVE  Holds(a)'
BY DEF Holds, CopyIsOf, IsArchived, DreamsOf, SteersBy, Section, AfterRead

\* What an actor holds is not disturbed by another's turn.
OnDisk == <<soul, bak, archive, ident, madeFrom, past>>

LEMMA Bystanders ==
    ASSUME ActorAssumption, NightTypes, InTurn, SoulKept, NEW a \in Actors, Turn(a),
           dreaming[a] \in Section \/ UNCHANGED OnDisk
    PROVE  \A b \in Actors \ {a} : Holds(b)'
<1> SUFFICES ASSUME NEW b \in Actors \ {a} PROVE Holds(b)'
  OBVIOUS
<1>1. dreaming'[b] = dreaming[b] /\ work'[b] = work[b]
  BY OthersStand
<1>2. CASE dreaming[a] \in Section
  <2>1. dreaming[b] \notin Section
    BY <1>2 DEF InTurn, Alone
  <2> QED
    BY <1>1, <2>1, OutsideHolds
<1>3. CASE UNCHANGED OnDisk
  BY <1>1, <1>3
  DEF SoulKept, Holds, CopyIsOf, IsArchived, DreamsOf, SteersBy, OnDisk
<1> QED
  BY <1>2, <1>3

\* A turn that writes nothing of the soul.
LEMMA KeptTurn ==
    ASSUME ActorAssumption, NightTypes, InTurn, SoulKept, NEW a \in Actors, Turn(a),
           UNCHANGED OnDisk, dreaming[a] \notin {"saves", "writes"}, Holds(a)'
    PROVE  SoulKept'
<1>1. \A b \in Actors : Holds(b)'
  BY Bystanders
<1>2. \A b \in Actors \ {a} : dreaming'[b] = dreaming[b]
  BY OthersStand
<1>3. SoulsStand' /\ Unspoilt' /\ Blamed'
  BY DEF SoulKept, SoulsStand, Unspoilt, Blamed, OnDisk
<1>4. Sound' <=> Sound
  BY Zenon DEF Sound, OnDisk
<1>5. (\A s \in Steers : dreaming'[s] # "writes") => \A s \in Steers : dreaming[s] # "writes"
  BY <1>2, ActorsAre
<1>6. InForce'
  BY <1>4, <1>5 DEF SoulKept, InForce, OnDisk
<1>7. (\E b \in Actors : dreaming[b] = "saves") => \E b \in Actors : dreaming'[b] = "saves"
  BY <1>2
<1>8. Backed'
  BY <1>7 DEF SoulKept, Backed, OnDisk
<1> QED
  BY <1>1, <1>3, <1>6, <1>8 DEF SoulKept

LEMMA QuietKept ==
    ASSUME ActorAssumption, NightTypes, InTurn, SoulKept, NEW a \in Actors, Turn(a),
           \/ a \in Manuals /\ Night!Ask(a)
           \/ Night!Lock(a) \/ Night!CallFails(a) \/ Night!Refuse(a) \/ Night!Applied(a)
           \/ a \in Steers /\ Night!Steer(a)
           \/ a = 0 /\ (Night!Tick \/ Night!Latch)
    PROVE  SoulKept'
<1>1. UNCHANGED OnDisk
  <2>1. CASE Night!Ask(a) \/ Night!Lock(a) \/ Night!CallFails(a)
    BY <2>1 DEF OnDisk, Night!Ask, Night!Lock, Night!CallFails, Night!files
  <2>2. CASE Night!Refuse(a) \/ Night!Applied(a) \/ Night!Steer(a) \/ Night!Latch
    BY <2>2 DEF OnDisk, Night!Refuse, Night!Applied, Night!Steer, Night!Latch, Night!files
  <2>3. CASE Night!Tick
    BY <2>3, TickDoes DEF OnDisk
  <2> QED
    BY <2>1, <2>2, <2>3
<1>2. dreaming[a] \in {"idle", "locks", "pays", "refuses", "latches", "returns"}
  <2>1. CASE a = 0 /\ Night!Tick
    BY <2>1, TickDoes
  <2> QED
    BY <2>1 DEF Night!Ask, Night!Lock, Night!CallFails, Night!Refuse, Night!Applied, Night!Steer,
                Night!Latch, Night!MayStart, Night!At
<1>3. dreaming'[a] \in {"idle", "done", "locks", "reads", "returns"}
      \/ (dreaming'[a] = "copies" /\ a \in Steers)
  <2>1. CASE a = 0 /\ Night!Tick
    BY <2>1, TickDoes, TimerGoes
  <2>2. CASE Night!Ask(a) \/ Night!Lock(a) \/ (a \in Steers /\ Night!Steer(a))
    BY <2>2, PlaceOf DEF Night!Ask, Night!Lock, Night!Steer, AtRest
  <2>3. CASE Night!CallFails(a) \/ Night!Refuse(a) \/ Night!Applied(a) \/ (a = 0 /\ Night!Latch)
    BY <2>3, PlaceOf
    DEF Night!CallFails, Night!Refuse, Night!Failed, Night!Applied, Night!Latch, AtRest
  <2> QED
    BY <2>1, <2>2, <2>3
<1>4. a \in Steers => a \notin Night!Dreamers
  BY ActorsAre DEF ActorAssumption
<1>5. Holds(a)'
  BY <1>3, <1>4 DEF Holds, CopyIsOf, IsArchived, DreamsOf, SteersBy, AfterRead
<1> QED
  BY <1>1, <1>2, <1>5, KeptTurn

LEMMA ReadKept ==
    ASSUME ActorAssumption, NightTypes, InTurn, SoulKept, NEW a \in Actors, Turn(a),
           a \in Night!Dreamers, Night!Read(a)
    PROVE  SoulKept'
<1>1. dreaming[a] = "reads" /\ UNCHANGED <<soul, bak, archive, ident, madeFrom, past>>
      /\ a \notin Steers
  BY ActorsAre DEF Night!Read, Night!At, Night!files, ActorAssumption
<1>2. CASE Night!Returns(a)
  <2>1. dreaming'[a] \notin Section
    BY <1>2, PlaceOf DEF AtRest, Section
  <2> QED
    BY <1>1, <2>1, OutsideHolds, KeptTurn DEF OnDisk
<1>3. CASE /\ Night!Goto(a, "pays")
           /\ work' = [work EXCEPT ![a].seen = diary[work[a].day], ![a].ident = ident,
                                   ![a].prev = Night!LoadedSoul]
  <2>1. dreaming'[a] = "pays"
    BY <1>3, PlaceOf
  <2>2. work'[a] = [work[a] EXCEPT !.seen = diary[work[a].day], !.ident = ident,
                                   !.prev = Night!LoadedSoul]
    BY <1>3 DEF NightTypes
  <2>3. work'[a].ident = ident /\ work'[a].prev = Night!LoadedSoul
    BY <2>2 DEF NightTypes, Works
  <2>4. \/ Night!LoadedSoul = soul
        \/ soul = 0 /\ (Night!LoadedSoul = 1 \/ past.spoiled # {})
    BY DEF Night!LoadedSoul, Night!Seed, SoulKept, Unspoilt
  <2>5. Holds(a)'
    BY <1>1, <2>1, <2>3, <2>4, BestSoul
    DEF Holds, CopyIsOf, IsArchived, DreamsOf, SteersBy
  <2> QED
    BY <1>1, <2>5, KeptTurn DEF OnDisk
<1> QED
  BY <1>2, <1>3 DEF Night!Read

LEMMA PayKept ==
    ASSUME ActorAssumption, NightTypes, InTurn, SoulKept, NEW a \in Actors, Turn(a),
           a \in Night!Dreamers, Night!Pay(a) \/ Night!WriteLog(a)
    PROVE  SoulKept'
<1>1. dreaming[a] \in {"pays", "logs"} /\ UNCHANGED <<soul, bak, archive, ident, madeFrom, past>>
      /\ a \notin Steers
  BY ActorsAre
  DEF Night!Pay, Night!WriteLog, Night!Moves, Night!At, Night!files, ActorAssumption
<1>2. CASE Night!Ends(a)
  <2>1. dreaming'[a] \notin Section
    BY <1>2, PlaceOf DEF AtRest, Section
  <2> QED
    BY <1>1, <2>1, OutsideHolds, KeptTurn DEF OnDisk
<1>3. CASE ~Night!Ends(a)
  <2>1. dreaming'[a] \in {"logs", "latches", "refuses", "copies"}
    BY <1>3, PlaceOf DEF Night!Pay, Night!WriteLog, Night!Moves
  <2>2. work'[a].ident = work[a].ident /\ work'[a].prev = work[a].prev
    BY <1>3 DEF Night!Pay, Night!WriteLog, NightTypes, Works
  <2>3. Holds(a)'
    BY <1>1, <2>1, <2>2
    DEF SoulKept, Holds, CopyIsOf, IsArchived, DreamsOf, SteersBy, AfterRead
  <2> QED
    BY <1>1, <2>3, KeptTurn DEF OnDisk
<1> QED
  BY <1>2, <1>3

LEMMA CopyKept ==
    ASSUME ActorAssumption, NightTypes, InTurn, SoulKept, NEW a \in Actors, Turn(a), Night!Copy(a)
    PROVE  SoulKept'
<1>1. dreaming[a] = "copies" /\ UNCHANGED <<soul, bak, archive, ident, madeFrom, past>>
      /\ work' = [work EXCEPT ![a].copy = soul]
  BY DEF Night!Copy, Night!Moves, Night!At, Night!files
<1>2. work'[a].copy = soul /\ work'[a].ident = work[a].ident /\ work'[a].prev = work[a].prev
  BY <1>1 DEF NightTypes, Works
<1>3. dreaming'[a] = IF soul = 0 THEN Night!AfterBackup(a) ELSE "archives"
  BY PlaceOf DEF Night!Copy, Night!Moves
<1>4. Night!AfterBackup(a) = IF a \in Steers THEN "sources" ELSE "writes"
  BY DEF Night!AfterBackup
<1>5. DreamsOf(a)
  BY DEF SoulKept, Holds
<1>6. DreamsOf(a)'
  BY <1>1, <1>2, <1>5 DEF DreamsOf, AfterRead
<1>7. CopyIsOf(a)' /\ IsArchived(a)' /\ SteersBy(a)'
  BY <1>1, <1>2, <1>3, <1>4 DEF CopyIsOf, IsArchived, SteersBy
<1> QED
  BY <1>1, <1>6, <1>7, KeptTurn DEF OnDisk, Holds

LEMMA ArchiveKept ==
    ASSUME ActorAssumption, NightTypes, InTurn, SoulKept, NEW a \in Actors, Turn(a),
           Night!Archive(a)
    PROVE  SoulKept'
<1>1. /\ dreaming[a] = "archives" /\ UNCHANGED <<soul, bak, ident, madeFrom, past, work>>
      /\ archive' = archive \cup {work[a].copy}
  BY DEF Night!Archive, Night!Moves, Night!At
<1>2. dreaming'[a] = "saves" /\ dreaming[a] \in Section
  BY <1>1, PlaceOf DEF Night!Archive, Night!Moves, Section
<1>3. Holds(a)
  BY DEF SoulKept
<1>4. Holds(a)'
  BY <1>1, <1>2, <1>3 DEF Holds, CopyIsOf, IsArchived, DreamsOf, SteersBy, AfterRead
<1>5. \A b \in Actors : Holds(b)'
  BY <1>2, <1>4, Bystanders
<1>6. SoulsStand' /\ Unspoilt' /\ Blamed' /\ Backed'
  BY <1>1, <1>2 DEF SoulKept, SoulsStand, Unspoilt, Blamed, Backed
<1>7. (\A s \in Steers : dreaming'[s] # "writes") => \A s \in Steers : dreaming[s] # "writes"
  BY <1>1, OthersStand, ActorsAre
<1>8. Sound' <=> Sound
  BY <1>1, Zenon DEF Sound
<1>9. InForce'
  BY <1>1, <1>7, <1>8 DEF SoulKept, InForce
<1> QED
  BY <1>5, <1>6, <1>9 DEF SoulKept

LEMMA BackUpKept ==
    ASSUME ActorAssumption, NightTypes, InTurn, SoulKept, NEW a \in Actors, Turn(a),
           Night!BackUp(a)
    PROVE  SoulKept'
<1>1. /\ dreaming[a] = "saves" /\ UNCHANGED <<soul, archive, ident, madeFrom, past, work>>
      /\ bak' = work[a].copy
  BY DEF Night!BackUp, Night!Moves, Night!At
<1>2. dreaming'[a] = (IF a \in Steers THEN "sources" ELSE "writes") /\ dreaming[a] \in Section
  BY <1>1, PlaceOf DEF Night!BackUp, Night!Moves, Night!AfterBackup, Section
<1>3. Holds(a)
  BY DEF SoulKept
<1>4. Holds(a)'
  BY <1>1, <1>2, <1>3 DEF Holds, CopyIsOf, IsArchived, DreamsOf, SteersBy, AfterRead
<1>5. \A b \in Actors : Holds(b)'
  BY <1>2, <1>4, Bystanders
<1>6. bak' # 0 /\ (soul # 0 \/ past.spoiled # {})
  BY <1>1, <1>3 DEF Holds, CopyIsOf
<1>7. SoulsStand' /\ Unspoilt' /\ Blamed' /\ Backed'
  BY <1>1, <1>6 DEF SoulKept, SoulsStand, Unspoilt, Blamed, Backed
<1>8. (\A s \in Steers : dreaming'[s] # "writes") => \A s \in Steers : dreaming[s] # "writes"
  BY <1>1, OthersStand, ActorsAre
<1>9. Sound' <=> Sound
  BY <1>1, Zenon DEF Sound
<1>10. InForce'
  BY <1>1, <1>8, <1>9 DEF SoulKept, InForce
<1> QED
  BY <1>5, <1>7, <1>10 DEF SoulKept

LEMMA SourcesKept ==
    ASSUME ActorAssumption, NightTypes, InTurn, SoulKept, NEW a \in Actors, Turn(a),
           Night!WriteSources(a)
    PROVE  SoulKept'
<1>1. /\ a \in Steers /\ dreaming[a] = "sources" /\ UNCHANGED <<soul, bak, archive, madeFrom, past>>
      /\ ident' = ident + 1
      /\ work' = [work EXCEPT ![a].ident = ident + 1, ![a].draft = "good"]
  BY DEF Night!WriteSources, Night!Moves, Night!At
<1>2. dreaming'[a] = "writes" /\ dreaming[a] \in Section
  BY <1>1, PlaceOf DEF Night!WriteSources, Night!Moves, Section
<1>3. work'[a].ident = ident' /\ work'[a].draft = "good"
  <2>1. work'[a] = [work[a] EXCEPT !.ident = ident + 1, !.draft = "good"]
    BY <1>1 DEF NightTypes
  <2> QED
    BY <1>1, <2>1 DEF NightTypes, Works
<1>4. Holds(a) /\ a \notin Night!Dreamers
  BY <1>1, ActorsAre DEF SoulKept, ActorAssumption
<1>5. Holds(a)'
  BY <1>1, <1>2, <1>3, <1>4 DEF Holds, CopyIsOf, IsArchived, DreamsOf, SteersBy
<1>6. \A b \in Actors : Holds(b)'
  BY <1>2, <1>5, Bystanders
<1>7. SoulsStand' /\ Unspoilt' /\ Blamed' /\ InForce'
  BY <1>1, <1>2 DEF SoulKept, SoulsStand, Unspoilt, Blamed, InForce
<1>8. (\E b \in Actors : dreaming[b] = "saves") => \E b \in Actors : dreaming'[b] = "saves"
  BY <1>1, OthersStand
<1>9. Backed'
  BY <1>1, <1>8 DEF SoulKept, Backed
<1> QED
  BY <1>6, <1>7, <1>9 DEF SoulKept

LEMMA WriteKept ==
    ASSUME ActorAssumption, NightTypes, InTurn, SoulKept, NEW a \in Actors, Turn(a),
           Night!WriteSoul(a)
    PROVE  SoulKept'
<1>1. dreaming[a] = "writes" /\ UNCHANGED <<bak, archive, ident>> /\ dreaming[a] \in Section
  BY DEF Night!WriteSoul, Night!At, Section
<1>2. dreaming'[a] \in {"idle", "done", "latches"}
  BY PlaceOf DEF Night!WriteSoul, AtRest
<1>3. past'.spoiled = past.spoiled /\ past'.faults = past.faults /\ (a \in Steers \/ past' = past)
  BY DEF Night!WriteSoul, NightTypes, Mishaps
<1>4. Holds(a)
  BY DEF SoulKept
<1>5. soul = 0 \/ soul \in archive
  BY <1>1, <1>4 DEF Holds, IsArchived
<1>6. work[a].ident = ident
  BY <1>1, <1>4, ActorsAre DEF Holds, DreamsOf, SteersBy, AfterRead
<1>7. Holds(a)'
  BY <1>2 DEF Holds, CopyIsOf, IsArchived, DreamsOf, SteersBy, AfterRead
<1>8. \A b \in Actors : Holds(b)'
  BY <1>1, <1>7, Bystanders
<1>9. (\E b \in Actors : dreaming[b] = "saves") => \E b \in Actors : dreaming'[b] = "saves"
  BY <1>1, OthersStand
<1>10. Len(madeFrom) \in Nat /\ madeFrom \in Seq(Nat)
  BY DEF NightTypes
<1>11. CASE work[a].draft = "same"
  <2>1. soul' = work[a].prev /\ madeFrom' = madeFrom
    BY <1>11 DEF Night!WriteSoul
  <2>2. a \in Night!Dreamers /\ a \notin Steers /\ past' = past
    BY <1>1, <1>3, <1>4, <1>11, ActorsAre DEF Holds, SteersBy, ActorAssumption
  <2>3. /\ soul' # 0
        /\ \/ soul' = soul
           \/ soul = 0 /\ (soul' = 1 \/ past.spoiled # {})
    BY <1>1, <1>4, <2>1, <2>2 DEF Holds, DreamsOf, AfterRead
  <2>4. SoulsStand'
    BY <1>1, <1>3, <1>5, <2>1 DEF SoulKept, SoulsStand
  <2>5. Unspoilt' /\ Blamed' /\ Backed'
    BY <1>1, <1>3, <1>9, <2>3 DEF SoulKept, Unspoilt, Blamed, Backed
  <2>6. (\A s \in Steers : dreaming'[s] # "writes") => \A s \in Steers : dreaming[s] # "writes"
    BY <2>2, OthersStand, ActorsAre
  <2>7. Sound' => Sound /\ past.spoiled = {}
    BY <2>2, Zenon DEF Sound
  <2>8. InForce'
    BY <1>1, <2>1, <2>3, <2>6, <2>7 DEF SoulKept, InForce
  <2> QED
    BY <1>8, <2>4, <2>5, <2>8 DEF SoulKept
<1>12. CASE work[a].draft # "same"
  <2>1. soul' = Len(madeFrom) + 1 /\ madeFrom' = Append(madeFrom, work[a].ident)
    BY <1>12 DEF Night!WriteSoul
  <2>2. work[a].ident \in Nat
    BY DEF NightTypes, Works
  <2>3. Len(madeFrom') = Len(madeFrom) + 1 /\ madeFrom'[soul'] = ident /\ soul' # 0
    BY <1>6, <1>10, <2>1, <2>2
  <2>4. SoulsStand'
    <3> SUFFICES ASSUME NEW s \in 2..Len(madeFrom')
                 PROVE  s = soul' \/ s \in archive' \/ s \in past'.spoiled
      BY DEF SoulsStand
    <3>1. s = soul' \/ s \in 2..Len(madeFrom)
      BY <1>10, <2>1, <2>3
    <3> QED
      BY <1>1, <1>3, <1>5, <3>1 DEF SoulKept, SoulsStand
  <2>5. Unspoilt' /\ Blamed' /\ Backed'
    BY <1>1, <1>3, <1>9, <2>3 DEF SoulKept, Unspoilt, Blamed, Backed
  <2>6. InForce'
    BY <1>1, <2>3 DEF InForce
  <2> QED
    BY <1>8, <2>4, <2>5, <2>6 DEF SoulKept
<1> QED
  BY <1>11, <1>12

LEMMA SpoilKept ==
    ASSUME ActorAssumption, NightTypes, SoulKept, Night!Spoil
    PROVE  SoulKept'
<1>1. /\ soul # 0 /\ soul' = 0 /\ UNCHANGED <<bak, archive, ident, madeFrom, dreaming, work>>
      /\ past' = [past EXCEPT !.spoiled = past.spoiled \cup {soul}, !.faults = past.faults + 1]
  BY DEF Night!Spoil
<1>2. past'.spoiled = past.spoiled \cup {soul} /\ past'.faults = past.faults + 1
      /\ past.faults \in Nat
  BY <1>1, FaultCount DEF NightTypes, Mishaps
<1>3. SoulsStand' /\ InForce' /\ Unspoilt' /\ Blamed'
  BY <1>1, <1>2 DEF SoulKept, SoulsStand, InForce, Unspoilt, Blamed
<1>4. Backed'
  BY <1>1, <1>2 DEF SoulKept, Backed
<1>5. \A a \in Actors : Holds(a)'
  BY <1>1, <1>2 DEF SoulKept, Holds, CopyIsOf, IsArchived, DreamsOf, SteersBy
<1> QED
  BY <1>3, <1>4, <1>5 DEF SoulKept

LEMMA RestartKept ==
    ASSUME ActorAssumption, NightTypes, SoulKept, Night!Restart
    PROVE  SoulKept'
<1>1. UNCHANGED <<soul, bak, archive, ident, madeFrom>>
  BY DEF Night!Restart, Night!files
<1>2. past'.spoiled = past.spoiled /\ past'.faults = past.faults + 1 /\ past.faults \in Nat
  BY FaultCount DEF Night!Restart, NightTypes, Mishaps
<1>3. Sound' => Sound /\ \A s \in Steers : dreaming[s] # "writes"
  <2>1. past'.half = (past.half \/ \E s \in Steers : Night!At(s, "writes"))
    BY Zenon DEF Night!Restart, NightTypes, Mishaps
  <2> QED
    BY <1>2, <2>1, Zenon DEF Sound, Night!At
<1>4. SoulsStand' /\ Unspoilt' /\ Blamed'
  BY <1>1, <1>2 DEF SoulKept, SoulsStand, Unspoilt, Blamed
<1>5. InForce'
  BY <1>1, <1>3 DEF SoulKept, InForce
<1>6. Backed'
  <2> SUFFICES ASSUME archive # {}, bak = 0
               PROVE  past'.faults >= 2 \/ (soul # 0 /\ past'.faults >= 1)
    BY <1>1 DEF Backed
  <2>1. CASE past.faults >= 1
    BY <1>2, <2>1
  <2>2. CASE past.faults = 0
    <3>1. PICK a \in Actors : dreaming[a] = "saves"
      BY <1>2, <2>2 DEF SoulKept, Backed
    <3>2. CopyIsOf(a) /\ past.spoiled = {}
      BY <2>2 DEF SoulKept, Holds, Blamed
    <3>3. soul # 0
      BY <3>1, <3>2 DEF CopyIsOf
    <3> QED
      BY <1>2, <3>3
  <2> QED
    BY <1>2, <2>1, <2>2
<1>7. \A a \in Actors : Holds(a)'
  BY RestartRests, OutsideHolds DEF AtRest, Section
<1> QED
  BY <1>4, <1>5, <1>6, <1>7 DEF SoulKept

LEMMA SoulKeptStep ==
    ASSUME ActorAssumption, NightTypes, InTurn, SoulKept, [Night!Next]_(Night!vars)
    PROVE  SoulKept'
<1>1. CASE UNCHANGED <<OnDisk, dreaming, work>>
  <2>1. SoulsStand' /\ Backed' /\ Unspoilt' /\ Blamed'
    BY <1>1 DEF OnDisk, SoulKept, SoulsStand, Backed, Unspoilt, Blamed
  <2>2. Sound' <=> Sound
    BY <1>1, Zenon DEF OnDisk, Sound
  <2>3. InForce'
    BY <1>1, <2>2 DEF OnDisk, SoulKept, InForce
  <2>4. \A a \in Actors : Holds(a)'
    BY <1>1 DEF OnDisk, SoulKept, Holds, CopyIsOf, IsArchived, DreamsOf, SteersBy
  <2> QED
    BY <2>1, <2>3, <2>4 DEF SoulKept
<1>2. CASE UNCHANGED Night!vars
  BY <1>1, <1>2 DEF Night!vars, Night!files, OnDisk
<1>3. CASE Passing \/ Night!StopDreamer
  BY <1>1, <1>3 DEF Passing, Night!Midnight, Night!Window, Night!AppendDiary, Night!RetryIsDue,
                    Night!StopDreamer, Night!files, OnDisk
<1>4. ASSUME NEW a \in Actors, Turn(a) PROVE SoulKept'
  <2>1. CASE Night!Copy(a) \/ Night!Archive(a) \/ Night!BackUp(a) \/ Night!WriteSoul(a)
    BY <1>4, <2>1, CopyKept, ArchiveKept, BackUpKept, WriteKept
  <2>2. CASE a \in Night!Dreamers /\ (Night!Read(a) \/ Night!Pay(a) \/ Night!WriteLog(a))
    BY <1>4, <2>2, ReadKept, PayKept
  <2>3. CASE a \in Steers /\ Night!WriteSources(a)
    BY <1>4, <2>3, SourcesKept
  <2> QED
    BY <1>4, <2>1, <2>2, <2>3, QuietKept, Zenon DEF Turn
<1> QED
  BY <1>2, <1>3, <1>4, SpoilKept, RestartKept, NightMoves DEF Mishap

LEMMA SoulKeptInit == ASSUME ActorAssumption, Night!Init PROVE InTurn /\ SoulKept
<1>1. \A a \in Actors : dreaming[a] = "idle"
  BY DEF Night!Init, Actors
<1>2. /\ soul \in {0, 2} /\ bak = 0 /\ archive = {} /\ ident = 0
      /\ madeFrom = (IF soul = 0 THEN <<0>> ELSE <<0, 0>>)
      /\ past = [half |-> FALSE, spoiled |-> {}, faults |-> 0]
  BY DEF Night!Init
<1>3. InTurn
  BY <1>1, ActorsAre DEF InTurn, Alone, Keyed, OneSteer, Distinct, Section, AtRest
<1>4. past.spoiled = {}
  BY <1>2
<1>5. SoulsStand /\ InForce /\ Backed /\ Unspoilt /\ Blamed
  BY <1>2, <1>4 DEF SoulsStand, InForce, Backed, Unspoilt, Blamed
<1>6. \A a \in Actors : Holds(a)
  BY <1>1 DEF Holds, CopyIsOf, IsArchived, DreamsOf, SteersBy, AfterRead
<1> QED
  BY <1>3, <1>5, <1>6 DEF SoulKept

\* When the user steers while no dream is under way: a soul that was in force is in force still,
\* or archived, or was spoiled by hand; one fault leaves soul.md or its backup good; and the soul
\* in force was made from the sources on disk once nobody is at work (NoSoulIsLost, NeverPoisoned
\* and SteerStands of Dreams; run_dream of rau/dream/dreamer.py, backup_soul, hard_steer and
\* apply_fresh of rau/identity/store.py).
THEOREM TheSoulIsKept ==
    ASSUME ActorAssumption, Apart = TRUE
    PROVE  Night!Spec => [](Night!NoSoulIsLost /\ Night!NeverPoisoned /\ Night!SteerStands)
<1>1. Night!Init => NightTypes /\ Dated /\ InTurn /\ SoulKept
  BY NightTypesInit, OneNightInit, SoulKeptInit
<1>2. NightTypes /\ Dated /\ InTurn /\ SoulKept /\ [Night!Next]_(Night!vars)
        => (NightTypes /\ Dated /\ InTurn /\ SoulKept)'
  BY NightTypesStep, DatedStep, InTurnStep, SoulKeptStep
<1>3. ASSUME NightTypes, InTurn, SoulKept
      PROVE  Night!NoSoulIsLost /\ Night!NeverPoisoned /\ Night!SteerStands
  <2>1. Night!NoSoulIsLost
    BY <1>3 DEF SoulKept, SoulsStand, Night!NoSoulIsLost
  <2>2. Night!NeverPoisoned
    BY <1>3, FaultCount DEF SoulKept, Backed, Night!NeverPoisoned, Night!At, Actors
  <2>3. Night!SteerStands
    <3> SUFFICES ASSUME soul \notin {0, 1}, past.spoiled = {} /\ ~past.half,
                        \A a \in Actors : Night!Idle(a)
                 PROVE  madeFrom[soul] = ident
      BY Zenon DEF Night!SteerStands, Night!Seed, Actors
    <3>1. Sound
      BY Zenon DEF Sound
    <3>2. \A s \in Steers : dreaming[s] # "writes"
      BY ActorsAre DEF Night!Idle
    <3> QED
      BY <1>3, <3>1, <3>2 DEF SoulKept, InForce
  <2> QED
    BY <2>1, <2>2, <2>3
<1> QED
  BY <1>1, <1>2, <1>3, PTL DEF Night!Spec

-----------------------------------------------------------------------------
(* The browser's end of a conversation: what is cut is not heard.             *)

CONSTANTS Push, Hyper, Prompt, Fluent, Onset, Barge, Parts, MaxTurns, MaxUtterances, MaxDrops,
          MaxWire
VARIABLES phase, streaming, barging, muted, held, vad, keyDown, starting, live, gen, sounds, waits,
          resumed, utterances, onAir, cut, up, down, sphase, turn, active, cancelled, portions,
          hearing, mic, stt
Page == INSTANCE BrowserVoice WITH queue <- sounds, shown <- onAir, work <- portions

FluentAssumption == Fluent = TRUE
PartsAssumption == Parts \in Nat

Kinds == {"idle", "listening", "thinking", "speaking", "audio", "endpoint"}
Commands == {"start", "frames", "end", "barge", "text", "stop"}
Awaiting == Seq({"barge", "push", "stop"} \X Nat)

WireTyped == down \in Seq(Kinds \X Nat) /\ up \in Seq(Commands \X Nat)
PlayTyped ==
    muted \in BOOLEAN /\ phase \in Page!Phases /\ onAir \in Nat /\ sounds \in Seq(Nat)
TurnsTyped ==
    /\ turn \in Nat /\ active \in 0..turn /\ portions \in Nat
    /\ cancelled \in BOOLEAN /\ sphase \in Page!Phases
UserTyped == gen \in Nat /\ utterances \in Nat /\ waits \in Awaiting /\ resumed \in Awaiting
PageTypes == WireTyped /\ PlayTyped /\ TurnsTyped /\ UserTyped

\* The user hears, and cuts off, turns that were begun.
Past == onAir \in 0..turn /\ cut \subseteq 0..turn

\* The messages on their way to the page, by their places.
Pos == 1..Len(down)
Speaking(i) == down[i][1] = "speaking"
Audio(i) == down[i][1] = "audio"
Speech(i) == down[i][1] \in {"speaking", "audio"}
Unmutes(i) == down[i][1] \in {"thinking", "idle"}
Reopened(j) == \E k \in Pos : k < j /\ Unmutes(k)

\* The worker of the turn that is current may say more.
Talks == active # 0 /\ ~cancelled /\ portions # Page!Over

Known == \A j \in Pos : Speech(j) => down[j][2] \in 1..active

\* What comes after the page was told to listen again is of no turn it was told of before.
AfterUnmute ==
    \A k, j \in Pos : k < j /\ Unmutes(k) /\ Speech(j) =>
        /\ down[j][2] \notin cut \cup {onAir}
        /\ \A i \in Pos : i < k /\ Speech(i) => down[i][2] # down[j][2]
\* What was cut comes while the page is muted.
CutIsMuted ==
    \A j \in Pos : Audio(j) /\ down[j][2] \in cut => muted \/ Reopened(j)
\* Audio is of the turn that was last said to speak.
OneSpeaker ==
    /\ \A j \in Pos : Audio(j) => down[j][2] = onAir \/ \E i \in Pos : i < j /\ Speaking(i)
    /\ \A i, j \in Pos : i < j /\ Speaking(i) /\ Audio(j) =>
           down[i][2] = down[j][2] \/ \E l \in Pos : i < l /\ l < j /\ Speaking(l)
\* Between a turn that speaks, or was cut, and the next the page is told to listen.
Parted ==
    /\ \A i, j \in Pos : i < j /\ Speaking(i) /\ Speaking(j) =>
           \E k \in Pos : i < k /\ k < j /\ Unmutes(k)
    /\ \A j \in Pos : Speaking(j) /\ (muted \/ phase = "speaking") => Reopened(j)
WireInv == Known /\ AfterUnmute /\ CutIsMuted /\ OneSpeaker /\ Parted

\* The same of what the hub may still say.
NextIsNew ==
    Talks => \A k \in Pos : Unmutes(k) =>
        /\ active \notin cut \cup {onAir}
        /\ \A i \in Pos : i < k /\ Speech(i) => down[i][2] # active
NextIsMuted == Talks /\ active \in cut => muted \/ \E k \in Pos : Unmutes(k)
NextSpeaker ==
    Talks /\ sphase = "speaking" =>
        /\ active = onAir \/ \E i \in Pos : Speaking(i)
        /\ \A i \in Pos : Speaking(i) =>
               down[i][2] = active \/ \E l \in Pos : i < l /\ Speaking(l)
NextIsParted ==
    sphase = "thinking" =>
        /\ \A i \in Pos : Speaking(i) => \E k \in Pos : i < k /\ Unmutes(k)
        /\ muted \/ phase = "speaking" => \E k \in Pos : Unmutes(k)
TalksInPhase ==
    Talks => sphase \in {"thinking", "speaking"} /\ (portions # 0 => sphase = "speaking")
NextInv == NextIsNew /\ NextIsMuted /\ NextSpeaker /\ NextIsParted /\ TalksInPhase

CutInv == WireInv /\ NextInv /\ (muted => onAir \in cut) /\ Page!CutIsFinal

LEMMA PageNames ==
    /\ Page!Phases = {"idle", "listening", "thinking", "speaking"}
    /\ Page!Over = Parts + 1
BY DEF Page!Phases, Page!Over

-----------------------------------------------------------------------------
(* The types.                                                                 *)

LEMMA OneOf ==
    ASSUME NEW S, NEW e \in S
    PROVE  /\ <<>> \in Seq(S) /\ <<e>> \in Seq(S)
           /\ Len(<<e>>) = 1 /\ <<e>>[1] = e /\ Len(<<>>) = 0
OBVIOUS

LEMMA Joined ==
    ASSUME NEW S, NEW s \in Seq(S), NEW t \in Seq(S)
    PROVE  /\ s \o t \in Seq(S) /\ Len(s) \in Nat /\ Len(t) \in Nat
           /\ Len(s \o t) = Len(s) + Len(t)
           /\ \A i \in 1..Len(s) : (s \o t)[i] = s[i]
           /\ \A i \in 1..Len(t) : (s \o t)[Len(s) + i] = t[i]
OBVIOUS

\* A phase that is told.
LEMMA ToldIs ==
    ASSUME NEW p \in Page!Phases, NEW t \in Nat
    PROVE  /\ Page!Told(p, t) \in Seq(Kinds \X Nat)
           /\ sphase = p => Page!Told(p, t) = <<>>
           /\ sphase # p => Page!Told(p, t) = <<<<p, t>>>>
<1>1. <<p, t>> \in Kinds \X Nat
  BY PageNames DEF Kinds
<1>2. <<>> \in Seq(Kinds \X Nat) /\ <<<<p, t>>>> \in Seq(Kinds \X Nat)
  BY <1>1, OneOf, Zenon
<1> QED
  BY <1>2, Zenon DEF Page!Told

\* What the page sends are commands.
Sends == up' = up \/ \E cs \in Seq(Commands \X Nat) : up' = up \o cs

LEMMA SentIs ==
    ASSUME PageTypes, NEW cs \in Seq(Commands \X Nat), Page!Sent(cs)
    PROVE  up' \in Seq(Commands \X Nat) /\ Sends
<1>1. up' = up \/ up' = up \o cs
  BY DEF Page!Sent
<1>2. Sends
  BY <1>1 DEF Sends
<1> DEFINE S == Commands \X Nat
<1>3. up \in Seq(S) /\ cs \in Seq(S)
  BY DEF PageTypes, WireTyped
<1> HIDE DEF S
<1>4. up' \in Seq(S)
  BY <1>1, <1>3, Joined
<1> QED
  BY <1>2, <1>4 DEF S

LEMMA CommandsAre ==
    ASSUME NEW n \in Nat
    PROVE  /\ <<>> \in Seq(Commands \X Nat)
           /\ \A c \in Commands : <<<<c, n>>>> \in Seq(Commands \X Nat)
           /\ Page!WithFrames(n) \in Seq(Commands \X Nat)
           /\ <<Page!Frames(n)>> \in Seq(Commands \X Nat)
<1>1. \A c \in Commands : <<c, n>> \in Commands \X Nat
  OBVIOUS
<1>2. \A c \in Commands : <<<<c, n>>>> \in Seq(Commands \X Nat)
  BY <1>1, OneOf, Zenon
<1>3. <<>> \in Seq(Commands \X Nat)
  OBVIOUS
<1>4. <<Page!Frames(n)>> \in Seq(Commands \X Nat)
  BY <1>2 DEF Page!Frames, Commands
<1> QED
  BY <1>2, <1>3, <1>4, Zenon DEF Page!WithFrames

LEMMA StartIs ==
    ASSUME utterances \in Nat
    PROVE  <<Page!Start>> \in Seq(Commands \X Nat)
<1>1. <<"start", utterances + 1>> \in Commands \X Nat
  BY DEF Commands
<1> QED
  BY <1>1, OneOf, Zenon DEF Page!Start

-----------------------------------------------------------------------------
(* What the page does.                                                        *)

\* Nothing is said, heard or cut: what has been played is gone, the page may go idle on its
\* own, and the hub may cancel.
Rests ==
    /\ UNCHANGED <<down, cut, onAir, muted, active, turn, sphase, portions>>
    /\ phase' \in {phase, "idle"}
    /\ sounds' = sounds \/ (sounds # <<>> /\ sounds' = Tail(sounds))
    /\ cancelled' \in {cancelled, TRUE}

\* The user cuts off the turn he hears.
CutsOff ==
    /\ phase = "speaking" /\ phase' \in {phase, "idle"}
    /\ muted' = TRUE /\ sounds' = <<>> /\ cut' = cut \cup {onAir}
    /\ UNCHANGED <<down, onAir, active, turn, sphase, portions, cancelled>>

HubRests == UNCHANGED <<active, turn, sphase, portions, cancelled>>

LEMMA RestsKeep == ASSUME PageTypes, CutInv, Rests PROVE CutInv'
<1> USE DEF Rests
<1>1. /\ Talks' => Talks
      /\ phase' = "speaking" => phase = "speaking"
  <2>1. Talks' => Talks
    BY Zenon DEF Talks, Page!Over
  <2>2. phase' = "speaking" => phase = "speaking"
    OBVIOUS
  <2> QED
    BY <2>1, <2>2
<1>2. WireInv'
  BY <1>1
     DEF CutInv, WireInv, Known, AfterUnmute, CutIsMuted, OneSpeaker, Parted, Pos, Speaking, Audio,
         Speech, Unmutes, Reopened
<1>3. NextInv'
  BY <1>1
     DEF CutInv, NextInv, NextIsNew, NextIsMuted, NextSpeaker, NextIsParted, TalksInPhase, Pos,
         Speaking, Speech, Unmutes
<1>4. Page!CutIsFinal'
  <2>1. sounds \in Seq(Nat) /\ \A i \in 1..Len(sounds) : sounds[i] \notin cut
    BY DEF PageTypes, PlayTyped, CutInv, Page!CutIsFinal
  <2>2. CASE sounds' = sounds
    BY <2>1, <2>2 DEF Page!CutIsFinal
  <2>3. CASE sounds # <<>> /\ sounds' = Tail(sounds)
    BY <2>1, <2>3 DEF Page!CutIsFinal
  <2> QED
    BY <2>2, <2>3
<1> QED
  BY <1>2, <1>3, <1>4 DEF CutInv

LEMMA CutsOffKeep == ASSUME PageTypes, CutInv, CutsOff PROVE CutInv'
<1> USE DEF CutsOff
<1>1. Talks' = Talks /\ Pos' = Pos
  BY DEF Talks, Pos
<1>2. Known' /\ OneSpeaker'
  BY <1>1 DEF CutInv, WireInv, Known, OneSpeaker, Speech, Speaking, Audio
<1>3. AfterUnmute' /\ NextIsNew'
  BY <1>1 DEF CutInv, WireInv, NextInv, AfterUnmute, NextIsNew, Speech, Unmutes
<1>4. CutIsMuted' /\ NextIsMuted' /\ (muted' => onAir' \in cut')
  BY <1>1 DEF CutIsMuted, NextIsMuted, Reopened
<1>5. Parted' /\ NextIsParted'
  BY <1>1 DEF CutInv, WireInv, NextInv, Parted, NextIsParted, Speaking, Unmutes, Reopened
<1>6. NextSpeaker' /\ TalksInPhase'
  BY <1>1 DEF CutInv, NextInv, NextSpeaker, TalksInPhase, Speaking
<1>7. Page!CutIsFinal'
  BY DEF Page!CutIsFinal
<1> QED
  BY <1>2, <1>3, <1>4, <1>5, <1>6, <1>7 DEF CutInv, WireInv, NextInv

\* A message is taken off the wire.
Takes ==
    /\ down # <<>> /\ down' = Tail(down) /\ cut' = cut
    /\ HubRests

LEMMA TakenIs ==
    ASSUME PageTypes, Takes
    PROVE  /\ Len(down) \in Nat \ {0} /\ Len(down') = Len(down) - 1 /\ 1 \in Pos
           /\ Pos \subseteq Nat /\ Pos' \subseteq Nat /\ \A i \in Pos : i >= 1
           /\ \A i \in Pos' : i + 1 \in Pos /\ down'[i] = down[i + 1]
           /\ \A i \in Pos : i # 1 => i - 1 \in Pos' /\ down'[i - 1] = down[i]
           /\ Talks' = Talks
BY DEF PageTypes, WireTyped, Takes, HubRests, Pos, Talks, Page!Over

\* A message is what it was, one place on.
LEMMA MovedUp ==
    ASSUME PageTypes, Takes
    PROVE  /\ \A i \in Pos' :
                  /\ i + 1 \in Pos /\ i + 1 > 1 /\ down'[i] = down[i + 1]
                  /\ Speech(i)' = Speech(i + 1) /\ Speaking(i)' = Speaking(i + 1)
                  /\ Audio(i)' = Audio(i + 1) /\ Unmutes(i)' = Unmutes(i + 1)
           /\ \A i \in Pos : i # 1 =>
                  /\ i - 1 \in Pos' /\ down'[i - 1] = down[i]
                  /\ Speech(i) = Speech(i - 1)' /\ Speaking(i) = Speaking(i - 1)'
                  /\ Audio(i) = Audio(i - 1)' /\ Unmutes(i) = Unmutes(i - 1)'
<1>1. ASSUME NEW i \in Pos'
      PROVE  /\ i + 1 \in Pos /\ i + 1 > 1 /\ down'[i] = down[i + 1]
             /\ Speech(i)' = Speech(i + 1) /\ Speaking(i)' = Speaking(i + 1)
             /\ Audio(i)' = Audio(i + 1) /\ Unmutes(i)' = Unmutes(i + 1)
  <2>1. i + 1 \in Pos /\ i + 1 > 1 /\ down'[i] = down[i + 1]
    BY TakenIs DEF Pos
  <2> QED
    BY <2>1, Zenon DEF Speech, Speaking, Audio, Unmutes
<1>2. ASSUME NEW i \in Pos, i # 1
      PROVE  /\ i - 1 \in Pos' /\ down'[i - 1] = down[i]
             /\ Speech(i) = Speech(i - 1)' /\ Speaking(i) = Speaking(i - 1)'
             /\ Audio(i) = Audio(i - 1)' /\ Unmutes(i) = Unmutes(i - 1)'
  <2>1. i - 1 \in Pos' /\ down'[i - 1] = down[i]
    BY <1>2, TakenIs
  <2> QED
    BY <2>1, Zenon DEF Speech, Speaking, Audio, Unmutes
<1> QED
  BY <1>1, <1>2, Zenon

\* What holds of two messages holds of them one place on.
LEMMA TakesKeep ==
    ASSUME PageTypes, CutInv, Takes
    PROVE  /\ Known' /\ TalksInPhase' /\ Talks' = Talks
           /\ \A k, j \in Pos' : k < j /\ Unmutes(k)' /\ Speech(j)' =>
                  /\ down'[j][2] \notin cut \cup {onAir}
                  /\ Speech(1) => down'[j][2] # down[1][2]
                  /\ \A i \in Pos' : i < k /\ Speech(i)' => down'[i][2] # down'[j][2]
           /\ \A i, j \in Pos' : i < j /\ Speaking(i)' /\ Audio(j)' =>
                  down'[i][2] = down'[j][2] \/ \E l \in Pos' : i < l /\ l < j /\ Speaking(l)'
           /\ \A i, j \in Pos' : i < j /\ Speaking(i)' /\ Speaking(j)' =>
                  \E k \in Pos' : i < k /\ k < j /\ Unmutes(k)'
           /\ Talks => \A k \in Pos' : Unmutes(k)' =>
                  /\ active \notin cut \cup {onAir}
                  /\ Speech(1) => active # down[1][2]
                  /\ \A i \in Pos' : i < k /\ Speech(i)' => down'[i][2] # active
           /\ Talks /\ sphase = "speaking" => \A i \in Pos' : Speaking(i)' =>
                  down'[i][2] = active \/ \E l \in Pos' : i < l /\ Speaking(l)'
           /\ sphase = "thinking" => \A i \in Pos' : Speaking(i)' =>
                  \E k \in Pos' : i < k /\ Unmutes(k)'
<1>1. /\ 1 \in Pos /\ Pos \subseteq Nat /\ Pos' \subseteq Nat /\ \A i \in Pos : i >= 1
      /\ Talks' = Talks /\ UNCHANGED <<active, sphase>>
  BY TakenIs DEF Takes, HubRests
<1>2. Known'
  BY <1>1, MovedUp DEF CutInv, WireInv, Known
<1>3. TalksInPhase'
  BY <1>1 DEF CutInv, NextInv, TalksInPhase, Takes, HubRests
<1>4. ASSUME NEW k \in Pos', NEW j \in Pos', k < j, Unmutes(k)', Speech(j)'
      PROVE  /\ down'[j][2] \notin cut \cup {onAir}
             /\ Speech(1) => down'[j][2] # down[1][2]
             /\ \A i \in Pos' : i < k /\ Speech(i)' => down'[i][2] # down'[j][2]
  <2>1. /\ k + 1 \in Pos /\ j + 1 \in Pos /\ k + 1 < j + 1 /\ Unmutes(k + 1) /\ Speech(j + 1)
        /\ down'[j] = down[j + 1] /\ 1 < k + 1
    BY <1>1, <1>4, MovedUp
  <2>2. /\ down[j + 1][2] \notin cut \cup {onAir}
        /\ \A i \in Pos : i < k + 1 /\ Speech(i) => down[i][2] # down[j + 1][2]
    BY <2>1 DEF CutInv, WireInv, AfterUnmute
  <2>3. ASSUME NEW i \in Pos', i < k, Speech(i)' PROVE down'[i][2] # down'[j][2]
    <3>1. i + 1 \in Pos /\ i + 1 < k + 1 /\ Speech(i + 1) /\ down'[i] = down[i + 1]
      BY <1>1, <2>3, MovedUp
    <3> QED
      BY <2>1, <2>2, <3>1
  <2> QED
    BY <1>1, <2>1, <2>2, <2>3
<1>5. ASSUME NEW i \in Pos', NEW j \in Pos', i < j, Speaking(i)', Audio(j)'
      PROVE  down'[i][2] = down'[j][2] \/ \E l \in Pos' : i < l /\ l < j /\ Speaking(l)'
  <2>1. /\ i + 1 \in Pos /\ j + 1 \in Pos /\ i + 1 < j + 1 /\ Speaking(i + 1) /\ Audio(j + 1)
        /\ down'[j] = down[j + 1] /\ down'[i] = down[i + 1] /\ i >= 1
    BY <1>1, <1>5, MovedUp DEF Pos
  <2>2. CASE \E l \in Pos : i + 1 < l /\ l < j + 1 /\ Speaking(l)
    <3>1. PICK l \in Pos : i + 1 < l /\ l < j + 1 /\ Speaking(l)
      BY <2>2
    <3>2. l - 1 \in Pos' /\ i < l - 1 /\ l - 1 < j /\ Speaking(l - 1)'
      BY <1>1, <2>1, <3>1, MovedUp
    <3> QED
      BY <3>2
  <2> QED
    BY <2>1, <2>2 DEF CutInv, WireInv, OneSpeaker
<1>6. ASSUME NEW i \in Pos', NEW j \in Pos', i < j, Speaking(i)', Speaking(j)'
      PROVE  \E k \in Pos' : i < k /\ k < j /\ Unmutes(k)'
  <2>1. /\ i + 1 \in Pos /\ j + 1 \in Pos /\ i + 1 < j + 1 /\ Speaking(i + 1)
        /\ Speaking(j + 1) /\ i >= 1
    BY <1>1, <1>6, MovedUp DEF Pos
  <2>2. PICK k \in Pos : i + 1 < k /\ k < j + 1 /\ Unmutes(k)
    BY <2>1 DEF CutInv, WireInv, Parted
  <2>3. k - 1 \in Pos' /\ i < k - 1 /\ k - 1 < j /\ Unmutes(k - 1)'
    BY <1>1, <2>1, <2>2, MovedUp
  <2> QED
    BY <2>3
<1>7. ASSUME Talks, NEW k \in Pos', Unmutes(k)'
      PROVE  /\ active \notin cut \cup {onAir}
             /\ Speech(1) => active # down[1][2]
             /\ \A i \in Pos' : i < k /\ Speech(i)' => down'[i][2] # active
  <2>1. k + 1 \in Pos /\ Unmutes(k + 1) /\ 1 < k + 1
    BY <1>7, MovedUp
  <2>2. /\ active \notin cut \cup {onAir}
        /\ \A i \in Pos : i < k + 1 /\ Speech(i) => down[i][2] # active
    BY <1>7, <2>1 DEF CutInv, NextInv, NextIsNew
  <2>3. ASSUME NEW i \in Pos', i < k, Speech(i)' PROVE down'[i][2] # active
    <3>1. i + 1 \in Pos /\ i + 1 < k + 1 /\ Speech(i + 1) /\ down'[i] = down[i + 1]
      BY <1>1, <2>3, MovedUp
    <3> QED
      BY <2>2, <3>1
  <2> QED
    BY <1>1, <2>1, <2>2, <2>3
<1>8. ASSUME Talks, sphase = "speaking", NEW i \in Pos', Speaking(i)'
      PROVE  down'[i][2] = active \/ \E l \in Pos' : i < l /\ Speaking(l)'
  <2>1. i + 1 \in Pos /\ Speaking(i + 1) /\ down'[i] = down[i + 1] /\ i >= 1
    BY <1>1, <1>8, MovedUp DEF Pos
  <2>2. CASE \E l \in Pos : i + 1 < l /\ Speaking(l)
    <3>1. PICK l \in Pos : i + 1 < l /\ Speaking(l)
      BY <2>2
    <3>2. l - 1 \in Pos' /\ i < l - 1 /\ Speaking(l - 1)'
      BY <1>1, <2>1, <3>1, MovedUp
    <3> QED
      BY <3>2
  <2> QED
    BY <1>8, <2>1, <2>2 DEF CutInv, NextInv, NextSpeaker
<1>9. ASSUME sphase = "thinking", NEW i \in Pos', Speaking(i)'
      PROVE  \E k \in Pos' : i < k /\ Unmutes(k)'
  <2>1. i + 1 \in Pos /\ Speaking(i + 1) /\ i >= 1
    BY <1>1, <1>9, MovedUp DEF Pos
  <2>2. PICK k \in Pos : i + 1 < k /\ Unmutes(k)
    BY <1>9, <2>1 DEF CutInv, NextInv, NextIsParted
  <2>3. k - 1 \in Pos' /\ i < k - 1 /\ Unmutes(k - 1)'
    BY <1>1, <2>1, <2>2, MovedUp
  <2> QED
    BY <2>3
<1> QED
  BY <1>1, <1>2, <1>3, <1>4, <1>5, <1>6, <1>7, <1>8, <1>9

\* The page is told to listen, or that a turn begins.
Listens ==
    /\ Takes /\ Unmutes(1) /\ phase' = down[1][1] /\ muted' = FALSE /\ onAir' = onAir
    /\ sounds' = sounds \/ sounds' = <<>>

\* Nothing the user hears: that he is heard, or that he has done speaking.
Notes ==
    /\ Takes /\ ~Unmutes(1) /\ ~Speech(1) /\ UNCHANGED <<muted, onAir, sounds>>
    /\ phase' = phase \/ phase' = "listening"

\* A turn begins to speak.
HearsOf ==
    /\ Takes /\ Speaking(1) /\ phase' = "speaking" /\ onAir' = down[1][2]
    /\ UNCHANGED <<muted, sounds>>

\* Audio is queued unless the page is muted.
Hears ==
    /\ Takes /\ Audio(1) /\ UNCHANGED <<muted, onAir, phase>>
    /\ sounds' = IF muted THEN sounds ELSE Append(sounds, down[1][2])

\* What follows if the page goes on listening to the same turn.
LEMMA SameOnAir ==
    ASSUME PageTypes, CutInv, Takes, onAir' = onAir
    PROVE  AfterUnmute' /\ NextIsNew'
<1>1. UNCHANGED <<cut, onAir, active>>
  BY DEF Takes, HubRests
<1>2. AfterUnmute'
  BY <1>1, TakesKeep DEF AfterUnmute
<1>3. NextIsNew'
  BY <1>1, TakesKeep DEF NextIsNew
<1> QED
  BY <1>2, <1>3

LEMMA ListensKeep == ASSUME PageTypes, CutInv, Listens PROVE CutInv'
<1>1. /\ UNCHANGED <<cut, onAir, active, sphase>> /\ ~muted' /\ phase' # "speaking"
      /\ 1 \in Pos /\ Takes /\ Unmutes(1)
  BY TakenIs DEF Listens, Takes, HubRests, Unmutes
<1>2. AfterUnmute' /\ NextIsNew' /\ Known' /\ TalksInPhase' /\ Talks' = Talks
  BY <1>1, SameOnAir, TakesKeep
<1>3. CutIsMuted'
  <2>1. ASSUME NEW j \in Pos', Audio(j)' PROVE down'[j][2] \notin cut
    <3>1. j + 1 \in Pos /\ 1 < j + 1 /\ Speech(j + 1) /\ down'[j] = down[j + 1]
      BY <1>1, <2>1, MovedUp DEF Audio, Speech
    <3> QED
      BY <1>1, <3>1 DEF CutInv, WireInv, AfterUnmute
  <2> QED
    BY <1>1, <2>1 DEF CutIsMuted
<1>4. OneSpeaker'
  <2>1. ASSUME NEW j \in Pos', Audio(j)'
        PROVE  down'[j][2] = onAir' \/ \E i \in Pos' : i < j /\ Speaking(i)'
    <3>1. j + 1 \in Pos /\ 1 < j + 1 /\ Audio(j + 1) /\ down'[j] = down[j + 1]
      BY <1>1, <2>1, MovedUp
    <3>2. CASE \E i \in Pos : i < j + 1 /\ Speaking(i)
      <4>1. PICK i \in Pos : i < j + 1 /\ Speaking(i)
        BY <3>2
      <4>2. i # 1
        BY <1>1, <4>1 DEF Speaking, Unmutes
      <4>3. i - 1 \in Pos' /\ i - 1 < j /\ Speaking(i - 1)'
        BY <1>1, <2>1, <4>1, <4>2, MovedUp, TakenIs
      <4> QED
        BY <4>3
    <3> QED
      BY <1>1, <3>1, <3>2 DEF CutInv, WireInv, OneSpeaker
  <2> QED
    BY <1>1, <2>1, TakesKeep DEF OneSpeaker
<1>5. Parted'
  BY <1>1, TakesKeep DEF Parted
<1>6. NextIsMuted'
  BY <1>1, <1>2 DEF CutInv, NextInv, NextIsNew, NextIsMuted
<1>7. NextSpeaker'
  <2>1. CASE Talks /\ sphase = "speaking" /\ active # onAir
    <3>1. PICK i \in Pos : Speaking(i)
      BY <2>1 DEF CutInv, NextInv, NextSpeaker
    <3>2. i # 1
      BY <1>1, <3>1 DEF Speaking, Unmutes
    <3>3. i - 1 \in Pos' /\ Speaking(i - 1)'
      BY <1>1, <3>1, <3>2, MovedUp
    <3> QED
      BY <1>1, <2>1, <3>3, TakesKeep DEF NextSpeaker
  <2> QED
    BY <1>1, <2>1, TakesKeep DEF NextSpeaker
<1>8. NextIsParted'
  BY <1>1, TakesKeep DEF NextIsParted
<1>9. Page!CutIsFinal'
  BY <1>1 DEF CutInv, Page!CutIsFinal, Listens
<1> QED
  BY <1>1, <1>2, <1>3, <1>4, <1>5, <1>6, <1>7, <1>8, <1>9 DEF CutInv, WireInv, NextInv

\* A message that says of no turn whether it may be heard.
LEMMA PassedOver ==
    ASSUME PageTypes, CutInv, Takes, ~Unmutes(1), muted' = muted
    PROVE  /\ CutIsMuted' /\ NextIsMuted'
           /\ \A j \in Pos' : Speaking(j)' /\ (muted \/ phase = "speaking") =>
                  \E k \in Pos' : k < j /\ Unmutes(k)'
           /\ sphase = "thinking" /\ (muted \/ phase = "speaking") => \E k \in Pos' : Unmutes(k)'
<1>1. UNCHANGED <<cut, active, sphase>> /\ 1 \in Pos /\ Talks' = Talks
  BY TakenIs DEF Takes, HubRests
<1>2. ASSUME NEW j \in Pos', Reopened(j + 1) PROVE Reopened(j)'
  <2>1. PICK k \in Pos : k < j + 1 /\ Unmutes(k)
    BY <1>2 DEF Reopened
  <2>2. k - 1 \in Pos' /\ k - 1 < j /\ Unmutes(k - 1)'
    BY <1>1, <2>1, MovedUp, TakenIs
  <2> QED
    BY <2>2 DEF Reopened
<1>3. ASSUME NEW k \in Pos, Unmutes(k) PROVE \E l \in Pos' : Unmutes(l)'
  <2>1. k - 1 \in Pos' /\ Unmutes(k - 1)'
    BY <1>3, MovedUp
  <2> QED
    BY <2>1
<1>4. CutIsMuted'
  <2> SUFFICES ASSUME NEW j \in Pos', Audio(j)', down'[j][2] \in cut
               PROVE  muted \/ Reopened(j)'
    BY <1>1 DEF CutIsMuted
  <2>1. j + 1 \in Pos /\ Audio(j + 1) /\ down'[j] = down[j + 1]
    BY MovedUp
  <2> QED
    BY <1>2, <2>1 DEF CutInv, WireInv, CutIsMuted
<1>5. NextIsMuted'
  BY <1>1, <1>3 DEF CutInv, NextInv, NextIsMuted
<1>6. ASSUME NEW j \in Pos', Speaking(j)', muted \/ phase = "speaking"
      PROVE  \E k \in Pos' : k < j /\ Unmutes(k)'
  <2>1. j + 1 \in Pos /\ Speaking(j + 1)
    BY <1>6, MovedUp
  <2>2. Reopened(j)'
    BY <1>2, <1>6, <2>1 DEF CutInv, WireInv, Parted
  <2> QED
    BY <2>2 DEF Reopened
<1>7. sphase = "thinking" /\ (muted \/ phase = "speaking") => \E k \in Pos' : Unmutes(k)'
  BY <1>3 DEF CutInv, NextInv, NextIsParted
<1> QED
  BY <1>4, <1>5, <1>6, <1>7

\* A message that names no turn leaves the last that was named.
LEMMA StillOnAir ==
    ASSUME PageTypes, CutInv, Takes, ~Speaking(1), onAir' = onAir
    PROVE  OneSpeaker' /\ NextSpeaker'
<1>1. UNCHANGED <<active, sphase>> /\ 1 \in Pos /\ Talks' = Talks
  BY TakenIs DEF Takes, HubRests
<1>2. ASSUME NEW i \in Pos, Speaking(i) PROVE i - 1 \in Pos' /\ Speaking(i - 1)'
  BY <1>2, MovedUp
<1>3. OneSpeaker'
  <2>1. ASSUME NEW j \in Pos', Audio(j)'
        PROVE  down'[j][2] = onAir' \/ \E i \in Pos' : i < j /\ Speaking(i)'
    <3>1. j + 1 \in Pos /\ Audio(j + 1) /\ down'[j] = down[j + 1]
      BY <2>1, MovedUp
    <3>2. CASE \E i \in Pos : i < j + 1 /\ Speaking(i)
      <4>1. PICK i \in Pos : i < j + 1 /\ Speaking(i)
        BY <3>2
      <4>2. i - 1 \in Pos' /\ i - 1 < j /\ Speaking(i - 1)'
        BY <1>2, <2>1, <4>1, TakenIs
      <4> QED
        BY <4>2
    <3> QED
      BY <3>1, <3>2 DEF CutInv, WireInv, OneSpeaker
  <2> QED
    BY <2>1, TakesKeep DEF OneSpeaker
<1>4. NextSpeaker'
  <2>1. Talks /\ sphase = "speaking" => active = onAir \/ \E i \in Pos' : Speaking(i)'
    BY <1>2 DEF CutInv, NextInv, NextSpeaker
  <2> QED
    BY <1>1, <2>1, TakesKeep DEF NextSpeaker
<1> QED
  BY <1>3, <1>4

LEMMA NotesKeep == ASSUME PageTypes, CutInv, Notes PROVE CutInv'
<1>1. /\ Takes /\ ~Unmutes(1) /\ ~Speaking(1) /\ onAir' = onAir /\ muted' = muted
      /\ phase' = "speaking" => phase = "speaking"
      /\ UNCHANGED <<cut, sounds, sphase>>
  BY DEF Notes, Speech, Speaking, Takes, HubRests
<1>2. AfterUnmute' /\ NextIsNew' /\ Known' /\ TalksInPhase' /\ CutIsMuted' /\ NextIsMuted'
  BY <1>1, SameOnAir, TakesKeep, PassedOver
<1>3. OneSpeaker' /\ NextSpeaker'
  BY <1>1, StillOnAir
<1>4. Parted' /\ NextIsParted'
  BY <1>1, TakesKeep, PassedOver DEF Parted, NextIsParted, Reopened
<1>5. Page!CutIsFinal' /\ (muted' => onAir' \in cut')
  BY <1>1 DEF CutInv, Page!CutIsFinal
<1> QED
  BY <1>2, <1>3, <1>4, <1>5 DEF CutInv, WireInv, NextInv

LEMMA HearsKeep == ASSUME PageTypes, CutInv, Hears PROVE CutInv'
<1>1. /\ Takes /\ Audio(1) /\ ~Unmutes(1) /\ ~Speaking(1)
      /\ onAir' = onAir /\ muted' = muted /\ phase' = phase /\ UNCHANGED <<cut, sphase>>
  BY DEF Hears, Unmutes, Speaking, Audio, Takes, HubRests
<1>2. AfterUnmute' /\ NextIsNew' /\ Known' /\ TalksInPhase' /\ CutIsMuted' /\ NextIsMuted'
  BY <1>1, SameOnAir, TakesKeep, PassedOver
<1>3. OneSpeaker' /\ NextSpeaker'
  BY <1>1, StillOnAir
<1>4. Parted' /\ NextIsParted'
  BY <1>1, TakesKeep, PassedOver DEF Parted, NextIsParted, Reopened
<1>5. Page!CutIsFinal'
  <2>1. down[1][2] \in cut => muted
    <3>1. 1 \in Pos /\ ~Reopened(1)
      BY <1>1, TakenIs DEF Reopened
    <3> QED
      BY <1>1, <3>1 DEF CutInv, WireInv, CutIsMuted
  <2>2. sounds \in Seq(Nat) /\ \A i \in 1..Len(sounds) : sounds[i] \notin cut
    BY DEF PageTypes, PlayTyped, CutInv, Page!CutIsFinal
  <2>3. CASE muted
    BY <1>1, <2>2, <2>3 DEF Page!CutIsFinal, Hears
  <2>4. CASE ~muted
    <3>1. sounds' = Append(sounds, down[1][2]) /\ down[1][2] \notin cut
      BY <2>1, <2>4 DEF Hears
    <3>2. \A i \in 1..Len(sounds') : sounds'[i] \notin cut
      BY <2>2, <3>1
    <3> QED
      BY <1>1, <3>2 DEF Page!CutIsFinal
  <2> QED
    BY <2>3, <2>4
<1>6. muted' => onAir' \in cut'
  BY <1>1 DEF CutInv
<1> QED
  BY <1>2, <1>3, <1>4, <1>5, <1>6 DEF CutInv, WireInv, NextInv

LEMMA HearsOfKeep == ASSUME PageTypes, CutInv, HearsOf PROVE CutInv'
<1>1. /\ Takes /\ Speaking(1) /\ Speech(1) /\ ~Unmutes(1) /\ 1 \in Pos
      /\ onAir' = down[1][2] /\ muted' = muted /\ phase' = "speaking"
      /\ UNCHANGED <<cut, sphase, sounds, active>> /\ Talks' = Talks
  BY TakenIs DEF HearsOf, Unmutes, Speaking, Speech, Takes, HubRests
<1>2. ~muted /\ phase # "speaking"
  <2>1. ~Reopened(1)
    BY TakenIs, <1>1 DEF Reopened
  <2> QED
    BY <1>1, <2>1 DEF CutInv, WireInv, Parted
<1>3. AfterUnmute' /\ NextIsNew' /\ Known' /\ TalksInPhase' /\ CutIsMuted' /\ NextIsMuted'
  <2>1. AfterUnmute'
    BY <1>1, TakesKeep DEF AfterUnmute
  <2>2. NextIsNew'
    BY <1>1, TakesKeep DEF NextIsNew
  <2> QED
    BY <1>1, <2>1, <2>2, TakesKeep, PassedOver
<1>4. OneSpeaker'
  <2>1. ASSUME NEW j \in Pos', Audio(j)'
        PROVE  down'[j][2] = onAir' \/ \E i \in Pos' : i < j /\ Speaking(i)'
    <3>1. j + 1 \in Pos /\ 1 < j + 1 /\ Audio(j + 1) /\ down'[j] = down[j + 1]
      BY <1>1, <2>1, MovedUp
    <3>2. CASE \E l \in Pos : 1 < l /\ l < j + 1 /\ Speaking(l)
      <4>1. PICK l \in Pos : 1 < l /\ l < j + 1 /\ Speaking(l)
        BY <3>2
      <4>2. l - 1 \in Pos' /\ l - 1 < j /\ Speaking(l - 1)'
        BY <1>1, <2>1, <4>1, MovedUp, TakenIs
      <4> QED
        BY <4>2
    <3> QED
      BY <1>1, <3>1, <3>2 DEF CutInv, WireInv, OneSpeaker
  <2> QED
    BY <2>1, <1>1, TakesKeep DEF OneSpeaker
<1>5. NextSpeaker'
  <2>1. Talks /\ sphase = "speaking" => active = onAir' \/ \E i \in Pos' : Speaking(i)'
    <3>1. CASE \E l \in Pos : 1 < l /\ Speaking(l)
      <4>1. PICK l \in Pos : 1 < l /\ Speaking(l)
        BY <3>1
      <4>2. l - 1 \in Pos' /\ Speaking(l - 1)'
        BY <1>1, <4>1, MovedUp, TakenIs
      <4> QED
        BY <4>2
    <3> QED
      BY <1>1, <3>1 DEF CutInv, NextInv, NextSpeaker
  <2> QED
    BY <1>1, <2>1, TakesKeep DEF NextSpeaker
<1>6. Parted'
  <2>1. ASSUME NEW j \in Pos', Speaking(j)' PROVE Reopened(j)'
    <3>1. j + 1 \in Pos /\ 1 < j + 1 /\ Speaking(j + 1)
      BY <1>1, <2>1, MovedUp
    <3>2. PICK k \in Pos : 1 < k /\ k < j + 1 /\ Unmutes(k)
      BY <1>1, <3>1 DEF CutInv, WireInv, Parted
    <3>3. k - 1 \in Pos' /\ k - 1 < j /\ Unmutes(k - 1)'
      BY <1>1, <2>1, <3>2, MovedUp, TakenIs
    <3> QED
      BY <3>3 DEF Reopened
  <2> QED
    BY <1>1, <2>1, TakesKeep DEF Parted
<1>7. NextIsParted'
  <2>1. ASSUME sphase = "thinking" PROVE \E k \in Pos' : Unmutes(k)'
    <3>1. PICK k \in Pos : 1 < k /\ Unmutes(k)
      BY <1>1, <2>1 DEF CutInv, NextInv, NextIsParted
    <3>2. k - 1 \in Pos' /\ Unmutes(k - 1)'
      BY <1>1, <3>1, MovedUp
    <3> QED
      BY <3>2
  <2> QED
    BY <1>1, <2>1, TakesKeep DEF NextIsParted
<1>8. Page!CutIsFinal' /\ ~muted'
  BY <1>1, <1>2 DEF CutInv, Page!CutIsFinal
<1> QED
  BY <1>3, <1>4, <1>5, <1>6, <1>7, <1>8 DEF CutInv, WireInv, NextInv

-----------------------------------------------------------------------------
(* What the hub does.                                                         *)

PageRests == UNCHANGED <<phase, muted, sounds, onAir, cut>>

\* What is on the wire stays, and what is added is not speech.
Adds(new) ==
    /\ new \in Seq(Kinds \X Nat) /\ down' = down \o new
    /\ \A i \in 1..Len(new) : new[i][1] \notin {"speaking", "audio"}
    /\ PageRests

LEMMA AddedIs ==
    ASSUME PageTypes, NEW new \in Seq(Kinds \X Nat), down' = down \o new
    PROVE  /\ Len(down) \in Nat /\ Len(new) \in Nat /\ Len(down') = Len(down) + Len(new)
           /\ Pos \subseteq Pos' /\ Pos' \subseteq Nat /\ \A i \in Pos : i <= Len(down)
           /\ \A i \in Pos : down'[i] = down[i]
           /\ \A i \in 1..Len(new) : 
                  /\ Len(down) + i \in Pos' /\ Len(down) + i > Len(down)
                  /\ down'[Len(down) + i] = new[i]
           /\ \A i \in Pos' : i \notin Pos =>
                  /\ i > Len(down)
                  /\ \E n \in 1..Len(new) : i = Len(down) + n /\ down'[i] = new[n]
<1>1. down \in Seq(Kinds \X Nat)
  BY DEF PageTypes, WireTyped
<1>2. /\ Len(down) \in Nat /\ Len(new) \in Nat /\ Len(down') = Len(down) + Len(new)
      /\ \A i \in 1..Len(down) : down'[i] = down[i]
      /\ \A i \in 1..Len(new) : down'[Len(down) + i] = new[i]
  BY <1>1, Joined
<1>3. ASSUME NEW i \in Pos', i \notin Pos
      PROVE  /\ i > Len(down)
             /\ \E n \in 1..Len(new) : i = Len(down) + n /\ down'[i] = new[n]
  <2>1. i > Len(down) /\ i - Len(down) \in 1..Len(new)
    BY <1>2, <1>3 DEF Pos
  <2> DEFINE n == i - Len(down)
  <2>2. Len(down) + n = i /\ n \in 1..Len(new)
    BY <1>2, <2>1 DEF Pos
  <2> HIDE DEF n
  <2>3. down'[i] = new[n]
    BY <1>2, <2>2
  <2> QED
    BY <2>1, <2>2, <2>3
<1>4. \A i \in 1..Len(new) : Len(down) + i \in Pos' /\ Len(down) + i > Len(down)
  BY <1>2 DEF Pos
<1>5. Pos \subseteq Pos' /\ Pos' \subseteq Nat /\ \A i \in Pos : i <= Len(down)
  BY <1>2 DEF Pos
<1> QED
  BY <1>2, <1>3, <1>4, <1>5, Zenon DEF Pos

\* Old messages are what they were.
LEMMA StillThere ==
    ASSUME PageTypes, NEW new \in Seq(Kinds \X Nat), down' = down \o new
    PROVE  \A i \in Pos : /\ i \in Pos' /\ i <= Len(down) /\ down'[i] = down[i]
                          /\ Speech(i)' = Speech(i) /\ Speaking(i)' = Speaking(i)
                          /\ Audio(i)' = Audio(i) /\ Unmutes(i)' = Unmutes(i)
BY AddedIs DEF Speech, Speaking, Audio, Unmutes

\* What is added is not speech.
LEMMA OldSpeech ==
    ASSUME PageTypes, NEW new, Adds(new), NEW i \in Pos',
           Speech(i)' \/ Speaking(i)' \/ Audio(i)'
    PROVE  i \in Pos
<1>1. SUFFICES ASSUME i \notin Pos PROVE FALSE
  OBVIOUS
<1>2. PICK n \in 1..Len(new) : down'[i] = new[n]
  BY <1>1, AddedIs DEF Adds
<1>3. new[n][1] \notin {"speaking", "audio"}
  BY DEF Adds
<1> QED
  BY <1>2, <1>3 DEF Speech, Speaking, Audio

\* Messages that are not speech leave what was said of those on the wire.
LEMMA AddsKeep ==
    ASSUME PageTypes, CutInv, NEW new, Adds(new), active <= active', active' \in Nat
    PROVE  WireInv' /\ Page!CutIsFinal' /\ (muted' => onAir' \in cut')
<1>1. /\ UNCHANGED <<phase, muted, sounds, onAir, cut>> /\ new \in Seq(Kinds \X Nat)
      /\ down' = down \o new
  BY DEF Adds, PageRests
<1>2. Pos' \subseteq Nat /\ Pos \subseteq Nat
  BY <1>1, AddedIs DEF Pos
<1>3. ASSUME NEW i \in Pos', Speech(i)' \/ Speaking(i)' \/ Audio(i)' PROVE i \in Pos
  BY <1>3, OldSpeech
<1>4. \A i \in Pos : /\ i \in Pos' /\ i <= Len(down) /\ down'[i] = down[i]
                     /\ Speech(i)' = Speech(i) /\ Speaking(i)' = Speaking(i)
                     /\ Audio(i)' = Audio(i) /\ Unmutes(i)' = Unmutes(i)
  BY <1>1, StillThere
<1>5. ASSUME NEW k \in Pos', NEW j \in Pos, k < j PROVE k \in Pos
  BY <1>5, <1>2, AddedIs, <1>1 DEF Pos
<1>6. Known'
  <2>1. active \in Nat
    BY DEF PageTypes, TurnsTyped
  <2> QED
    BY <1>3, <1>4, <2>1 DEF CutInv, WireInv, Known
<1>7. AfterUnmute'
  <2> SUFFICES ASSUME NEW k \in Pos', NEW j \in Pos', k < j, Unmutes(k)', Speech(j)'
               PROVE  /\ down'[j][2] \notin cut \cup {onAir}
                      /\ \A i \in Pos' : i < k /\ Speech(i)' => down'[i][2] # down'[j][2]
    BY <1>1 DEF AfterUnmute
  <2>1. j \in Pos /\ k \in Pos /\ Unmutes(k) /\ Speech(j) /\ down'[j] = down[j]
    BY <1>3, <1>4, <1>5
  <2>2. /\ down[j][2] \notin cut \cup {onAir}
        /\ \A i \in Pos : i < k /\ Speech(i) => down[i][2] # down[j][2]
    BY <2>1 DEF CutInv, WireInv, AfterUnmute
  <2> QED
    BY <1>3, <1>4, <2>1, <2>2
<1>8. CutIsMuted'
  BY <1>1, <1>3, <1>4 DEF CutInv, WireInv, CutIsMuted, Reopened
<1>9. OneSpeaker'
  <2>1. \A j \in Pos' : Audio(j)' => down'[j][2] = onAir' \/ \E i \in Pos' : i < j /\ Speaking(i)'
    BY <1>1, <1>3, <1>4 DEF CutInv, WireInv, OneSpeaker
  <2>2. \A i, j \in Pos' : i < j /\ Speaking(i)' /\ Audio(j)' =>
           down'[i][2] = down'[j][2] \/ \E l \in Pos' : i < l /\ l < j /\ Speaking(l)'
    BY <1>3, <1>4 DEF CutInv, WireInv, OneSpeaker
  <2> QED
    BY <2>1, <2>2 DEF OneSpeaker
<1>10. Parted'
  <2>1. \A i, j \in Pos' : i < j /\ Speaking(i)' /\ Speaking(j)' =>
           \E k \in Pos' : i < k /\ k < j /\ Unmutes(k)'
    BY <1>3, <1>4 DEF CutInv, WireInv, Parted
  <2>2. \A j \in Pos' : Speaking(j)' /\ (muted' \/ phase' = "speaking") => Reopened(j)'
    BY <1>1, <1>3, <1>4 DEF CutInv, WireInv, Parted, Reopened
  <2> QED
    BY <2>1, <2>2 DEF Parted
<1> QED
  BY <1>1, <1>6, <1>7, <1>8, <1>9, <1>10 DEF CutInv, WireInv, Page!CutIsFinal

\* The current turn, if there is one, has nothing more to say; the hub is idle or listens.
Settles ==
    /\ \E new : Adds(new)
    /\ ~Talks' /\ sphase' \in {"idle", "listening"} /\ UNCHANGED <<active, turn>>

LEMMA SettlesKeep == ASSUME PageTypes, CutInv, Settles PROVE CutInv'
<1>1. PICK new : Adds(new)
  BY DEF Settles
<1>2. WireInv' /\ Page!CutIsFinal' /\ (muted' => onAir' \in cut')
  BY <1>1, AddsKeep DEF Settles, PageTypes, TurnsTyped
<1>3. NextInv'
  BY DEF Settles, NextInv, NextIsNew, NextIsMuted, NextSpeaker, NextIsParted, TalksInPhase
<1> QED
  BY <1>2, <1>3 DEF CutInv

\* A turn begins; the page is told that he thinks, unless it was when the last turn began.
Begins ==
    /\ turn' = turn + 1 /\ active' = turn' /\ sphase' = "thinking" /\ portions' = 0
    /\ \E new : /\ Adds(new)
                /\ sphase = "thinking" \/ \E i \in 1..Len(new) : new[i][1] = "thinking"

LEMMA BeginsKeep == ASSUME PageTypes, Past, CutInv, Begins PROVE CutInv'
<1>1. PICK new : /\ Adds(new)
                 /\ sphase = "thinking" \/ \E i \in 1..Len(new) : new[i][1] = "thinking"
  BY DEF Begins
<1>2. /\ UNCHANGED <<phase, muted, sounds, onAir, cut>> /\ new \in Seq(Kinds \X Nat)
      /\ down' = down \o new
  BY <1>1 DEF Adds, PageRests
<1>3. /\ active' \in Nat /\ active' > active /\ active' > onAir /\ active' \notin cut
      /\ active \in Nat /\ onAir \in Nat /\ sphase' = "thinking" /\ portions' = 0
  BY DEF Begins, PageTypes, TurnsTyped, Past
<1>4. WireInv' /\ Page!CutIsFinal' /\ (muted' => onAir' \in cut')
  BY <1>1, <1>3, AddsKeep
<1>5. ASSUME NEW i \in Pos', Speech(i)' \/ Speaking(i)'
      PROVE  i \in Pos /\ i <= Len(down) /\ down'[i] = down[i] /\ (Speaking(i)' => Speaking(i))
  <2>1. i \in Pos
    BY <1>1, <1>5, OldSpeech
  <2> QED
    BY <1>2, <2>1, StillThere
<1>6. NextIsNew'
  <2>1. \A i \in Pos' : Speech(i)' => down'[i][2] # active'
    <3>1. Known'
      BY <1>4 DEF WireInv
    <3>2. ASSUME NEW i \in Pos', Speech(i)' PROVE down'[i][2] # active'
      <4>1. i \in Pos /\ down'[i] = down[i] /\ Speech(i)
        BY <1>2, <1>5, <3>2, StillThere
      <4>2. down[i][2] \in 1..active
        BY <4>1 DEF CutInv, WireInv, Known
      <4> QED
        BY <1>3, <4>1, <4>2
    <3> QED
      BY <3>2
  <2>2. active' \notin cut' \cup {onAir'}
    BY <1>2, <1>3
  <2> QED
    BY <2>1, <2>2, Zenon DEF NextIsNew
<1>7. NextIsMuted' /\ NextSpeaker' /\ TalksInPhase'
  BY <1>2, <1>3 DEF NextIsMuted, NextSpeaker, TalksInPhase
<1>8. NextIsParted'
  <2>1. CASE sphase = "thinking"
    <3>1. ASSUME NEW i \in Pos', Speaking(i)' PROVE \E k \in Pos' : i < k /\ Unmutes(k)'
      <4>1. i \in Pos /\ Speaking(i)
        BY <1>5, <3>1
      <4>2. PICK k \in Pos : i < k /\ Unmutes(k)
        BY <2>1, <4>1 DEF CutInv, NextInv, NextIsParted
      <4>3. k \in Pos' /\ Unmutes(k)'
        BY <1>2, <4>2, StillThere
      <4> QED
        BY <4>2, <4>3
    <3>2. ASSUME muted \/ phase = "speaking" PROVE \E k \in Pos' : Unmutes(k)'
      <4>1. PICK k \in Pos : Unmutes(k)
        BY <2>1, <3>2 DEF CutInv, NextInv, NextIsParted
      <4>2. k \in Pos' /\ Unmutes(k)'
        BY <1>2, <4>1, StillThere
      <4> QED
        BY <4>2
    <3> QED
      BY <1>2, <3>1, <3>2 DEF NextIsParted
  <2>2. CASE \E i \in 1..Len(new) : new[i][1] = "thinking"
    <3>1. PICK n \in 1..Len(new) : new[n][1] = "thinking"
      BY <2>2
    <3>2. PICK m \in Pos' : m > Len(down) /\ down'[m] = new[n]
      BY <1>2, AddedIs
    <3>3. Unmutes(m)'
      BY <3>1, <3>2 DEF Unmutes
    <3>4. \A i \in Pos' : Speaking(i)' => i < m
      BY <1>2, <1>5, AddedIs, <3>2 DEF Pos
    <3>5. \A i \in Pos' : Speaking(i)' => \E k \in Pos' : i < k /\ Unmutes(k)'
      BY <3>2, <3>3, <3>4
    <3> QED
      BY <3>2, <3>3, <3>5, Zenon DEF NextIsParted
  <2> QED
    BY <1>1, <2>1, <2>2
<1> QED
  BY <1>4, <1>6, <1>7, <1>8 DEF CutInv, NextInv

\* The current turn says a little more, and is said to speak if it was not yet.
Says ==
    /\ Talks /\ Talks' /\ UNCHANGED <<active, turn>> /\ sphase' = "speaking" /\ PageRests
    /\ \/ sphase = "speaking" /\ down' = down \o <<<<"audio", active>>>>
       \/ sphase # "speaking" /\ down' = down \o <<<<"speaking", active>>, <<"audio", active>>>>

LEMMA SaidIs ==
    ASSUME PageTypes, CutInv, Says
    PROVE  /\ Len(down) \in Nat /\ Pos' \subseteq Nat /\ Pos \subseteq Nat
           /\ active \in 1..active /\ UNCHANGED <<active, turn>>
           /\ \A i \in Pos : /\ i \in Pos' /\ i <= Len(down) /\ down'[i] = down[i]
                             /\ Speech(i)' = Speech(i) /\ Speaking(i)' = Speaking(i)
                             /\ Audio(i)' = Audio(i) /\ Unmutes(i)' = Unmutes(i)
           /\ \A i \in Pos' : i \notin Pos =>
                  i > Len(down) /\ down'[i][2] = active /\ ~Unmutes(i)'
           /\ sphase = "speaking" => \A i \in Pos' : Speaking(i)' => i \in Pos
           /\ sphase # "speaking" => \E m \in Pos' :
                  /\ m > Len(down) /\ Speaking(m)' /\ down'[m][2] = active
                  /\ \A i \in Pos' : Speaking(i)' => i \in Pos \/ i = m
                  /\ \A i \in Pos' : Audio(i)' => i \in Pos \/ i > m
<1>1. active \in Nat /\ active # 0
  BY DEF PageTypes, TurnsTyped, Says, Talks
<1>2. <<"audio", active>> \in Kinds \X Nat /\ <<"speaking", active>> \in Kinds \X Nat
  BY <1>1 DEF Kinds
<1> DEFINE one == <<<<"audio", active>>>>
           two == <<<<"speaking", active>>, <<"audio", active>>>>
<1>3. /\ one \in Seq(Kinds \X Nat) /\ Len(one) = 1 /\ one[1] = <<"audio", active>>
      /\ two \in Seq(Kinds \X Nat) /\ Len(two) = 2
      /\ two[1] = <<"speaking", active>> /\ two[2] = <<"audio", active>>
  <2>1. one \in Seq(Kinds \X Nat) /\ Len(one) = 1 /\ one[1] = <<"audio", active>>
    BY <1>2, OneOf, Zenon
  <2>2. <<<<"speaking", active>>>> \in Seq(Kinds \X Nat)
    BY <1>2, OneOf, Zenon
  <2>3. two \in Seq(Kinds \X Nat)
    BY <1>2
  <2> QED
    BY <2>1, <2>3
<1>4. UNCHANGED <<active, turn>> /\ active \in 1..active
  BY <1>1 DEF Says
<1> HIDE DEF one, two
<1>5. CASE sphase = "speaking"
  <2>1. down' = down \o one
    BY <1>5 DEF Says, one
  <2>2. \A i \in Pos' : i \notin Pos => i > Len(down) /\ down'[i] = <<"audio", active>>
    <3> SUFFICES ASSUME NEW i \in Pos', i \notin Pos
                 PROVE  i > Len(down) /\ down'[i] = <<"audio", active>>
      OBVIOUS
    <3>1. i > Len(down) /\ \E n \in 1..Len(one) : down'[i] = one[n]
      BY <1>3, <2>1, AddedIs
    <3> QED
      BY <1>3, <3>1
  <2>3. \A i \in Pos' : i \notin Pos => down'[i][2] = active /\ ~Unmutes(i)' /\ ~Speaking(i)'
    BY <2>2 DEF Unmutes, Speaking
  <2>4. /\ Len(down) \in Nat /\ Pos' \subseteq Nat /\ Pos \subseteq Nat
    BY <1>3, <2>1, AddedIs
  <2>5. \A i \in Pos : /\ i \in Pos' /\ i <= Len(down) /\ down'[i] = down[i]
                       /\ Speech(i)' = Speech(i) /\ Speaking(i)' = Speaking(i)
                       /\ Audio(i)' = Audio(i) /\ Unmutes(i)' = Unmutes(i)
    BY <1>3, <2>1, StillThere
  <2>6. \A i \in Pos' : i \notin Pos => i > Len(down) /\ down'[i][2] = active /\ ~Unmutes(i)'
    BY <2>2, <2>3
  <2>7. \A i \in Pos' : Speaking(i)' => i \in Pos
    BY <2>3
  <2> QED
    BY <1>4, <1>5, <2>4, <2>5, <2>6, <2>7, Zenon
<1>6. CASE sphase # "speaking"
  <2>1. down' = down \o two
    BY <1>6 DEF Says, two
  <2>2. PICK m \in Pos' : m = Len(down) + 1 /\ down'[m] = <<"speaking", active>>
    <3>1. 1 \in 1..Len(two)
      BY <1>3
    <3>2. Len(down) + 1 \in Pos' /\ down'[Len(down) + 1] = two[1]
      BY <1>3, <2>1, <3>1, AddedIs
    <3> QED
      BY <1>3, <3>2, Zenon
  <2>3. \A i \in Pos' : i \notin Pos =>
            \/ i = m
            \/ i = Len(down) + 2 /\ down'[i] = <<"audio", active>>
    <3> SUFFICES ASSUME NEW i \in Pos', i \notin Pos
                 PROVE  i = m \/ (i = Len(down) + 2 /\ down'[i] = <<"audio", active>>)
      OBVIOUS
    <3>1. PICK n \in 1..Len(two) : i = Len(down) + n /\ down'[i] = two[n]
      BY <1>3, <2>1, AddedIs
    <3>2. n = 1 \/ n = 2
      BY <1>3
    <3> QED
      BY <1>3, <2>2, <3>1, <3>2
  <2>4. Len(down) \in Nat /\ Pos' \subseteq Nat /\ Pos \subseteq Nat
    BY <1>3, <2>1, AddedIs
  <2>5. \A i \in Pos : /\ i \in Pos' /\ i <= Len(down) /\ down'[i] = down[i]
                       /\ Speech(i)' = Speech(i) /\ Speaking(i)' = Speaking(i)
                       /\ Audio(i)' = Audio(i) /\ Unmutes(i)' = Unmutes(i)
    BY <1>3, <2>1, StillThere
  <2>6. Speaking(m)' /\ ~Audio(m)' /\ ~Unmutes(m)' /\ down'[m][2] = active /\ m > Len(down)
    BY <2>2, <2>4 DEF Speaking, Audio, Unmutes
  <2>7. \A i \in Pos' : i \notin Pos =>
            i = m \/ (i > m /\ ~Speaking(i)' /\ ~Unmutes(i)' /\ down'[i][2] = active)
    <3> SUFFICES ASSUME NEW i \in Pos', i \notin Pos, i # m
                 PROVE  i > m /\ ~Speaking(i)' /\ ~Unmutes(i)' /\ down'[i][2] = active
      OBVIOUS
    <3>1. i = Len(down) + 2 /\ down'[i] = <<"audio", active>>
      BY <2>3
    <3>2. i > m
      BY <2>2, <2>4, <3>1
    <3>3. down'[i][1] = "audio" /\ down'[i][2] = active
      BY <3>1
    <3> QED
      BY <3>2, <3>3 DEF Speaking, Unmutes
  <2>8. \A i \in Pos' : i \notin Pos => i > Len(down) /\ down'[i][2] = active /\ ~Unmutes(i)'
    <3> SUFFICES ASSUME NEW i \in Pos', i \notin Pos
                 PROVE  i > Len(down) /\ down'[i][2] = active /\ ~Unmutes(i)'
      OBVIOUS
    <3>1. CASE i = m
      BY <2>6, <3>1, Zenon
    <3>2. CASE i # m
      <4>1. i > m /\ ~Unmutes(i)' /\ down'[i][2] = active
        BY <2>7, <3>2, Zenon
      <4>2. i > Len(down)
        BY <2>2, <2>4, <4>1
      <4> QED
        BY <4>1, <4>2, Zenon
    <3> QED
      BY <3>1, <3>2, Zenon
  <2>9. /\ m \in Pos' /\ m > Len(down) /\ Speaking(m)' /\ down'[m][2] = active
        /\ \A i \in Pos' : Speaking(i)' => i \in Pos \/ i = m
        /\ \A i \in Pos' : Audio(i)' => i \in Pos \/ i > m
    BY <2>6, <2>7
  <2> QED
    BY <1>4, <1>6, <2>4, <2>5, <2>8, <2>9, Zenon
<1> QED
  BY <1>5, <1>6

LEMMA SaysKeep == ASSUME PageTypes, CutInv, Says PROVE CutInv'
<1>1. UNCHANGED <<phase, muted, sounds, onAir, cut>> /\ sphase' = "speaking" /\ Talks /\ Talks'
  BY DEF Says, PageRests
<1>2. /\ Len(down) \in Nat /\ Pos' \subseteq Nat /\ Pos \subseteq Nat
      /\ active \in 1..active /\ UNCHANGED <<active, turn>>
  BY SaidIs
<1>3. \A i \in Pos : /\ i \in Pos' /\ i <= Len(down) /\ down'[i] = down[i]
                     /\ Speech(i)' = Speech(i) /\ Speaking(i)' = Speaking(i)
                     /\ Audio(i)' = Audio(i) /\ Unmutes(i)' = Unmutes(i)
  BY SaidIs
<1>4. \A i \in Pos' : i \notin Pos => i > Len(down) /\ down'[i][2] = active /\ ~Unmutes(i)'
  BY SaidIs
<1>5. Known'
  BY <1>2, <1>3, <1>4 DEF CutInv, WireInv, Known
<1>6. \A k \in Pos' : Unmutes(k)' =>
          /\ k \in Pos /\ Unmutes(k) /\ active \notin cut \cup {onAir}
          /\ \A i \in Pos' : i < k =>
                 i \in Pos /\ Speech(i)' = Speech(i) /\ (Speech(i)' => down'[i][2] # active)
  <2> SUFFICES ASSUME NEW k \in Pos', Unmutes(k)'
               PROVE  /\ k \in Pos /\ Unmutes(k) /\ active \notin cut \cup {onAir}
                      /\ \A i \in Pos' : i < k =>
                             i \in Pos /\ Speech(i)' = Speech(i) /\ (Speech(i)' => down'[i][2] # active)
    OBVIOUS
  <2>1. k \in Pos /\ Unmutes(k)
    BY <1>3, <1>4
  <2>2. active \notin cut \cup {onAir} /\ \A i \in Pos : i < k /\ Speech(i) => down[i][2] # active
    BY <1>1, <2>1 DEF CutInv, NextInv, NextIsNew
  <2>3. ASSUME NEW i \in Pos', i < k PROVE i \in Pos
    BY <1>2, <1>3, <1>4, <2>1, <2>3
  <2> QED
    BY <1>3, <2>1, <2>2, <2>3
<1>7. AfterUnmute'
  <2> SUFFICES ASSUME NEW k \in Pos', NEW j \in Pos', k < j, Unmutes(k)', Speech(j)'
               PROVE  /\ down'[j][2] \notin cut \cup {onAir}
                      /\ \A i \in Pos' : i < k /\ Speech(i)' => down'[i][2] # down'[j][2]
    BY <1>1 DEF AfterUnmute
  <2>1. CASE j \in Pos
    <3>1. k \in Pos /\ Unmutes(k) /\ Speech(j) /\ down'[j] = down[j]
      BY <1>3, <1>6, <2>1
    <3>2. /\ down[j][2] \notin cut \cup {onAir}
          /\ \A i \in Pos : i < k /\ Speech(i) => down[i][2] # down[j][2]
      BY <2>1, <3>1 DEF CutInv, WireInv, AfterUnmute
    <3>3. ASSUME NEW i \in Pos', i < k, Speech(i)' PROVE down'[i][2] # down'[j][2]
      BY <1>3, <1>6, <3>1, <3>2, <3>3
    <3> QED
      BY <3>1, <3>2, <3>3
  <2>2. CASE j \notin Pos
    BY <1>4, <1>6, <2>2
  <2> QED
    BY <2>1, <2>2
<1>8. NextIsNew'
  BY <1>1, <1>2, <1>6 DEF NextIsNew
<1>9. active \in cut => muted \/ \E k \in Pos : Unmutes(k)
  BY <1>1 DEF CutInv, NextInv, NextIsMuted
<1>10. CutIsMuted'
  <2> SUFFICES ASSUME NEW j \in Pos', Audio(j)', down'[j][2] \in cut, ~muted
               PROVE  \E k \in Pos' : k < j /\ Unmutes(k)'
    BY <1>1 DEF CutIsMuted, Reopened
  <2>1. CASE j \in Pos
    <3>1. Audio(j) /\ down[j][2] \in cut
      BY <1>3, <2>1
    <3>2. PICK k \in Pos : k < j /\ Unmutes(k)
      BY <2>1, <3>1 DEF CutInv, WireInv, CutIsMuted, Reopened
    <3> QED
      BY <1>3, <3>2
  <2>2. CASE j \notin Pos
    <3>1. PICK k \in Pos : Unmutes(k)
      BY <1>4, <1>9, <2>2
    <3>2. k \in Pos' /\ k < j /\ Unmutes(k)'
      BY <1>2, <1>3, <1>4, <2>2, <3>1
    <3> QED
      BY <3>2
  <2> QED
    BY <2>1, <2>2
<1>11. NextIsMuted'
  <2>1. ASSUME NEW k \in Pos, Unmutes(k) PROVE k \in Pos' /\ Unmutes(k)'
    BY <1>3, <2>1
  <2> QED
    BY <1>1, <1>2, <1>9, <2>1 DEF NextIsMuted
<1>12. OneSpeaker' /\ NextSpeaker' /\ Parted'
  <2>1. CASE sphase = "speaking"
    <3>1. ASSUME NEW i \in Pos', Speaking(i)' PROVE i \in Pos /\ Speaking(i) /\ down'[i] = down[i]
      BY <1>3, <2>1, <3>1, SaidIs
    <3>2. /\ active = onAir \/ \E i \in Pos' : Speaking(i)'
          /\ \A i \in Pos' : Speaking(i)' =>
                 down'[i][2] = active \/ \E l \in Pos' : i < l /\ Speaking(l)'
      <4>1. /\ active = onAir \/ \E i \in Pos : Speaking(i)
            /\ \A i \in Pos : Speaking(i) => down[i][2] = active \/ \E l \in Pos : i < l /\ Speaking(l)
        BY <1>1, <2>1 DEF CutInv, NextInv, NextSpeaker
      <4> QED
        BY <1>3, <3>1, <4>1
    <3>3. ASSUME NEW j \in Pos', Audio(j)'
          PROVE  down'[j][2] = onAir \/ \E i \in Pos' : i < j /\ Speaking(i)'
      <4>1. CASE j \in Pos
        <5>1. down[j][2] = onAir \/ \E i \in Pos : i < j /\ Speaking(i)
          BY <1>3, <3>3, <4>1 DEF CutInv, WireInv, OneSpeaker
        <5> QED
          BY <1>3, <4>1, <5>1
      <4>2. CASE j \notin Pos
        <5>1. \A i \in Pos' : Speaking(i)' => i < j
          BY <1>2, <1>3, <1>4, <3>1, <4>2
        <5> QED
          BY <1>4, <3>2, <4>2, <5>1
      <4> QED
        BY <4>1, <4>2
    <3>4. ASSUME NEW i \in Pos', NEW j \in Pos', i < j, Speaking(i)', Audio(j)'
          PROVE  down'[i][2] = down'[j][2] \/ \E l \in Pos' : i < l /\ l < j /\ Speaking(l)'
      <4>1. CASE j \in Pos
        <5>1. down[i][2] = down[j][2] \/ \E l \in Pos : i < l /\ l < j /\ Speaking(l)
          BY <1>3, <3>1, <3>4, <4>1 DEF CutInv, WireInv, OneSpeaker
        <5> QED
          BY <1>3, <3>1, <3>4, <4>1, <5>1
      <4>2. CASE j \notin Pos
        <5>1. \A l \in Pos' : Speaking(l)' => l < j
          BY <1>2, <1>3, <1>4, <3>1, <4>2
        <5> QED
          BY <1>4, <3>2, <3>4, <4>2, <5>1
      <4> QED
        BY <4>1, <4>2
    <3>5. OneSpeaker' /\ NextSpeaker'
      BY <1>1, <1>2, <3>2, <3>3, <3>4 DEF OneSpeaker, NextSpeaker
    <3>6. Parted'
      <4>1. ASSUME NEW i \in Pos', NEW j \in Pos', i < j, Speaking(i)', Speaking(j)'
            PROVE  \E k \in Pos' : i < k /\ k < j /\ Unmutes(k)'
        <5>1. PICK k \in Pos : i < k /\ k < j /\ Unmutes(k)
          BY <3>1, <4>1 DEF CutInv, WireInv, Parted
        <5> QED
          BY <1>3, <5>1
      <4>2. ASSUME NEW j \in Pos', Speaking(j)', muted \/ phase = "speaking" PROVE Reopened(j)'
        <5>1. PICK k \in Pos : k < j /\ Unmutes(k)
          BY <3>1, <4>2 DEF CutInv, WireInv, Parted, Reopened
        <5> QED
          BY <1>3, <5>1 DEF Reopened
      <4> QED
        BY <1>1, <4>1, <4>2 DEF Parted
    <3> QED
      BY <3>5, <3>6
  <2>2. CASE sphase # "speaking"
    <3>1. sphase = "thinking"
      BY <1>1, <2>2 DEF CutInv, NextInv, TalksInPhase
    <3>2. PICK m \in Pos' :
              /\ m > Len(down) /\ Speaking(m)' /\ down'[m][2] = active
              /\ \A i \in Pos' : Speaking(i)' => i \in Pos \/ i = m
              /\ \A i \in Pos' : Audio(i)' => i \in Pos \/ i > m
      BY <2>2, SaidIs
    <3>3. \A i \in Pos : i < m
      BY <1>2, <1>3, <3>2
    <3>4. \A j \in Pos' : Audio(j)' => down'[j][2] = onAir \/ \E i \in Pos' : i < j /\ Speaking(i)'
      <4> SUFFICES ASSUME NEW j \in Pos', Audio(j)'
                   PROVE  down'[j][2] = onAir \/ \E i \in Pos' : i < j /\ Speaking(i)'
        OBVIOUS
      <4>1. CASE j \in Pos
        <5>1. down[j][2] = onAir \/ \E i \in Pos : i < j /\ Speaking(i)
          BY <1>3, <4>1 DEF CutInv, WireInv, OneSpeaker
        <5> QED
          BY <1>3, <4>1, <5>1
      <4> QED
        BY <3>2, <4>1
    <3>5. ASSUME NEW i \in Pos', NEW j \in Pos', i < j, Speaking(i)', Audio(j)'
          PROVE  down'[i][2] = down'[j][2] \/ \E l \in Pos' : i < l /\ l < j /\ Speaking(l)'
      <4>1. CASE j \in Pos
        <5>1. i \in Pos /\ Speaking(i)
          BY <1>2, <1>3, <3>2, <3>3, <3>5, <4>1
        <5>2. down[i][2] = down[j][2] \/ \E l \in Pos : i < l /\ l < j /\ Speaking(l)
          BY <1>3, <3>5, <4>1, <5>1 DEF CutInv, WireInv, OneSpeaker
        <5> QED
          BY <1>3, <4>1, <5>1, <5>2
      <4>2. CASE j \notin Pos
        <5>1. j > m /\ down'[j][2] = active
          BY <1>4, <3>2, <3>5, <4>2
        <5> QED
          BY <3>2, <3>3, <3>5, <5>1
      <4> QED
        BY <4>1, <4>2
    <3>6. OneSpeaker'
      BY <1>1, <3>4, <3>5 DEF OneSpeaker
    <3>7. NextSpeaker'
      BY <1>2, <3>2, <3>3 DEF NextSpeaker
    <3>8. ASSUME NEW i \in Pos', NEW j \in Pos', i < j, Speaking(i)', Speaking(j)'
          PROVE  \E k \in Pos' : i < k /\ k < j /\ Unmutes(k)'
      <4>1. i \in Pos /\ Speaking(i)
        BY <1>2, <1>3, <3>2, <3>3, <3>8
      <4>2. CASE j \in Pos
        <5>1. PICK k \in Pos : i < k /\ k < j /\ Unmutes(k)
          BY <1>3, <3>8, <4>1, <4>2 DEF CutInv, WireInv, Parted
        <5> QED
          BY <1>3, <5>1
      <4>3. CASE j = m
        <5>1. PICK k \in Pos : i < k /\ Unmutes(k)
          BY <3>1, <4>1 DEF CutInv, NextInv, NextIsParted
        <5> QED
          BY <1>3, <3>3, <4>3, <5>1
      <4> QED
        BY <3>2, <3>8, <4>2, <4>3
    <3>9. ASSUME NEW j \in Pos', Speaking(j)', muted \/ phase = "speaking" PROVE Reopened(j)'
      <4>1. CASE j \in Pos
        <5>1. PICK k \in Pos : k < j /\ Unmutes(k)
          BY <1>3, <3>9, <4>1 DEF CutInv, WireInv, Parted, Reopened
        <5> QED
          BY <1>3, <5>1 DEF Reopened
      <4>2. CASE j = m
        <5>1. PICK k \in Pos : Unmutes(k)
          BY <3>1, <3>9 DEF CutInv, NextInv, NextIsParted
        <5> QED
          BY <1>3, <3>3, <4>2, <5>1 DEF Reopened
      <4> QED
        BY <3>2, <3>9, <4>1, <4>2
    <3>10. Parted'
      BY <1>1, <3>8, <3>9 DEF Parted
    <3> QED
      BY <3>6, <3>7, <3>10
  <2> QED
    BY <2>1, <2>2
<1>13. NextIsParted' /\ TalksInPhase'
  BY <1>1 DEF NextIsParted, TalksInPhase
<1>14. Page!CutIsFinal' /\ (muted' => onAir' \in cut')
  BY <1>1 DEF CutInv, Page!CutIsFinal
<1> QED
  BY <1>5, <1>7, <1>8, <1>10, <1>11, <1>12, <1>13, <1>14 DEF CutInv, WireInv, NextInv

-----------------------------------------------------------------------------
(* Each action is one of these.                                               *)

\* The connection is lost, and with it what was on the wire and what the page knew of it.
Drops ==
    /\ down' = <<>> /\ sounds' = <<>> /\ muted' = FALSE /\ phase' = "idle"
    /\ sphase' = "idle" /\ active' = 0 /\ cancelled' = FALSE /\ portions' = Page!Over
    /\ UNCHANGED <<onAir, cut, turn>>

LEMMA DropsKeep == ASSUME PageTypes, Drops PROVE CutInv'
<1>1. Pos' = {} /\ ~Talks' /\ ~muted' /\ sphase' = "idle"
  BY DEF Drops, Pos, Talks
<1>2. WireInv'
  BY <1>1 DEF WireInv, Known, AfterUnmute, CutIsMuted, OneSpeaker, Parted
<1>3. NextInv'
  BY <1>1 DEF NextInv, NextIsNew, NextIsMuted, NextSpeaker, NextIsParted, TalksInPhase
<1>4. Page!CutIsFinal'
  BY DEF Drops, Page!CutIsFinal
<1> QED
  BY <1>1, <1>2, <1>3, <1>4 DEF CutInv

\* What the user and the page do by themselves.
PageActs ==
    \/ \E loud, ends \in BOOLEAN : Page!Frame(loud, ends)
    \/ Page!KeyDown \/ Page!PushFrame \/ Page!KeyUp
    \/ Page!FlushDone \/ Page!Resume \/ Page!Play
    \/ Page!Stop \/ Page!SendText \/ Page!Connect

LEMMA FlushCuts ==
    ASSUME phase = "speaking", phase' \in {phase, "idle"}, NEW why, Page!Flush(why),
           UNCHANGED <<onAir, down, Page!hubVars>>
    PROVE  CutsOff
BY DEF CutsOff, Page!Flush, Page!Silenced, Page!hubVars

LEMMA PushCuts ==
    ASSUME Page!BeginPush, UNCHANGED <<phase, onAir, down, Page!hubVars>>
    PROVE  CutsOff \/ Rests
<1>1. CASE phase = "speaking"
  <2>1. Page!Flush("push")
    BY <1>1 DEF Page!BeginPush
  <2> QED
    BY <1>1, <2>1, FlushCuts
<1>2. CASE phase # "speaking"
  BY <1>2, Zenon DEF Page!BeginPush, Rests, Page!hubVars
<1> QED
  BY <1>1, <1>2

LEMMA PageActsAre == ASSUME PageActs PROVE CutsOff \/ Rests
<1>1. ASSUME NEW loud \in BOOLEAN, NEW ends \in BOOLEAN, Page!Frame(loud, ends)
      PROVE  CutsOff \/ Rests
  <2>1. UNCHANGED <<phase, onAir, down, Page!hubVars>>
    BY <1>1 DEF Page!Frame
  <2>2. CASE Page!HoldBack(vad')
    <3>1. phase = "speaking"
      BY <2>2 DEF Page!HoldBack
    <3>2. Page!Flush("barge") \/ UNCHANGED <<muted, sounds, cut>>
      BY <2>2 DEF Page!HoldBack
    <3>3. UNCHANGED <<muted, sounds, cut>> => Rests
      BY <2>1, Zenon DEF Rests, Page!hubVars
    <3> QED
      BY <2>1, <3>1, <3>2, <3>3, FlushCuts
  <2>3. CASE Page!Stream(vad', ends)
    BY <2>1, <2>3, Zenon DEF Page!Stream, Rests, Page!hubVars
  <2> QED
    BY <1>1, <2>2, <2>3 DEF Page!Frame
<1>2. ASSUME Page!KeyDown PROVE CutsOff \/ Rests
  <2>1. UNCHANGED <<phase, onAir, down, Page!hubVars>>
    BY <1>2 DEF Page!KeyDown
  <2>2. Page!BeginPush \/ UNCHANGED <<muted, sounds, cut>>
    BY <1>2 DEF Page!KeyDown
  <2>3. UNCHANGED <<muted, sounds, cut>> => Rests
    BY <2>1, Zenon DEF Rests, Page!hubVars
  <2> QED
    BY <2>1, <2>2, <2>3, PushCuts
<1>3. ASSUME Page!PushFrame PROVE CutsOff \/ Rests
  <2>1. UNCHANGED <<phase, onAir, down, Page!hubVars>>
    BY <1>3 DEF Page!PushFrame
  <2>2. Page!BeginPush \/ UNCHANGED <<muted, sounds, cut>>
    BY <1>3 DEF Page!PushFrame
  <2>3. UNCHANGED <<muted, sounds, cut>> => Rests
    BY <2>1, Zenon DEF Rests, Page!hubVars
  <2> QED
    BY <2>1, <2>2, <2>3, PushCuts
<1>4. ASSUME Page!KeyUp \/ Page!FlushDone \/ Page!Resume \/ Page!Play \/ Page!Connect PROVE Rests
  BY <1>4, Zenon
     DEF Page!KeyUp, Page!FlushDone, Page!Resume, Page!Play, Page!Connect, Rests, Page!hubVars,
         Page!playVars, Page!pageVars
<1>5. ASSUME Page!Stop PROVE CutsOff \/ Rests
  <2>1. phase' = "idle" /\ UNCHANGED <<onAir, down, Page!hubVars>>
    BY <1>5 DEF Page!Stop
  <2>2. (phase = "speaking" /\ Page!Flush("stop")) \/ UNCHANGED <<muted, sounds, cut>>
    BY <1>5 DEF Page!Stop
  <2>3. UNCHANGED <<muted, sounds, cut>> => Rests
    BY <2>1, Zenon DEF Rests, Page!hubVars
  <2> QED
    BY <2>1, <2>2, <2>3, FlushCuts
<1>6. ASSUME Page!SendText PROVE CutsOff \/ Rests
  <2>1. UNCHANGED <<phase, onAir, down, Page!hubVars>>
    BY <1>6 DEF Page!SendText
  <2>2. (phase = "speaking" /\ Page!Silenced) \/ UNCHANGED <<muted, sounds, cut>>
    BY <1>6 DEF Page!SendText
  <2>3. UNCHANGED <<muted, sounds, cut>> => Rests
    BY <2>1, Zenon DEF Rests, Page!hubVars
  <2>4. phase = "speaking" /\ Page!Silenced => CutsOff
    BY <2>1 DEF CutsOff, Page!Silenced, Page!hubVars
  <2> QED
    BY <2>2, <2>3, <2>4
<1> QED
  BY <1>1, <1>2, <1>3, <1>4, <1>5, <1>6 DEF PageActs

LEMMA ReceiveIs ==
    ASSUME PageTypes, Page!Receive
    PROVE  Listens \/ Notes \/ HearsOf \/ Hears
<1>1. Takes
  BY DEF Page!Receive, Takes, HubRests, Page!hubVars
<1>2. Head(down) = down[1]
  BY <1>1 DEF PageTypes, WireTyped, Takes
<1>3. CASE Page!PhaseComes(down[1])
  <2>1. CASE down[1][1] \in {"thinking", "idle"}
    BY <1>1, <1>3, <2>1 DEF Page!PhaseComes, Listens, Unmutes
  <2>2. CASE down[1][1] = "listening"
    BY <1>1, <1>3, <2>2 DEF Page!PhaseComes, Notes, Unmutes, Speech, PageTypes, PlayTyped
  <2>3. CASE down[1][1] = "speaking"
    BY <1>1, <1>3, <2>3 DEF Page!PhaseComes, HearsOf, Speaking, PageTypes, PlayTyped
  <2> QED
    BY <1>3, <2>1, <2>2, <2>3, PageNames DEF Page!PhaseComes
<1>4. CASE Page!AudioComes(down[1])
  BY <1>1, <1>4 DEF Page!AudioComes, Hears, Audio
<1>5. CASE Page!EndpointComes(down[1])
  BY <1>1, <1>5 DEF Page!EndpointComes, Notes, Unmutes, Speech
<1> QED
  BY <1>2, <1>3, <1>4, <1>5 DEF Page!Receive

LEMMA OnlyOne ==
    ASSUME NEW p, NEW t, NEW w, w = <<<<p, t>>>>
    PROVE  Len(w) = 1 /\ w[1][1] = p
OBVIOUS

\* Messages, however they are put together.
Messages == Seq(Kinds \X Nat)

LEMMA Associative ==
    ASSUME NEW a \in Messages, NEW b \in Messages, NEW c \in Messages
    PROVE  (a \o b) \o c = a \o (b \o c)
<1> DEFINE l == (a \o b) \o c
           r == a \o (b \o c)
<1>1. /\ l \in Messages /\ Len(l) = Len(a) + Len(b) + Len(c)
      /\ r \in Messages /\ Len(r) = Len(a) + Len(b) + Len(c)
      /\ \A i \in 1..Len(l) : l[i] = r[i]
  <2> DEFINE S == Kinds \X Nat
  <2>1. a \in Seq(S) /\ b \in Seq(S) /\ c \in Seq(S)
    BY DEF Messages
  <2> HIDE DEF S
  <2>2. /\ l \in Seq(S) /\ Len(l) = Len(a) + Len(b) + Len(c)
        /\ r \in Seq(S) /\ Len(r) = Len(a) + Len(b) + Len(c)
        /\ \A i \in 1..Len(l) : l[i] = r[i]
    BY <2>1
  <2> QED
    BY <2>2 DEF S, Messages
<1> HIDE DEF l, r
<1>2. l = r
  BY <1>1 DEF Messages
<1> QED
  BY <1>2 DEF l, r

\* The hub tells a phase that is no speech.
LEMMA ToldAdds ==
    ASSUME PageTypes, NEW p \in {"idle", "listening", "thinking"}, NEW t \in Nat,
           down' = down \o Page!Told(p, t), PageRests
    PROVE  /\ Adds(Page!Told(p, t))
           /\ sphase = p \/ \E i \in 1..Len(Page!Told(p, t)) : Page!Told(p, t)[i][1] = p
<1>1. /\ Page!Told(p, t) \in Seq(Kinds \X Nat)
      /\ sphase = p => Page!Told(p, t) = <<>>
      /\ sphase # p => Page!Told(p, t) = <<<<p, t>>>>
  BY ToldIs, PageNames
<1> DEFINE w == Page!Told(p, t)
<1>2. CASE sphase = p
  BY <1>1, <1>2 DEF Adds
<1>3. CASE sphase # p
  <2>1. Len(w) = 1 /\ w[1][1] = p
    BY <1>1, <1>3, OnlyOne
  <2>2. w \in Seq(Kinds \X Nat) /\ down' = down \o w
    BY <1>1
  <2> HIDE DEF w
  <2>3. Adds(w) /\ \E i \in 1..Len(w) : w[i][1] = p
    BY <2>1, <2>2 DEF Adds
  <2> QED
    BY <2>3 DEF w
<1> QED
  BY <1>2, <1>3

LEMMA SetPhaseSettles ==
    ASSUME PageTypes, NEW p \in {"idle", "listening"}, NEW t \in Nat, Page!SetPhase(p, t),
           PageRests, ~Talks', UNCHANGED <<active, turn>>
    PROVE  Settles
BY ToldAdds DEF Settles, Page!SetPhase

LEMMA BeginTurnBegins ==
    ASSUME PageTypes, NEW first, first = <<>> \/ first = <<<<"endpoint", 0>>>>,
           Page!BeginTurn(first), PageRests
    PROVE  Begins
<1> DEFINE tell == Page!Told("thinking", turn')
           end == <<<<"endpoint", 0>>>>
<1>1. /\ turn' = turn + 1 /\ active' = turn' /\ sphase' = "thinking" /\ turn' \in Nat
      /\ portions' = 0
      /\ down' = down \o first \o tell
  BY DEF Page!BeginTurn, PageTypes, TurnsTyped
<1>2. /\ tell \in Seq(Kinds \X Nat)
      /\ sphase = "thinking" => tell = <<>>
      /\ sphase # "thinking" => tell = <<<<"thinking", turn'>>>>
  BY <1>1, ToldIs, PageNames
<1>3. /\ end \in Seq(Kinds \X Nat) /\ Len(end) = 1 /\ end[1] = <<"endpoint", 0>>
  <2>1. <<"endpoint", 0>> \in Kinds \X Nat
    BY DEF Kinds
  <2> QED
    BY <2>1, OneOf, Zenon
<1>4. down \in Seq(Kinds \X Nat)
  BY DEF PageTypes, WireTyped
<1>5. /\ \A i \in 1..Len(tell) : tell[i][1] \notin {"speaking", "audio"}
      /\ sphase = "thinking" \/ (1 \in 1..Len(tell) /\ tell[1][1] = "thinking")
  <2>1. CASE sphase = "thinking"
    BY <1>2, <2>1
  <2>2. CASE sphase # "thinking"
    <3>1. Len(tell) = 1 /\ tell[1][1] = "thinking"
      BY <1>2, <2>2, OnlyOne
    <3> HIDE DEF tell
    <3> QED
      BY <3>1
  <2> QED
    BY <2>1, <2>2
<1> HIDE DEF tell, end
<1>6. CASE first = <<>>
  <2>1. down' = down \o tell
    BY <1>1, <1>2, <1>4, <1>6
  <2>2. Adds(tell)
    BY <1>2, <1>5, <2>1 DEF Adds
  <2> QED
    BY <1>1, <1>5, <2>2 DEF Begins
<1>7. CASE first = end
  <2> DEFINE new == end \o tell
  <2>1. down' = down \o new /\ new \in Seq(Kinds \X Nat)
    <3>1. (down \o end) \o tell = down \o (end \o tell)
      <4>1. down \in Messages /\ end \in Messages /\ tell \in Messages
        BY <1>2, <1>3, <1>4 DEF Messages
      <4> QED
        BY <4>1, Associative
    <3>2. new \in Seq(Kinds \X Nat)
      BY <1>2, <1>3, Joined
    <3> QED
      BY <1>1, <1>7, <3>1, <3>2, Zenon
  <2>2. /\ Len(tell) \in Nat /\ Len(new) = 1 + Len(tell) /\ new[1] = <<"endpoint", 0>>
        /\ \A i \in 1..Len(tell) : new[1 + i] = tell[i]
    BY <1>2, <1>3, Joined
  <2> HIDE DEF new
  <2>3. ASSUME NEW i \in 1..Len(new) PROVE new[i][1] \notin {"speaking", "audio"}
    <3>1. CASE i = 1
      BY <2>2, <3>1
    <3>2. CASE i # 1
      <4>1. PICK n \in 1..Len(tell) : i = 1 + n
        <5>1. i - 1 \in 1..Len(tell) /\ i = 1 + (i - 1)
          BY <2>2, <3>2
        <5> QED
          BY <5>1
      <4> QED
        BY <1>5, <2>2, <4>1
    <3> QED
      BY <3>1, <3>2
  <2>4. sphase = "thinking" \/ \E i \in 1..Len(new) : new[i][1] = "thinking"
    <3>1. CASE 1 \in 1..Len(tell) /\ tell[1][1] = "thinking"
      <4>1. 2 \in 1..Len(new) /\ new[1 + 1] = tell[1]
        BY <2>2, <3>1
      <4> QED
        BY <3>1, <4>1
    <3> QED
      BY <1>5, <3>1
  <2>5. Adds(new)
    BY <2>1, <2>3 DEF Adds
  <2> QED
    BY <1>1, <2>4, <2>5 DEF Begins
<1> QED
  BY <1>6, <1>7 DEF end

LEMMA TwoOf ==
    ASSUME NEW S, NEW a \in S, NEW b \in S
    PROVE  <<a>> \o <<b>> = <<a, b>> /\ <<a, b>> \in Seq(S)
<1> DEFINE x == <<a>>
           y == <<b>>
           l == x \o y
           r == <<a, b>>
<1>1. /\ l \in Seq(S) /\ Len(l) = 2 /\ r \in Seq(S) /\ Len(r) = 2
      /\ r[1] = a /\ r[2] = b
  OBVIOUS
<1>2. l[1] = a
  OBVIOUS
<1>3. l[2] = b
  <2>1. y \in Seq(S) /\ Len(y) = 1 /\ y[1] = b /\ x \in Seq(S) /\ Len(x) = 1
    OBVIOUS
  <2> HIDE DEF x, y
  <2>2. l[Len(x) + 1] = y[1]
    BY <2>1, Joined
  <2> HIDE DEF l
  <2> QED
    BY <2>1, <2>2
<1> HIDE DEF l, r
<1>4. \A i \in 1..2 : l[i] = r[i]
  <2>1. \A i \in 1..2 : i = 1 \/ i = 2
    OBVIOUS
  <2> QED
    BY <1>1, <1>2, <1>3, <2>1
<1>5. l = r
  BY <1>1, <1>4
<1> QED
  BY <1>1, <1>5 DEF l, r

\* A turn that might talk is one the hub is busy with.
LEMMA CancelledOrIdle ==
    ASSUME PageTypes, CutInv, UNCHANGED <<active, portions>>,
           cancelled' = (cancelled \/ Page!Busy) \/ (cancelled' = cancelled /\ ~Page!Busy)
    PROVE  ~Talks'
<1>1. SUFFICES ASSUME Talks' PROVE FALSE
  OBVIOUS
<1>2. cancelled \in BOOLEAN
  BY DEF PageTypes, TurnsTyped
<1>3. active # 0 /\ ~cancelled' /\ portions # Page!Over
  <2>1. active' # 0 /\ ~cancelled' /\ portions' # Page!Over
    BY <1>1, Zenon DEF Talks
  <2> QED
    BY <2>1 DEF Page!Over
<1>4. ~cancelled /\ ~Page!Busy
  <2>1. CASE cancelled' = (cancelled \/ Page!Busy)
    BY <1>3, <2>1, Zenon
  <2>2. CASE cancelled' = cancelled /\ ~Page!Busy
    BY <1>3, <2>2, Zenon
  <2> QED
    BY <2>1, <2>2
<1>5. Talks
  BY <1>3, <1>4 DEF Talks
<1>6. sphase \in {"thinking", "speaking"}
  BY <1>5 DEF CutInv, NextInv, TalksInPhase
<1> QED
  BY <1>3, <1>4, <1>6 DEF Page!Busy

\* What the hub does on its own, or because of a command.
HubActs ==
    \/ Page!Serve \/ Page!Transcribed \/ Page!NothingHeard \/ Page!TimesOut \/ Page!Endpoint
    \/ Page!Say \/ Page!WorkerEnds

LEMMA ServeIs ==
    ASSUME FluentAssumption, PageTypes, CutInv, Page!Serve
    PROVE  Rests \/ Settles \/ Begins
<1>1. PageRests /\ cancelled \in BOOLEAN
  BY DEF Page!Serve, Page!pageVars, Page!playVars, PageRests, PageTypes, TurnsTyped
<1> DEFINE c == Head(up)
<1>2. CASE Page!OnStart(c)
  <2>1. Page!SetPhase("listening", 0) /\ UNCHANGED <<active, turn>>
    BY <1>2 DEF Page!OnStart
  <2>2. ~Talks'
    BY <1>2, CancelledOrIdle DEF Page!OnStart
  <2> QED
    BY <1>1, <2>1, <2>2, SetPhaseSettles
<1>3. CASE Page!OnFrames(c)
  <2>1. CASE UNCHANGED <<Page!hubVars, down>>
    BY <1>1, <2>1, Zenon DEF Rests, PageRests, Page!hubVars
  <2>2. CASE ~(Fluent /\ Page!Busy) /\ Page!SetPhase("idle", 0)
                 /\ UNCHANGED <<turn, active, cancelled, portions>>
    <3>1. ~Talks'
      BY <2>2, CancelledOrIdle DEF FluentAssumption
    <3> QED
      BY <1>1, <2>2, <3>1, SetPhaseSettles
  <2> QED
    BY <1>3, <2>1, <2>2 DEF Page!OnFrames
<1>4. CASE Page!OnEnd(c)
  BY <1>1, <1>4, Zenon DEF Page!OnEnd, Rests, PageRests
<1>5. CASE Page!OnBarge(c)
  <2>1. cancelled' \in {cancelled, TRUE}
    BY <1>1, <1>5, Zenon DEF Page!OnBarge
  <2> QED
    BY <1>1, <1>5, <2>1, Zenon DEF Page!OnBarge, Rests, PageRests
<1>6. CASE Page!OnText(c)
  <2>1. CASE Page!BeginTurn(<<>>)
    BY <1>1, <2>1, BeginTurnBegins
  <2>2. CASE UNCHANGED <<turn, active, cancelled, portions, sphase, down>>
    BY <1>1, <2>2, Zenon DEF Rests, PageRests
  <2> QED
    BY <1>6, <2>1, <2>2 DEF Page!OnText
<1>7. CASE Page!OnStop(c)
  <2>1. Page!SetPhase("idle", 0) /\ UNCHANGED <<active, turn>>
    BY <1>7 DEF Page!OnStop
  <2>2. ~Talks'
    BY <1>7, CancelledOrIdle DEF Page!OnStop
  <2> QED
    BY <1>1, <2>1, <2>2, SetPhaseSettles
<1> QED
  BY <1>2, <1>3, <1>4, <1>5, <1>6, <1>7 DEF Page!Serve

LEMMA SayIs ==
    ASSUME PartsAssumption, PageTypes, CutInv, Page!Say
    PROVE  Says
<1> DEFINE tell == Page!Told("speaking", active)
           one == <<<<"speaking", active>>>>
           two == <<<<"audio", active>>>>
<1>1. /\ UNCHANGED <<active, turn, cancelled>> /\ PageRests
      /\ active # 0 /\ ~cancelled /\ portions < Parts /\ portions' = portions + 1
      /\ \/ sphase' = "speaking" /\ down' = (down \o tell) \o two
         \/ portions # 0 /\ sphase' = sphase /\ down' = down \o two
  BY DEF Page!Say, PageRests, Page!pageVars, Page!playVars
<1>2. active \in Nat /\ portions \in Nat /\ down \in Seq(Kinds \X Nat)
  BY DEF PageTypes, TurnsTyped, WireTyped
<1>3. Talks /\ Talks'
  <2>1. portions # Page!Over /\ portions' # Page!Over'
    BY <1>1, <1>2 DEF PartsAssumption, Page!Over
  <2> QED
    BY <1>1, <2>1 DEF Talks
<1>4. <<"audio", active>> \in Kinds \X Nat /\ <<"speaking", active>> \in Kinds \X Nat
  BY <1>2 DEF Kinds
<1>5. one \in Seq(Kinds \X Nat) /\ two \in Seq(Kinds \X Nat)
  BY <1>4, OneOf, Zenon
<1>6. /\ sphase = "speaking" => tell = <<>>
      /\ sphase # "speaking" => tell = one
  BY <1>2, ToldIs, PageNames
<1>7. one \o two = <<<<"speaking", active>>, <<"audio", active>>>>
  <2> DEFINE a == <<"speaking", active>>
             b == <<"audio", active>>
  <2>1. a \in Kinds \X Nat /\ b \in Kinds \X Nat
    BY <1>4
  <2> HIDE DEF a, b
  <2>2. <<a>> \o <<b>> = <<a, b>>
    BY <2>1, TwoOf
  <2> QED
    BY <2>2 DEF a, b
<1> HIDE DEF one, two, tell
<1>8. CASE sphase = "speaking"
  <2>1. down' = down \o two /\ sphase' = "speaking"
    BY <1>1, <1>2, <1>6, <1>8
  <2> QED
    BY <1>1, <1>3, <1>8, <2>1, Zenon DEF Says, two
<1>9. CASE sphase # "speaking"
  <2>3. portions = 0
    BY <1>3, <1>9 DEF CutInv, NextInv, TalksInPhase
  <2>1. (down \o one) \o two = down \o (one \o two)
    <3>1. down \in Messages /\ one \in Messages /\ two \in Messages
      BY <1>2, <1>5 DEF Messages
    <3> QED
      BY <3>1, Associative
  <2>2. down' = down \o <<<<"speaking", active>>, <<"audio", active>>>>
    BY <1>1, <1>6, <1>7, <1>9, <2>1, <2>3, Zenon
  <2> QED
    BY <1>1, <1>3, <1>9, <2>2, <2>3, Zenon DEF Says
<1> QED
  BY <1>8, <1>9

LEMMA HubActsAre ==
    ASSUME FluentAssumption, PartsAssumption, PageTypes, CutInv, HubActs
    PROVE  Rests \/ Settles \/ Begins \/ Says
<1>1. CASE Page!Serve
  BY <1>1, ServeIs
<1>2. CASE Page!Say
  BY <1>2, SayIs
<1>3. CASE Page!Transcribed
  <2>1. PageRests /\ Page!BeginTurn(<<>>)
    BY <1>3 DEF Page!Transcribed, PageRests, Page!pageVars, Page!playVars
  <2> QED
    BY <2>1, BeginTurnBegins
<1>4. CASE Page!Endpoint
  <2>1. PageRests /\ Page!BeginTurn(<<<<"endpoint", 0>>>>)
    BY <1>4 DEF Page!Endpoint, PageRests, Page!pageVars, Page!playVars
  <2> QED
    BY <2>1, BeginTurnBegins
<1>5. CASE Page!NothingHeard
  <2>1. PageRests /\ UNCHANGED <<turn, active, cancelled, portions>>
    BY <1>5 DEF Page!NothingHeard, PageRests, Page!pageVars, Page!playVars
  <2>2. CASE sphase = "listening" /\ Page!SetPhase("idle", 0)
    <3>1. ~Page!Busy
      BY <2>2 DEF Page!Busy
    <3>2. ~Talks'
      BY <2>1, <3>1, CancelledOrIdle
    <3> QED
      BY <2>1, <2>2, <3>2, SetPhaseSettles
  <2>3. CASE UNCHANGED <<sphase, down>>
    BY <2>1, <2>3, Zenon DEF Rests, PageRests
  <2> QED
    BY <1>5, <2>2, <2>3 DEF Page!NothingHeard
<1>6. CASE Page!TimesOut
  <2>1. PageRests /\ UNCHANGED <<turn, active, cancelled, portions>> /\ Page!SetPhase("idle", 0)
    BY <1>6 DEF Page!TimesOut, PageRests, Page!pageVars, Page!playVars
  <2>2. ~Page!Busy
    BY <1>6 DEF Page!TimesOut, FluentAssumption
  <2>3. ~Talks'
    BY <2>1, <2>2, CancelledOrIdle
  <2> QED
    BY <2>1, <2>3, SetPhaseSettles
<1>7. CASE Page!WorkerEnds
  <2>1. PageRests /\ UNCHANGED <<turn, active>> /\ Page!SetPhase("idle", active)
    BY <1>7 DEF Page!WorkerEnds, PageRests, Page!pageVars, Page!playVars
  <2>2. ~Talks'
    BY <1>7 DEF Page!WorkerEnds, Talks, Page!Over
  <2>3. active \in Nat
    BY DEF PageTypes, TurnsTyped
  <2> QED
    BY <2>1, <2>2, <2>3, SetPhaseSettles
<1> QED
  BY <1>1, <1>2, <1>3, <1>4, <1>5, <1>6, <1>7 DEF HubActs

-----------------------------------------------------------------------------
(* The types are kept.                                                        *)

Outgoing == up' \in Seq(Commands \X Nat) /\ Sends /\ UserTyped'

LEMMA FlushTyped ==
    ASSUME PageTypes, NEW why \in {"barge", "push", "stop"}, Page!Flush(why)
    PROVE  waits' \in Awaiting
<1>1. waits \in Awaiting /\ gen \in Nat
  BY DEF PageTypes, UserTyped
<1>2. <<why, gen>> \in {"barge", "push", "stop"} \X Nat
  BY <1>1
<1>3. waits' = Append(waits, <<why, gen>>)
  BY DEF Page!Flush
<1> DEFINE w == <<why, gen>>
<1> HIDE DEF w
<1>4. waits' = Append(waits, w) /\ w \in {"barge", "push", "stop"} \X Nat
  BY <1>2, <1>3 DEF w
<1> QED
  BY <1>1, <1>4 DEF Awaiting

\* Commands one after another.
LEMMA CommandsJoined ==
    ASSUME NEW s \in Seq(Commands \X Nat), NEW t \in Seq(Commands \X Nat)
    PROVE  s \o t \in Seq(Commands \X Nat)
BY Joined

LEMMA PushTyped ==
    ASSUME PageTypes, Page!BeginPush, UNCHANGED <<gen, resumed>>
    PROVE  Outgoing
<1>1. utterances \in Nat /\ utterances + 1 \in Nat /\ waits \in Awaiting /\ resumed' \in Awaiting
      /\ gen' \in Nat
  BY DEF PageTypes, UserTyped
<1>2. CASE phase = "speaking"
  <2>1. Page!Flush("push") /\ up' = up /\ utterances' = utterances
    BY <1>2 DEF Page!BeginPush
  <2>2. waits' \in Awaiting
    BY <2>1, FlushTyped
  <2> QED
    BY <1>1, <2>1, <2>2 DEF Outgoing, Sends, UserTyped, PageTypes, WireTyped
<1>3. CASE phase # "speaking"
  <2>1. /\ Page!Sent(<<Page!Start>> \o IF held' THEN <<Page!Frames(utterances + 1)>> ELSE <<>>)
        /\ utterances' = utterances + 1 /\ waits' = waits
    BY <1>3, Zenon DEF Page!BeginPush
  <2>2. (IF held' THEN <<Page!Frames(utterances + 1)>> ELSE <<>>) \in Seq(Commands \X Nat)
    BY <1>1, CommandsAre, Zenon
  <2>3. up' \in Seq(Commands \X Nat) /\ Sends
    BY <1>1, <2>1, <2>2, StartIs, CommandsJoined, SentIs
  <2> QED
    BY <1>1, <2>1, <2>3 DEF Outgoing, UserTyped
<1> QED
  BY <1>2, <1>3

LEMMA StreamTyped ==
    ASSUME PageTypes, NEW v, NEW ends \in BOOLEAN, Page!Stream(v, ends), UNCHANGED <<gen, resumed>>
    PROVE  Outgoing
<1> DEFINE starts == ~streaming /\ v.on
           on == streaming \/ starts
           n == IF starts THEN utterances + 1 ELSE utterances
           drained == IF ~on THEN <<>>
                      ELSE IF starts THEN <<Page!Start, Page!Frames(n)>> ELSE Page!WithFrames(n)
           ended == IF ends THEN <<<<"end", n>>>> ELSE <<>>
<1>1. n \in Nat /\ utterances \in Nat
  BY DEF PageTypes, UserTyped
<1>2. drained \in Seq(Commands \X Nat)
  <2>1. <<Page!Start, Page!Frames(n)>> \in Seq(Commands \X Nat)
    <3>1. Page!Start \in Commands \X Nat /\ Page!Frames(n) \in Commands \X Nat
      BY <1>1 DEF Page!Start, Page!Frames, Commands
    <3> QED
      BY <3>1, TwoOf, Zenon
  <2> QED
    BY <1>1, <2>1, CommandsAre, Zenon
<1>3. ended \in Seq(Commands \X Nat)
  <2>1. "end" \in Commands
    BY DEF Commands
  <2> QED
    BY <1>1, <2>1, CommandsAre, Zenon
<1>4. Page!Sent(drained \o ended) /\ utterances' = n /\ waits' = waits
  BY Zenon DEF Page!Stream
<1> HIDE DEF drained, ended, n
<1>5. up' \in Seq(Commands \X Nat) /\ Sends
  BY <1>2, <1>3, <1>4, CommandsJoined, SentIs
<1> QED
  BY <1>1, <1>4, <1>5 DEF Outgoing, UserTyped, PageTypes

LEMMA CutInTyped ==
    ASSUME PageTypes, NEW why, NEW same \in BOOLEAN, Page!CutIn(why, same), UNCHANGED <<gen, waits>>,
           resumed' \in Awaiting
    PROVE  Outgoing
<1> DEFINE on == same \/ streaming
           shut == why = "push" /\ ~keyDown /\ on
           one == IF same THEN <<<<"barge", 0>>, Page!Start>> ELSE <<>>
           two == IF same /\ held THEN <<Page!Frames(utterances + 1)>> ELSE <<>>
           three == IF shut THEN <<<<"end", utterances'>>>> ELSE <<>>
<1>1. /\ utterances \in Nat /\ utterances + 1 \in Nat /\ waits' \in Awaiting /\ gen' \in Nat
      /\ utterances' = IF same THEN utterances + 1 ELSE utterances
  BY DEF PageTypes, UserTyped, Page!CutIn
<1>2. utterances' \in Nat
  BY <1>1
<1>3. one \in Seq(Commands \X Nat)
  <2>1. <<"barge", 0>> \in Commands \X Nat /\ Page!Start \in Commands \X Nat
    BY <1>1 DEF Page!Start, Commands
  <2>2. <<<<"barge", 0>>, Page!Start>> \in Seq(Commands \X Nat)
    BY <2>1, TwoOf, Zenon
  <2> QED
    BY <1>1, <2>2, CommandsAre, Zenon
<1>4. two \in Seq(Commands \X Nat)
  BY <1>1, CommandsAre, Zenon
<1>5. three \in Seq(Commands \X Nat)
  <2>1. PICK n \in Nat : n = utterances'
    BY <1>2
  <2>2. "end" \in Commands
    BY DEF Commands
  <2>3. <<<<"end", n>>>> \in Seq(Commands \X Nat) /\ <<>> \in Seq(Commands \X Nat)
    BY <2>2, CommandsAre, Zenon
  <2> QED
    BY <2>1, <2>3, Zenon
<1>6. Page!Sent(one \o two \o three)
  BY Zenon DEF Page!CutIn
<1> HIDE DEF one, two, three
<1>7. up' \in Seq(Commands \X Nat) /\ Sends
  BY <1>3, <1>4, <1>5, <1>6, CommandsJoined, SentIs
<1> QED
  BY <1>1, <1>2, <1>7 DEF Outgoing, UserTyped

\* A command of one word.
LEMMA SentTyped ==
    ASSUME PageTypes, NEW c \in Commands, NEW n \in Nat, Page!Sent(<<<<c, n>>>>)
    PROVE  up' \in Seq(Commands \X Nat) /\ Sends
<1> DEFINE cs == <<<<c, n>>>>
<1>1. cs \in Seq(Commands \X Nat)
  BY CommandsAre, Zenon
<1>2. Page!Sent(cs)
  OBVIOUS
<1> HIDE DEF cs
<1> QED
  BY <1>1, <1>2, SentIs

LEMMA PageActsTyped ==
    ASSUME PageTypes, PageActs
    PROVE  Outgoing
<1>1. /\ up \in Seq(Commands \X Nat) /\ gen \in Nat /\ utterances \in Nat
      /\ waits \in Awaiting /\ resumed \in Awaiting /\ (up' = up => Sends)
  BY DEF PageTypes, WireTyped, UserTyped, Sends
<1>2. ASSUME NEW loud \in BOOLEAN, NEW ends \in BOOLEAN, Page!Frame(loud, ends) PROVE Outgoing
  <2>1. UNCHANGED <<gen, resumed>>
    BY <1>2 DEF Page!Frame
  <2>2. CASE Page!HoldBack(vad')
    <3>1. (Page!Flush("barge") \/ waits' = waits) /\ UNCHANGED <<up, utterances>>
      BY <2>2 DEF Page!HoldBack
    <3>2. waits' \in Awaiting
      BY <1>1, <3>1, FlushTyped
    <3> QED
      BY <1>1, <2>1, <3>1, <3>2 DEF Outgoing, UserTyped
  <2>3. CASE Page!Stream(vad', ends)
    BY <2>1, <2>3, StreamTyped
  <2> QED
    BY <1>2, <2>2, <2>3 DEF Page!Frame
<1>3. CASE Page!KeyDown
  <2>1. UNCHANGED <<gen, resumed>>
    BY <1>3 DEF Page!KeyDown
  <2>2. Page!BeginPush \/ UNCHANGED <<waits, up, utterances>>
    BY <1>3 DEF Page!KeyDown
  <2>3. UNCHANGED <<waits, up, utterances>> => Outgoing
    BY <1>1, <2>1 DEF Outgoing, UserTyped
  <2> QED
    BY <2>1, <2>2, <2>3, PushTyped
<1>4. CASE Page!PushFrame
  <2>1. UNCHANGED <<gen, resumed>>
    BY <1>4 DEF Page!PushFrame
  <2>2. \/ Page!BeginPush
        \/ Page!Sent(Page!WithFrames(utterances)) /\ UNCHANGED <<waits, utterances>>
        \/ UNCHANGED <<waits, up, utterances>>
    BY <1>4 DEF Page!PushFrame
  <2>3. UNCHANGED <<waits, up, utterances>> => Outgoing
    BY <1>1, <2>1 DEF Outgoing, UserTyped
  <2>4. Page!Sent(Page!WithFrames(utterances)) /\ UNCHANGED <<waits, utterances>> => Outgoing
    BY <1>1, <2>1, CommandsAre, SentIs DEF Outgoing, UserTyped
  <2> QED
    BY <2>1, <2>2, <2>3, <2>4, PushTyped
<1>5. CASE Page!KeyUp
  <2>1. /\ Page!Sent(<<<<"end", utterances>>>>) \/ up' = up
        /\ UNCHANGED <<gen, utterances, waits, resumed>>
    BY <1>5 DEF Page!KeyUp, Page!sockVars, Page!playVars
  <2>2. up' \in Seq(Commands \X Nat) /\ Sends
    BY <1>1, <2>1, SentTyped DEF Commands
  <2> QED
    BY <1>1, <2>1, <2>2 DEF Outgoing, UserTyped
<1>6. CASE Page!FlushDone
  <2>1. /\ resumed' = waits /\ waits' = <<>> /\ UNCHANGED <<gen, utterances, up>>
    BY <1>6 DEF Page!FlushDone, Page!sockVars
  <2> QED
    BY <1>1, <2>1 DEF Outgoing, UserTyped, Awaiting
<1>7. CASE Page!Resume
  <2>1. UNCHANGED <<gen, waits>> /\ resumed # <<>> /\ resumed' = Tail(resumed)
    BY <1>7 DEF Page!Resume
  <2>2. resumed' \in Awaiting
    BY <1>1, <2>1 DEF Awaiting
  <2> DEFINE same == live /\ Head(resumed)[2] = gen
  <2>3. \/ up' = (IF same THEN Append(up, <<"barge", 0>>) ELSE up) /\ utterances' = utterances
        \/ Page!CutIn(Head(resumed)[1], same)
    BY <1>7, Zenon DEF Page!Resume
  <2>4. CASE Page!CutIn(Head(resumed)[1], same)
    <3>1. PICK b \in BOOLEAN : Page!CutIn(Head(resumed)[1], b)
      BY <2>4, ZenonT(20)
    <3> QED
      BY <2>1, <2>2, <3>1, CutInTyped
  <2>5. CASE up' = (IF same THEN Append(up, <<"barge", 0>>) ELSE up) /\ utterances' = utterances
    <3>1. <<"barge", 0>> \in Commands \X Nat
      BY DEF Commands
    <3>2. up' \in Seq(Commands \X Nat) /\ Sends
      <4> DEFINE w == <<"barge", 0>>
                 S == Commands \X Nat
      <4>1. w \in S /\ up \in Seq(S) /\ (up' = up \/ up' = Append(up, w))
        BY <1>1, <2>5, <3>1
      <4> HIDE DEF w, S
      <4>2. <<w>> \in Seq(S) /\ up' \in Seq(S) /\ (up' = up \/ up' = up \o <<w>>)
        BY <4>1
      <4> QED
        BY <4>2 DEF S, Sends
    <3> QED
      BY <1>1, <2>1, <2>2, <2>5, <3>2 DEF Outgoing, UserTyped
  <2> QED
    BY <2>3, <2>4, <2>5
<1>8. CASE Page!Play
  BY <1>1, <1>8 DEF Page!Play, Page!sockVars, Outgoing, UserTyped
<1>9. CASE Page!Stop
  <2>1. UNCHANGED <<gen, utterances, resumed>>
    BY <1>9 DEF Page!Stop, Page!sockVars
  <2>2. (Page!Flush("stop") /\ up' = up) \/ (Page!Sent(<<<<"stop", 0>>>>) /\ waits' = waits)
    BY <1>9 DEF Page!Stop
  <2>3. waits' \in Awaiting
    BY <1>1, <2>2, FlushTyped
  <2>4. up' \in Seq(Commands \X Nat) /\ Sends
    BY <1>1, <2>2, SentTyped DEF Commands
  <2> QED
    BY <1>1, <2>1, <2>3, <2>4 DEF Outgoing, UserTyped
<1>10. CASE Page!SendText
  <2>1. UNCHANGED <<gen, utterances, resumed, waits>> /\ Page!Sent(<<<<"text", 0>>>>)
    BY <1>10 DEF Page!SendText, Page!sockVars
  <2>2. up' \in Seq(Commands \X Nat) /\ Sends
    BY <2>1, SentTyped DEF Commands
  <2> QED
    BY <1>1, <2>1, <2>2 DEF Outgoing, UserTyped
<1>11. CASE Page!Connect
  BY <1>1, <1>11 DEF Page!Connect, Page!playVars, Outgoing, UserTyped
<1> QED
  BY <1>2, <1>3, <1>4, <1>5, <1>6, <1>7, <1>8, <1>9, <1>10, <1>11 DEF PageActs

LEMMA Shortened ==
    ASSUME NEW S, NEW s \in Seq(S), NEW t,
           t = s \/ t = <<>> \/ (s # <<>> /\ t = Tail(s))
    PROVE  t \in Seq(S)
<1>1. CASE t = s
  BY <1>1
<1>2. CASE t = <<>>
  BY <1>2
<1>3. CASE s # <<>> /\ t = Tail(s)
  BY <1>3
<1> QED
  BY <1>1, <1>2, <1>3

LEMMA OthersTyped ==
    ASSUME PageTypes, HubActs \/ Page!Receive \/ Page!Drop
    PROVE  up' \in Seq(Commands \X Nat) /\ UserTyped'
<1>1. UNCHANGED <<utterances, waits, resumed, gen>>
  BY DEF HubActs, Page!Serve, Page!Transcribed, Page!NothingHeard, Page!TimesOut, Page!Endpoint,
         Page!Say, Page!WorkerEnds, Page!Receive, Page!Drop, Page!sockVars, Page!playVars
<1>2. up' = up \/ up' = <<>> \/ (up # <<>> /\ up' = Tail(up))
  BY DEF HubActs, Page!Serve, Page!Transcribed, Page!NothingHeard, Page!TimesOut, Page!Endpoint,
         Page!Say, Page!WorkerEnds, Page!Receive, Page!Drop
<1>3. up' \in Seq(Commands \X Nat)
  <2> DEFINE S == Commands \X Nat
  <2>1. up \in Seq(S)
    BY DEF PageTypes, WireTyped
  <2> HIDE DEF S
  <2>2. up' \in Seq(S)
    BY <1>2, <2>1, Shortened
  <2> QED
    BY <2>2 DEF S
<1> QED
  BY <1>1, <1>3 DEF UserTyped, PageTypes

LEMMA WorksTyped ==
    ASSUME PartsAssumption, PageTypes, Page!Next
    PROVE  portions' \in Nat /\ cancelled' \in BOOLEAN
<1>1. portions \in Nat /\ cancelled \in BOOLEAN /\ Page!Over \in Nat
  BY DEF PageTypes, TurnsTyped, PartsAssumption, Page!Over
<1>2. CASE PageActs \/ Page!Receive
  <2>1. UNCHANGED Page!hubVars
    BY <1>2
       DEF PageActs, Page!Frame, Page!KeyDown, Page!PushFrame, Page!KeyUp, Page!FlushDone,
           Page!Resume, Page!Play, Page!Stop, Page!SendText, Page!Connect, Page!Receive
  <2> QED
    BY <1>1, <2>1 DEF Page!hubVars
<1>3. CASE Page!Drop
  BY <1>1, <1>3 DEF Page!Drop
<1>4. CASE Page!Serve
  <2>1. portions' = portions \/ portions' = 0
    BY <1>4
       DEF Page!Serve, Page!OnStart, Page!OnFrames, Page!OnEnd, Page!OnBarge, Page!OnText,
           Page!OnStop, Page!BeginTurn, Page!hubVars
  <2>2. cancelled' \in BOOLEAN
    <3> DEFINE c == Head(up)
    <3>1. CASE Page!OnStart(c) \/ Page!OnStop(c) \/ Page!OnBarge(c)
      BY <3>1, Zenon DEF Page!OnStart, Page!OnBarge, Page!OnStop
    <3>2. CASE Page!OnFrames(c) \/ Page!OnEnd(c) \/ Page!OnText(c)
      BY <1>1, <3>2 DEF Page!OnFrames, Page!OnEnd, Page!OnText, Page!BeginTurn, Page!hubVars
    <3> QED
      BY <1>4, <3>1, <3>2 DEF Page!Serve
  <2> QED
    BY <1>1, <2>1, <2>2
<1>5. CASE Page!Transcribed \/ Page!Endpoint
  <2>1. portions' = 0 /\ cancelled' = FALSE
    BY <1>5, Zenon DEF Page!Transcribed, Page!Endpoint, Page!BeginTurn
  <2> QED
    BY <2>1
<1>6. CASE Page!NothingHeard \/ Page!TimesOut
  <2>1. portions' = portions /\ cancelled' = cancelled
    BY <1>6, Zenon DEF Page!NothingHeard, Page!TimesOut
  <2> QED
    BY <1>1, <2>1
<1>7. CASE Page!Say \/ Page!WorkerEnds
  BY <1>1, <1>7 DEF Page!Say, Page!WorkerEnds
<1> QED
  BY <1>2, <1>3, <1>4, <1>5, <1>6, <1>7 DEF Page!Next, PageActs

-----------------------------------------------------------------------------
(* Whatever happens.                                                          *)

\* What the hub says when it says that it is in a phase: that, and asides before and after.
Tells ==
    \E new \in Messages :
        /\ down' = down \o new
        /\ \/ /\ sphase' = sphase
              /\ \A i \in 1..Len(new) : new[i][1] \notin Page!Phases
           \/ \E n \in 1..Len(new) :
                  /\ new[n][1] = sphase'
                  /\ \A i \in 1..Len(new) : i > n => new[i][1] \notin Page!Phases

Asides == {s \in Messages : \A i \in 1..Len(s) : s[i][1] \notin Page!Phases}

LEMMA AsidesAre ==
    ASSUME NEW t \in Nat, NEW k \in {"audio", "endpoint"}
    PROVE  <<>> \in Asides /\ <<<<k, t>>>> \in Asides
<1> DEFINE w == <<<<k, t>>>>
<1>1. <<k, t>> \in Kinds \X Nat
  BY DEF Kinds
<1>2. w \in Messages /\ <<>> \in Messages
  BY <1>1, OneOf, Zenon DEF Messages
<1>3. Len(w) = 1 /\ w[1][1] = k
  BY OnlyOne
<1>4. k \notin Page!Phases
  BY PageNames
<1> HIDE DEF w
<1>5. w \in Asides
  BY <1>2, <1>3, <1>4 DEF Asides
<1>6. <<>> \in Asides
  BY <1>2 DEF Asides
<1> QED
  BY <1>5, <1>6 DEF w

LEMMA TellsSo ==
    ASSUME PageTypes, NEW a \in Asides, NEW b \in Asides, sphase' \in Page!Phases, NEW t \in Nat,
           NEW told, \/ told = <<>> /\ sphase' = sphase
                     \/ told = <<<<sphase', t>>>>,
           down' = down \o (a \o (told \o b))
    PROVE  Tells
<1>1. a \in Messages /\ b \in Messages
  BY DEF Asides
<1>2. told \in Messages
  <2>1. PICK p \in Page!Phases : p = sphase'
    OBVIOUS
  <2>2. <<p, t>> \in Kinds \X Nat
    BY PageNames DEF Kinds
  <2>3. <<>> \in Seq(Kinds \X Nat) /\ <<<<p, t>>>> \in Seq(Kinds \X Nat)
    BY <2>2, OneOf, Zenon
  <2> QED
    BY <2>1, <2>3, Zenon DEF Messages
<1> DEFINE tail == told \o b
           new == a \o tail
<1>3. /\ tail \in Messages /\ Len(tail) = Len(told) + Len(b)
      /\ Len(told) \in Nat /\ Len(b) \in Nat
      /\ \A i \in 1..Len(told) : tail[i] = told[i]
      /\ \A i \in 1..Len(b) : tail[Len(told) + i] = b[i]
  BY <1>1, <1>2, Joined DEF Messages
<1> HIDE DEF tail
<1>4. /\ new \in Messages /\ Len(new) = Len(a) + Len(tail) /\ Len(a) \in Nat
      /\ \A i \in 1..Len(a) : new[i] = a[i]
      /\ \A i \in 1..Len(tail) : new[Len(a) + i] = tail[i]
  <2>1. a \in Seq(Kinds \X Nat) /\ tail \in Seq(Kinds \X Nat)
    BY <1>1, <1>3 DEF Messages
  <2>2. new \in Messages
    BY <2>1, Joined DEF Messages
  <2> QED
    BY <2>1, <2>2, Joined
<1>5. down' = down \o new
  BY DEF tail
<1> HIDE DEF new
<1>6. ASSUME NEW i \in 1..Len(new), i <= Len(a) \/ i > Len(a) + Len(told)
      PROVE  new[i][1] \notin Page!Phases
  <2>1. CASE i <= Len(a)
    BY <1>1, <1>4, <2>1 DEF Asides
  <2>2. CASE i > Len(a) + Len(told)
    <3> DEFINE n == i - (Len(a) + Len(told))
    <3>1. n \in 1..Len(b) /\ Len(told) + n \in 1..Len(tail) /\ Len(a) + (Len(told) + n) = i
      BY <1>3, <1>4, <2>2
    <3> HIDE DEF n
    <3>2. new[i] = b[n]
      BY <1>3, <1>4, <3>1
    <3> QED
      BY <3>1, <3>2 DEF Asides
  <2> QED
    BY <1>6, <2>1, <2>2
<1>7. CASE told = <<>> /\ sphase' = sphase
  <2>1. Len(told) = 0
    BY <1>7
  <2>2. \A i \in 1..Len(new) : new[i][1] \notin Page!Phases
    BY <1>3, <1>4, <1>6, <2>1
  <2> QED
    BY <1>4, <1>5, <1>7, <2>2 DEF Tells
<1>8. CASE told = <<<<sphase', t>>>>
  <2>1. Len(told) = 1 /\ told[1][1] = sphase'
    <3>1. PICK p : p = sphase'
      OBVIOUS
    <3>2. told = <<<<p, t>>>>
      BY <1>8, <3>1, Zenon
    <3>3. Len(told) = 1 /\ told[1][1] = p
      BY <3>2, OnlyOne
    <3> QED
      BY <3>1, <3>3
  <2> DEFINE n == Len(a) + 1
  <2>2. n \in 1..Len(new) /\ n = Len(a) + Len(told)
    BY <1>3, <1>4, <2>1
  <2>3. new[n] = told[1]
    BY <1>3, <1>4, <2>1
  <2> HIDE DEF n
  <2>4. \A i \in 1..Len(new) : i > n => new[i][1] \notin Page!Phases
    BY <1>6, <2>2
  <2>5. new[n][1] = sphase'
    BY <2>1, <2>3
  <2> QED
    BY <1>4, <1>5, <2>2, <2>4, <2>5 DEF Tells
<1> QED
  BY <1>7, <1>8

LEMMA NothingAdded ==
    ASSUME NEW s \in Messages
    PROVE  s \o <<>> = s /\ <<>> \o s = s
BY DEF Messages

LEMMA SetPhaseTells ==
    ASSUME PageTypes, NEW p \in Page!Phases, NEW t \in Nat, Page!SetPhase(p, t)
    PROVE  Tells /\ sphase' \in Page!Phases
<1> DEFINE told == Page!Told(p, t)
<1>1. sphase' = p /\ down' = down \o told
  BY DEF Page!SetPhase
<1>2. /\ told \in Messages
      /\ (told = <<>> /\ sphase' = sphase) \/ told = <<<<sphase', t>>>>
  BY <1>1, ToldIs, Zenon DEF Messages
<1> HIDE DEF told
<1>3. down' = down \o (<<>> \o (told \o <<>>))
  BY <1>1, <1>2, NothingAdded
<1> QED
  BY <1>1, <1>2, <1>3, TellsSo, AsidesAre

LEMMA QuietTells ==
    ASSUME PageTypes, UNCHANGED <<down, sphase>>
    PROVE  Tells /\ sphase' \in Page!Phases
<1>1. down \in Messages /\ sphase \in Page!Phases
  BY DEF PageTypes, WireTyped, TurnsTyped, Messages
<1>2. <<>> \in Messages /\ Len(<<>>) = 0 /\ down \o <<>> = down
  BY <1>1, OneOf, NothingAdded DEF Messages
<1>3. \A i \in 1..Len(<<>>) : <<>>[i][1] \notin Page!Phases
  BY <1>2
<1> QED
  BY <1>1, <1>2, <1>3 DEF Tells

LEMMA BeginTurnTells ==
    ASSUME PageTypes, NEW first, first = <<>> \/ first = <<<<"endpoint", 0>>>>,
           Page!BeginTurn(first)
    PROVE  /\ Tells /\ sphase' \in Page!Phases /\ sphase' = "thinking"
           /\ turn' \in Nat /\ active' \in 0..turn'
<1> DEFINE told == Page!Told("thinking", turn')
<1>1. /\ turn' = turn + 1 /\ active' = turn' /\ sphase' = "thinking" /\ turn' \in Nat
      /\ down' = (down \o first) \o told
  BY DEF Page!BeginTurn, PageTypes, TurnsTyped
<1>2. /\ told \in Messages
      /\ (told = <<>> /\ sphase' = sphase) \/ told = <<<<sphase', turn'>>>>
  BY <1>1, ToldIs, PageNames, Zenon DEF Messages
<1>3. first \in Asides /\ first \in Messages /\ down \in Messages
  BY AsidesAre DEF Asides, PageTypes, WireTyped, Messages
<1> HIDE DEF told
<1>4. down' = down \o (first \o (told \o <<>>))
  BY <1>1, <1>2, <1>3, NothingAdded, Associative
<1>5. sphase' \in Page!Phases /\ <<>> \in Asides
  BY <1>1, PageNames, AsidesAre
<1>6. PICK t \in Nat : t = turn'
  BY <1>1
<1>7. (told = <<>> /\ sphase' = sphase) \/ told = <<<<sphase', t>>>>
  BY <1>2, <1>6, Zenon
<1>8. Tells
  BY <1>3, <1>4, <1>5, <1>7, TellsSo
<1> QED
  BY <1>1, <1>5, <1>8

LEMMA SayTells ==
    ASSUME PageTypes, Page!Say
    PROVE  Tells /\ sphase' \in Page!Phases
<1> DEFINE two == <<<<"audio", active>>>>
           told == Page!Told("speaking", active)
<1>1. active \in Nat /\ down \in Messages /\ sphase \in Page!Phases
  BY DEF PageTypes, WireTyped, TurnsTyped, Messages
<1>2. /\ two \in Asides /\ <<>> \in Asides
      /\ two \in Messages /\ <<>> \in Messages
  <2>1. two \in Asides /\ <<>> \in Asides
    BY <1>1, AsidesAre
  <2> HIDE DEF two
  <2> QED
    BY <2>1 DEF Asides
<1>3. \/ sphase' = "speaking" /\ down' = (down \o told) \o two
      \/ sphase' = sphase /\ down' = down \o two
  BY DEF Page!Say
<1>4. /\ told \in Messages
      /\ (told = <<>> /\ sphase = "speaking") \/ told = <<<<"speaking", active>>>>
  BY <1>1, ToldIs, PageNames, Zenon DEF Messages
<1> HIDE DEF two, told
<1>5. two \in Messages /\ <<>> \o (told \o two) = told \o two /\ <<>> \o (<<>> \o two) = two
  <2>1. told \o two \in Messages
    BY <1>2, <1>4, Joined DEF Messages
  <2> QED
    BY <1>2, <2>1, NothingAdded
<1>6. CASE sphase' = "speaking" /\ down' = (down \o told) \o two
  <2>1. down' = down \o (<<>> \o (told \o two))
    <3>1. (down \o told) \o two = down \o (told \o two)
      BY <1>1, <1>2, <1>4, Associative
    <3> QED
      BY <1>5, <1>6, <3>1
  <2>2. sphase' \in Page!Phases
    BY <1>6, PageNames
  <2>3. (told = <<>> /\ sphase' = sphase) \/ told = <<<<sphase', active>>>>
    BY <1>4, <1>6, Zenon
  <2> QED
    BY <1>1, <1>2, <2>1, <2>2, <2>3, TellsSo
<1>7. CASE sphase' = sphase /\ down' = down \o two
  <2>1. down' = down \o (<<>> \o (<<>> \o two))
    BY <1>5, <1>7
  <2> QED
    BY <1>1, <1>2, <1>7, <2>1, TellsSo
<1> QED
  BY <1>3, <1>6, <1>7

LEMMA HubTells ==
    ASSUME PageTypes, HubActs
    PROVE  /\ Tells /\ sphase' \in Page!Phases /\ PageRests
           /\ turn' \in Nat /\ active' \in 0..turn'
<1>1. turn \in Nat /\ active \in 0..turn /\ active \in Nat
  BY DEF PageTypes, TurnsTyped
<1>2. PageRests
  BY DEF HubActs, Page!Serve, Page!Transcribed, Page!NothingHeard, Page!TimesOut, Page!Endpoint,
         Page!Say, Page!WorkerEnds, PageRests, Page!pageVars, Page!playVars
<1>3. \/ \E first : (first = <<>> \/ first = <<<<"endpoint", 0>>>>) /\ Page!BeginTurn(first)
      \/ /\ UNCHANGED <<turn, active>>
         /\ \/ UNCHANGED <<down, sphase>>
            \/ \E p \in {"idle", "listening"}, t \in Nat : Page!SetPhase(p, t)
            \/ Page!Say
  <2>1. CASE Page!Serve
    <3> DEFINE c == Head(up)
    <3>1. CASE Page!OnText(c)
      BY <3>1 DEF Page!OnText
    <3>2. CASE Page!OnStart(c) \/ Page!OnStop(c)
      BY <3>2 DEF Page!OnStart, Page!OnStop
    <3>3. CASE Page!OnFrames(c) \/ Page!OnEnd(c) \/ Page!OnBarge(c)
      BY <3>3 DEF Page!OnFrames, Page!OnEnd, Page!OnBarge, Page!hubVars
    <3> QED
      BY <2>1, <3>1, <3>2, <3>3 DEF Page!Serve
  <2>2. CASE Page!Transcribed \/ Page!Endpoint
    BY <2>2 DEF Page!Transcribed, Page!Endpoint
  <2>3. CASE Page!NothingHeard \/ Page!TimesOut
    BY <2>3 DEF Page!NothingHeard, Page!TimesOut
  <2>4. CASE Page!WorkerEnds
    BY <1>1, <2>4 DEF Page!WorkerEnds
  <2>5. CASE Page!Say
    BY <2>5 DEF Page!Say
  <2> QED
    BY <2>1, <2>2, <2>3, <2>4, <2>5 DEF HubActs
<1>4. CASE \E first : (first = <<>> \/ first = <<<<"endpoint", 0>>>>) /\ Page!BeginTurn(first)
  BY <1>2, <1>4, BeginTurnTells
<1>5. CASE /\ UNCHANGED <<turn, active>>
           /\ \/ UNCHANGED <<down, sphase>>
              \/ \E p \in {"idle", "listening"}, t \in Nat : Page!SetPhase(p, t)
              \/ Page!Say
  <2>1. turn' \in Nat /\ active' \in 0..turn'
    BY <1>1, <1>5
  <2>2. Tells /\ sphase' \in Page!Phases
    <3>1. CASE UNCHANGED <<down, sphase>>
      BY <3>1, QuietTells
    <3>2. CASE \E p \in {"idle", "listening"}, t \in Nat : Page!SetPhase(p, t)
      BY <3>2, SetPhaseTells, PageNames
    <3>3. CASE Page!Say
      BY <3>3, SayTells
    <3> QED
      BY <1>5, <3>1, <3>2, <3>3
  <2> QED
    BY <1>2, <2>1, <2>2
<1> QED
  BY <1>3, <1>4, <1>5

\* What the page takes off the wire.
LEMMA TakenTyped ==
    ASSUME PageTypes, Listens \/ Notes \/ HearsOf \/ Hears
    PROVE  down' \in Seq(Kinds \X Nat) /\ PlayTyped'
<1>1. /\ down \in Seq(Kinds \X Nat) /\ sounds \in Seq(Nat) /\ onAir \in Nat
      /\ muted \in BOOLEAN /\ phase \in Page!Phases
  BY DEF PageTypes, TurnsTyped, WireTyped, PlayTyped
<1>2. Takes
  BY DEF Listens, Notes, HearsOf, Hears
<1>3. down' \in Seq(Kinds \X Nat)
  BY <1>1, <1>2 DEF Takes
<1>4. 1 \in Pos /\ down[1] \in Kinds \X Nat
  BY <1>1, <1>2, TakenIs DEF Pos
<1>5. CASE Listens
  <2>1. phase' \in {"thinking", "idle"} /\ (sounds' = sounds \/ sounds' = <<>>)
    BY <1>5 DEF Listens, Unmutes
  <2>2. sounds' \in Seq(Nat)
    BY <1>1, <2>1, Shortened
  <2>3. muted' = FALSE /\ onAir' = onAir
    BY <1>5 DEF Listens
  <2>4. phase' \in Page!Phases
    BY <2>1, PageNames
  <2> QED
    BY <1>1, <1>3, <2>2, <2>3, <2>4 DEF PlayTyped
<1>6. CASE Notes
  BY <1>1, <1>3, <1>6, PageNames DEF Notes, PlayTyped
<1>7. CASE HearsOf
  BY <1>1, <1>3, <1>4, <1>7, PageNames DEF HearsOf, PlayTyped
<1>8. CASE Hears
  BY <1>1, <1>3, <1>4, <1>8 DEF Hears, PlayTyped
<1> QED
  BY <1>5, <1>6, <1>7, <1>8

LEMMA PageTyped ==
    ASSUME PageTypes, Rests \/ CutsOff \/ Drops
    PROVE  /\ down' \in Seq(Kinds \X Nat) /\ PlayTyped'
           /\ turn' \in Nat /\ active' \in 0..turn' /\ sphase' \in Page!Phases
<1>1. /\ turn \in Nat /\ active \in 0..turn /\ down \in Seq(Kinds \X Nat) /\ sounds \in Seq(Nat)
      /\ onAir \in Nat /\ muted \in BOOLEAN
      /\ phase \in Page!Phases /\ sphase \in Page!Phases
  BY DEF PageTypes, TurnsTyped, WireTyped, PlayTyped
<1>2. CASE Rests
  <2>1. /\ UNCHANGED <<down, onAir, muted, active, turn, sphase>>
        /\ phase' \in {phase, "idle"}
        /\ sounds' = sounds \/ (sounds # <<>> /\ sounds' = Tail(sounds))
    BY <1>2, Zenon DEF Rests
  <2>2. sounds' \in Seq(Nat)
    BY <1>1, <2>1, Shortened
  <2>3. phase' \in Page!Phases
    BY <1>1, <2>1, PageNames
  <2> QED
    BY <1>1, <2>1, <2>2, <2>3, Zenon DEF PlayTyped
<1>3. CASE CutsOff
  <2>1. UNCHANGED <<down, onAir, active, turn, sphase>> /\ muted' = TRUE
    BY <1>3 DEF CutsOff
  <2>2. sounds' \in Seq(Nat) /\ phase' \in Page!Phases
    BY <1>1, <1>3, PageNames DEF CutsOff
  <2> QED
    BY <1>1, <2>1, <2>2 DEF PlayTyped
<1>4. CASE Drops
  <2>1. /\ down' = <<>> /\ sounds' = <<>> /\ muted' = FALSE /\ phase' = "idle"
        /\ sphase' = "idle" /\ active' = 0 /\ UNCHANGED <<onAir, turn>>
    BY <1>4, Zenon DEF Drops
  <2>2. down' \in Seq(Kinds \X Nat) /\ sounds' \in Seq(Nat) /\ active' \in 0..turn
    BY <1>1, <2>1
  <2> QED
    BY <1>1, <2>1, <2>2, PageNames DEF PlayTyped
<1> QED
  BY <1>2, <1>3, <1>4

LEMMA DropIs == ASSUME Page!Drop PROVE Drops
BY Zenon DEF Page!Drop, Drops

LEMMA PageNextIs == Page!Next <=> PageActs \/ Page!Receive \/ Page!Drop \/ HubActs
BY Zenon DEF Page!Next, PageActs, HubActs

LEMMA TypesKeep ==
    ASSUME PartsAssumption, PageTypes, Page!Next
    PROVE  PageTypes'
<1>1. /\ down' \in Seq(Kinds \X Nat) /\ PlayTyped'
      /\ turn' \in Nat /\ active' \in 0..turn' /\ sphase' \in Page!Phases
  <2>1. CASE PageActs \/ Page!Drop
    BY <2>1, PageActsAre, DropIs, PageTyped
  <2>2. CASE Page!Receive
    <3>1. down' \in Seq(Kinds \X Nat) /\ PlayTyped'
      BY <2>2, ReceiveIs, TakenTyped
    <3>2. UNCHANGED <<turn, active, sphase>>
      BY <2>2 DEF Page!Receive, Page!hubVars
    <3> QED
      BY <3>1, <3>2 DEF PageTypes, TurnsTyped
  <2>3. CASE HubActs
    <3>1. PICK new \in Messages : down' = down \o new
      BY <2>3, HubTells DEF Tells
    <3>2. down' \in Seq(Kinds \X Nat)
      BY <3>1, Joined DEF Messages, PageTypes, WireTyped
    <3>3. PlayTyped'
      BY <2>3, HubTells DEF PageTypes, PlayTyped, PageRests
    <3> QED
      BY <2>3, <3>2, <3>3, HubTells
  <2> QED
    BY <2>1, <2>2, <2>3, PageNextIs
<1>2. up' \in Seq(Commands \X Nat) /\ UserTyped'
  BY PageNextIs, PageActsTyped, OthersTyped DEF Outgoing
<1>3. portions' \in Nat /\ cancelled' \in BOOLEAN
  BY WorksTyped
<1> QED
  BY <1>1, <1>2, <1>3 DEF PageTypes, WireTyped, TurnsTyped

LEMMA PageStarts ==
    ASSUME PartsAssumption, Page!Init
    PROVE  PageTypes
<1>1. WireTyped
  BY DEF Page!Init, WireTyped
<1>2. PlayTyped
  <2>1. /\ muted = FALSE /\ phase = "idle" /\ onAir = 0 /\ sounds = <<>>
    BY Zenon DEF Page!Init
  <2>2. sounds \in Seq(Nat) /\ onAir \in Nat
    BY <2>1
  <2> QED
    BY <2>1, <2>2, PageNames DEF PlayTyped
<1>3. TurnsTyped
  <2>1. /\ turn = 0 /\ active = 0 /\ portions = Parts + 1 /\ cancelled = FALSE
        /\ sphase = "idle"
    BY Zenon DEF Page!Init, Page!Over
  <2>2. portions \in Nat /\ active \in 0..turn /\ turn \in Nat
    BY <2>1 DEF PartsAssumption
  <2> QED
    BY <2>1, <2>2, PageNames DEF TurnsTyped
<1>4. UserTyped
  BY DEF Page!Init, UserTyped, Awaiting
<1> QED
  BY <1>1, <1>2, <1>3, <1>4 DEF PageTypes

-----------------------------------------------------------------------------
(* What is cut stays cut.                                                     *)

LEMMA PastKept ==
    ASSUME PageTypes, Past, CutInv,
           \/ Rests \/ CutsOff \/ Drops \/ Listens \/ Notes \/ HearsOf \/ Hears
           \/ Settles \/ Begins \/ Says
    PROVE  Past'
<1>1. turn \in Nat /\ active \in 0..turn /\ onAir \in 0..turn /\ cut \subseteq 0..turn
  BY DEF PageTypes, TurnsTyped, Past
<1>2. CASE Rests \/ Drops
  BY <1>1, <1>2 DEF Rests, Drops, Past
<1>3. CASE CutsOff
  BY <1>1, <1>3 DEF CutsOff, Past
<1>4. CASE Listens \/ Notes \/ Hears
  <2>1. UNCHANGED <<cut, turn, onAir>>
    BY <1>4 DEF Listens, Notes, Hears, Takes, HubRests
  <2> QED
    BY <1>1, <2>1 DEF Past
<1>5. CASE HearsOf
  <2>1. UNCHANGED <<cut, turn>> /\ onAir' = down[1][2] /\ Speech(1) /\ 1 \in Pos
    BY <1>5, TakenIs DEF HearsOf, Takes, HubRests, Speech, Speaking
  <2>2. down[1][2] \in 1..active
    BY <2>1 DEF CutInv, WireInv, Known
  <2> QED
    BY <1>1, <2>1, <2>2 DEF Past
<1>6. CASE Settles \/ Begins \/ Says
  <2>1. PageRests /\ turn' \in {turn, turn + 1}
    BY <1>6 DEF Settles, Begins, Says, Adds
  <2> QED
    BY <1>1, <2>1 DEF Past, PageRests
<1> QED
  BY <1>2, <1>3, <1>4, <1>5, <1>6

LEMMA CutStep ==
    ASSUME FluentAssumption, PartsAssumption, PageTypes, Past, CutInv, Page!Next
    PROVE  Past' /\ CutInv'
<1>1. \/ Rests \/ CutsOff \/ Drops \/ Listens \/ Notes \/ HearsOf \/ Hears
      \/ Settles \/ Begins \/ Says
  BY PageNextIs, PageActsAre, ReceiveIs, DropIs, HubActsAre
<1>2. CutInv'
  BY <1>1, RestsKeep, CutsOffKeep, DropsKeep, ListensKeep, NotesKeep, HearsOfKeep, HearsKeep,
     SettlesKeep, BeginsKeep, SaysKeep
<1> QED
  BY <1>1, <1>2, PastKept

\* Nothing of a reply the user cut off is played after the cut, and no reply he did not cut off
\* is muted, however many turns, utterances and connections there are, and whatever is on the
\* wire: as long as no utterance breaks off or times out while the hub is busy with a reply
\* (useVoiceSession.ts bargeIn, stop, sendText, onmessage; session.py set_phase, begin_turn).
THEOREM WhatIsCutStaysCut ==
    ASSUME FluentAssumption, PartsAssumption
    PROVE  Page!Spec => [](Page!CutIsFinal /\ Page!UncutIsHeard)
<1> DEFINE Inv == PageTypes /\ Past /\ CutInv
<1>1. Page!Init => Inv
  <2> SUFFICES ASSUME Page!Init PROVE Inv
    OBVIOUS
  <2>1. Pos = {} /\ ~Talks /\ ~muted /\ sphase = "idle" /\ sounds = <<>>
    BY DEF Page!Init, Pos, Talks
  <2>2. WireInv
    BY <2>1 DEF WireInv, Known, AfterUnmute, CutIsMuted, OneSpeaker, Parted
  <2>3. NextInv
    BY <2>1 DEF NextInv, NextIsNew, NextIsMuted, NextSpeaker, NextIsParted, TalksInPhase
  <2>4. Page!CutIsFinal
    BY <2>1 DEF Page!CutIsFinal
  <2>5. Past
    BY DEF Page!Init, Past
  <2> QED
    BY <2>1, <2>2, <2>3, <2>4, <2>5, PageStarts DEF CutInv
<1>2. Inv /\ [Page!Next]_(Page!vars) => Inv'
  <2> SUFFICES ASSUME PageTypes, Past, CutInv, [Page!Next]_(Page!vars) PROVE Inv'
    OBVIOUS
  <2>1. CASE Page!Next
    BY <2>1, CutStep, TypesKeep
  <2>2. CASE UNCHANGED Page!vars
    <3>1. /\ Rests
          /\ UNCHANGED <<down, up, muted, phase, onAir, cut, sounds, turn, active, portions,
                         cancelled, sphase, gen, utterances, waits, resumed>>
      BY <2>2, Zenon
         DEF Page!vars, Page!pageVars, Page!sockVars, Page!playVars, Page!hubVars, Rests
    <3>2. CutInv' /\ Past'
      BY <3>1, RestsKeep, PastKept
    <3>3. PageTypes'
      BY <3>1 DEF PageTypes, WireTyped, PlayTyped, TurnsTyped, UserTyped
    <3> QED
      BY <3>2, <3>3
  <2> QED
    BY <2>1, <2>2
<1>3. Inv => Page!CutIsFinal /\ Page!UncutIsHeard
  <2> SUFFICES ASSUME PageTypes, CutInv, muted, down # <<>>, Head(down)[1] = "audio"
               PROVE  Head(down)[2] \in cut
    BY DEF CutInv, Page!UncutIsHeard
  <2>1. Head(down) = down[1] /\ 1 \in Pos /\ \A i \in Pos : ~(i < 1)
    BY DEF PageTypes, WireTyped, Pos
  <2>2. down[1][2] = onAir
    BY <2>1 DEF CutInv, WireInv, OneSpeaker, Audio
  <2> QED
    BY <2>1, <2>2 DEF CutInv
<1> QED
  BY <1>1, <1>2, <1>3, PTL DEF Page!Spec

-----------------------------------------------------------------------------
(* Page and hub come to the same phase.                                       *)

Phased(i) == down[i][1] \in Page!Phases
Commanded(c) == \E i \in 1..Len(up) : up[i][1] = c

\* The stop button of this connection waits for the loudspeaker before it tells the hub.
Awaited(s) == \E i \in 1..Len(s) : s[i] = <<"stop", gen>>
Barging == Commanded("barge") \/ (live /\ (Awaited(waits) \/ Awaited(resumed)))

\* The last phase on the wire is the hub's.
LastTold ==
    \A i \in Pos : Phased(i) => down[i][1] = sphase \/ \E j \in Pos : i < j /\ Phased(j)
\* The page went idle without waiting, and what makes the hub idle is on its way.
Ahead ==
    /\ phase = "idle"
    /\ Commanded("stop") \/ (sphase = "speaking" /\ (cancelled \/ Barging))
Agreed == (\E i \in Pos : Phased(i)) \/ phase = sphase \/ Ahead
\* Without a connection nothing goes on.
Dead ==
    ~live => /\ sphase = "idle" /\ phase = "idle" /\ down = <<>>
             /\ active = 0 /\ stt = 0
\* The hub speaks only while a worker does.
WorkerSpeaks == sphase = "speaking" => active # 0 /\ portions # Page!Over
PhaseInv == LastTold /\ Agreed /\ Dead /\ WorkerSpeaks

-----------------------------------------------------------------------------
(* The page.                                                                  *)

LEMMA SendsKeep ==
    ASSUME PageTypes, Sends, NEW c, Commanded(c)
    PROVE  Commanded(c)'
<1> DEFINE S == Commands \X Nat
<1>1. up \in Seq(S)
  BY DEF PageTypes, WireTyped
<1>2. PICK i \in 1..Len(up) : up[i][1] = c
  BY DEF Commanded
<1>3. CASE up' = up
  BY <1>2, <1>3 DEF Commanded
<1>4. CASE \E cs \in Seq(S) : up' = up \o cs
  <2>1. PICK cs \in Seq(S) : up' = up \o cs
    BY <1>4
  <2> HIDE DEF S
  <2>2. i \in 1..Len(up') /\ up'[i] = up[i]
    BY <1>1, <2>1, Joined
  <2> QED
    BY <1>2, <2>2 DEF Commanded
<1> QED
  BY <1>3, <1>4 DEF Sends

\* Who waits for a flush still does, or has been told, or has told the hub.
StillWaits ==
    \/ /\ resumed' = resumed
       /\ waits' = waits \/ \E why : waits' = Append(waits, <<why, gen>>)
    \/ resumed = <<>> /\ resumed' = waits
    \/ /\ waits' = waits /\ resumed # <<>> /\ resumed' = Tail(resumed)
       /\ Head(resumed) = <<"stop", gen>> => up' = Append(up, <<"barge", 0>>)

LEMMA FlushWaits ==
    ASSUME NEW why, Page!Flush(why), resumed' = resumed
    PROVE  StillWaits
BY DEF Page!Flush, StillWaits

LEMMA PageActsWait ==
    ASSUME PageActs, live
    PROVE  live' /\ gen' = gen /\ StillWaits
<1>1. ~Page!Connect
  BY DEF Page!Connect
<1>2. live' /\ gen' = gen
  BY <1>1, Zenon
     DEF PageActs, Page!Frame, Page!KeyDown, Page!PushFrame, Page!KeyUp, Page!FlushDone,
         Page!Resume, Page!Play, Page!Stop, Page!SendText, Page!sockVars
<1>3. waits' = waits /\ resumed' = resumed => StillWaits
  BY DEF StillWaits
<1>4. ASSUME Page!BeginPush, resumed' = resumed PROVE StillWaits
  BY <1>3, <1>4, FlushWaits, Zenon DEF Page!BeginPush
<1>5. ASSUME NEW loud \in BOOLEAN, NEW ends \in BOOLEAN, Page!Frame(loud, ends) PROVE StillWaits
  <2>1. resumed' = resumed
    BY <1>5 DEF Page!Frame
  <2>2. Page!Flush("barge") \/ waits' = waits
    BY <1>5 DEF Page!Frame, Page!HoldBack, Page!Stream
  <2> QED
    BY <1>3, <2>1, <2>2, FlushWaits
<1>6. ASSUME Page!KeyDown \/ Page!PushFrame PROVE StillWaits
  <2>1. resumed' = resumed /\ (Page!BeginPush \/ waits' = waits)
    BY <1>6 DEF Page!KeyDown, Page!PushFrame
  <2> QED
    BY <1>3, <1>4, <2>1, Zenon
<1>7. ASSUME Page!KeyUp \/ Page!Play \/ Page!SendText PROVE StillWaits
  BY <1>3, <1>7, Zenon DEF Page!KeyUp, Page!Play, Page!SendText, Page!playVars
<1>8. ASSUME Page!FlushDone PROVE StillWaits
  BY <1>8, Zenon DEF Page!FlushDone, StillWaits
<1>9. ASSUME Page!Resume PROVE StillWaits
  <2>1. waits' = waits /\ resumed # <<>> /\ resumed' = Tail(resumed)
    BY <1>9 DEF Page!Resume
  <2>2. Head(resumed) = <<"stop", gen>> => up' = Append(up, <<"barge", 0>>)
    <3>1. ASSUME Head(resumed) = <<"stop", gen>> PROVE up' = Append(up, <<"barge", 0>>)
      <4>1. Head(resumed)[1] = "stop" /\ Head(resumed)[2] = gen
        BY <3>1
      <4> QED
        BY <1>9, <4>1, Zenon DEF Page!Resume
    <3> QED
      BY <3>1
  <2> QED
    BY <2>1, <2>2, Zenon DEF StillWaits
<1>10. ASSUME Page!Stop PROVE StillWaits
  <2>1. resumed' = resumed /\ (Page!Flush("stop") \/ waits' = waits)
    BY <1>10 DEF Page!Stop
  <2> QED
    BY <1>3, <2>1, FlushWaits, Zenon
<1> QED
  BY <1>1, <1>2, <1>5, <1>6, <1>7, <1>8, <1>9, <1>10 DEF PageActs

LEMMA BargingKept ==
    ASSUME PageTypes, Sends, StillWaits, live, live', gen' = gen, Barging
    PROVE  Barging'
<1> DEFINE S == {"barge", "push", "stop"} \X Nat
<1>1. waits \in Seq(S) /\ resumed \in Seq(S)
  BY DEF PageTypes, UserTyped, Awaiting
<1>2. CASE Commanded("barge")
  BY <1>2, SendsKeep DEF Barging
<1>3. CASE Awaited(waits)
  <2>1. PICK i \in 1..Len(waits) : waits[i] = <<"stop", gen>>
    BY <1>3 DEF Awaited
  <2>2. CASE waits' = waits
    BY <1>3, <2>2 DEF Awaited, Barging
  <2>3. CASE \E why : waits' = Append(waits, <<why, gen>>)
    <3>1. PICK w : waits' = Append(waits, w)
      BY <2>3
    <3> HIDE DEF S
    <3>2. i \in 1..Len(waits') /\ waits'[i] = waits[i]
      BY <1>1, <2>1, <3>1
    <3> QED
      BY <2>1, <3>2 DEF Awaited, Barging
  <2>4. CASE resumed' = waits
    BY <1>3, <2>4 DEF Awaited, Barging
  <2> QED
    BY <2>2, <2>3, <2>4 DEF StillWaits
<1>4. CASE Awaited(resumed)
  <2>1. PICK i \in 1..Len(resumed) : resumed[i] = <<"stop", gen>>
    BY <1>4 DEF Awaited
  <2>2. CASE resumed' = resumed
    BY <1>4, <2>2 DEF Awaited, Barging
  <2>3. CASE resumed = <<>>
    BY <2>1, <2>3
  <2>4. CASE /\ resumed # <<>> /\ resumed' = Tail(resumed)
             /\ Head(resumed) = <<"stop", gen>> => up' = Append(up, <<"barge", 0>>)
    <3>1. CASE i = 1
      <4>1. Head(resumed) = <<"stop", gen>>
        BY <1>1, <2>1, <3>1
      <4> DEFINE C == Commands \X Nat
                 b == <<"barge", 0>>
      <4>2. up \in Seq(C) /\ b[1] = "barge" /\ up' = Append(up, b)
        BY <2>4, <4>1 DEF PageTypes, WireTyped
      <4> HIDE DEF C, b
      <4>3. Len(up) + 1 \in 1..Len(up') /\ up'[Len(up) + 1] = b
        BY <4>2
      <4> QED
        BY <4>2, <4>3 DEF Commanded, Barging
    <3>2. CASE i # 1
      <4> HIDE DEF S
      <4>1. i - 1 \in 1..Len(resumed') /\ resumed'[i - 1] = resumed[i]
        BY <1>1, <2>1, <2>4, <3>2
      <4> QED
        BY <2>1, <4>1 DEF Awaited, Barging
    <3> QED
      BY <3>1, <3>2
  <2> QED
    BY <2>2, <2>3, <2>4 DEF StillWaits
<1> QED
  BY <1>2, <1>3, <1>4 DEF Barging

LEMMA PageActsPhase ==
    ASSUME PageActs
    PROVE  /\ UNCHANGED <<down, sphase, active, portions, cancelled, stt>>
           /\ phase' = phase \/ Page!Stop
<1>1. UNCHANGED <<down, Page!hubVars>>
  BY DEF PageActs, Page!Frame, Page!KeyDown, Page!PushFrame, Page!KeyUp, Page!FlushDone,
         Page!Resume, Page!Play, Page!Stop, Page!SendText, Page!Connect
<1>2. phase' = phase \/ Page!Stop
  BY DEF PageActs, Page!Frame, Page!KeyDown, Page!PushFrame, Page!KeyUp, Page!FlushDone,
         Page!Resume, Page!Play, Page!SendText, Page!Connect, Page!pageVars
<1> QED
  BY <1>1, <1>2, Zenon DEF Page!hubVars

\* Who presses stop is ahead of the hub, if he was with it.
LEMMA StopGoesAhead ==
    ASSUME PageTypes, Page!Stop, live, live', gen' = gen, sphase' = sphase,
           phase = sphase \/ phase # "speaking"
    PROVE  Ahead'
<1>1. phase' = "idle"
  BY DEF Page!Stop
<1>2. CASE phase = "speaking"
  <2> DEFINE w == <<"stop", gen>>
             S == {"barge", "push", "stop"} \X Nat
  <2>1. waits \in Seq(S) /\ waits' = Append(waits, w)
    BY <1>2 DEF Page!Stop, Page!Flush, PageTypes, UserTyped, Awaiting
  <2>2. w = <<"stop", gen'>>
    OBVIOUS
  <2> HIDE DEF w, S
  <2>3. Len(waits) + 1 \in 1..Len(waits') /\ waits'[Len(waits) + 1] = w
    BY <2>1
  <2>4. Awaited(waits)'
    BY <2>2, <2>3 DEF Awaited
  <2> QED
    BY <1>1, <1>2, <2>4 DEF Ahead, Barging
<1>3. CASE phase # "speaking"
  <2> DEFINE c == <<"stop", 0>>
             S == Commands \X Nat
  <2>1. c \in S /\ c[1] = "stop" /\ up \in Seq(S) /\ up' = up \o <<c>>
    BY <1>3 DEF Page!Stop, Page!Sent, PageTypes, WireTyped, Commands
  <2> HIDE DEF c, S
  <2>2. Len(up) + 1 \in 1..Len(up') /\ up'[Len(up) + 1] = c
    BY <2>1
  <2>3. Commanded("stop")'
    BY <2>1, <2>2 DEF Commanded
  <2> QED
    BY <1>1, <2>3 DEF Ahead
<1> QED
  BY <1>2, <1>3

LEMMA PageActsAgree ==
    ASSUME PageTypes, PhaseInv, PageActs
    PROVE  PhaseInv'
<1>1. UNCHANGED <<down, sphase, active, portions, cancelled, stt>> /\ (phase' = phase \/ Page!Stop)
  BY PageActsPhase
<1>2. LastTold' /\ WorkerSpeaks'
  BY <1>1 DEF PhaseInv, LastTold, WorkerSpeaks, Pos, Phased, Page!Over
<1>3. CASE ~live
  <2>1. phase = "idle" /\ sphase = "idle" /\ down = <<>> /\ active = 0 /\ stt = 0
    BY <1>3 DEF PhaseInv, Dead
  <2>2. phase' = "idle"
    BY <1>1, <2>1 DEF Page!Stop
  <2> QED
    BY <1>1, <1>2, <2>1, <2>2 DEF PhaseInv, Agreed, Dead
<1>4. CASE live
  <2>1. live' /\ gen' = gen /\ StillWaits /\ Sends
    BY <1>4, PageActsWait, PageActsTyped DEF Outgoing
  <2>2. ASSUME \E i \in Pos : Phased(i) PROVE Agreed'
    BY <1>1, <2>2 DEF Agreed, Pos, Phased
  <2>3. ASSUME phase = sphase PROVE Agreed'
    <3>1. CASE phase' = phase
      BY <1>1, <2>3, <3>1 DEF Agreed
    <3>2. CASE Page!Stop
      BY <1>1, <1>4, <2>1, <2>3, <3>2, StopGoesAhead DEF Agreed
    <3> QED
      BY <1>1, <3>1, <3>2
  <2>4. ASSUME Ahead PROVE Agreed'
    <3>1. phase' = "idle"
      BY <1>1, <2>4 DEF Ahead, Page!Stop
    <3>2. CASE Commanded("stop")
      <4>1. Commanded("stop")'
        BY <2>1, <3>2, SendsKeep
      <4> QED
        BY <3>1, <4>1 DEF Agreed, Ahead
    <3>3. CASE sphase = "speaking" /\ cancelled
      BY <1>1, <3>1, <3>3 DEF Agreed, Ahead
    <3>4. CASE sphase = "speaking" /\ Barging
      <4>1. Barging'
        BY <1>4, <2>1, <3>4, BargingKept
      <4> QED
        BY <1>1, <3>1, <3>4, <4>1 DEF Agreed, Ahead
    <3> QED
      BY <2>4, <3>2, <3>3, <3>4 DEF Ahead
  <2>5. Agreed'
    BY <2>2, <2>3, <2>4 DEF PhaseInv, Agreed
  <2> QED
    BY <1>2, <2>1, <2>5 DEF PhaseInv, Dead
<1> QED
  BY <1>3, <1>4

LEMMA ReceiveAgrees ==
    ASSUME PageTypes, PhaseInv, Page!Receive
    PROVE  PhaseInv'
<1>1. Takes /\ live /\ live' = live
  BY DEF Page!Receive, Takes, HubRests, Page!hubVars, Page!sockVars
<1>2. UNCHANGED <<sphase, active, portions, cancelled, stt, up, waits, resumed, gen>>
  BY Zenon DEF Page!Receive, Page!hubVars, Page!sockVars
<1>3. /\ 1 \in Pos /\ Pos \subseteq Nat /\ Pos' \subseteq Nat /\ \A i \in Pos : i >= 1
      /\ \A i \in Pos' : i + 1 \in Pos /\ Phased(i)' = Phased(i + 1) /\ down'[i] = down[i + 1]
      /\ \A i \in Pos : i # 1 => i - 1 \in Pos' /\ Phased(i - 1)' = Phased(i)
  <2>1. \A i \in Pos' : Phased(i)' = Phased(i + 1)
    BY <1>1, MovedUp DEF Phased, Page!Phases
  <2>2. \A i \in Pos : i # 1 => Phased(i - 1)' = Phased(i)
    BY <1>1, MovedUp DEF Phased, Page!Phases
  <2> QED
    BY <1>1, <2>1, <2>2, TakenIs, MovedUp
<1>4. IF Phased(1) THEN phase' = down[1][1] ELSE phase' = phase
  <2>1. Head(down) = down[1]
    BY <1>1 DEF PageTypes, WireTyped, Takes
  <2>2. CASE Page!PhaseComes(down[1])
    BY <2>2 DEF Page!PhaseComes, Phased
  <2>3. CASE Page!AudioComes(down[1]) \/ Page!EndpointComes(down[1])
    BY <2>3, PageNames DEF Page!AudioComes, Page!EndpointComes, Phased
  <2> QED
    BY <2>1, <2>2, <2>3 DEF Page!Receive
<1>5. \A i \in Pos : i # 1 /\ Phased(i) => \E j \in Pos' : Phased(j)'
  BY <1>3
<1>6. LastTold'
  <2> SUFFICES ASSUME NEW i \in Pos', Phased(i)'
               PROVE  down'[i][1] = sphase' \/ \E j \in Pos' : i < j /\ Phased(j)'
    BY DEF LastTold
  <2>1. i + 1 \in Pos /\ Phased(i + 1) /\ down'[i] = down[i + 1]
    BY <1>3
  <2>2. CASE down[i + 1][1] = sphase
    BY <1>2, <2>1, <2>2
  <2>3. CASE \E j \in Pos : i + 1 < j /\ Phased(j)
    <3>1. PICK j \in Pos : i + 1 < j /\ Phased(j)
      BY <2>3
    <3>2. j - 1 \in Pos' /\ Phased(j - 1)' /\ i < j - 1
      BY <1>3, <3>1
    <3> QED
      BY <3>2
  <2> QED
    BY <2>1, <2>2, <2>3 DEF PhaseInv, LastTold
<1>7. Agreed'
  <2>1. CASE \E j \in Pos' : Phased(j)'
    BY <2>1 DEF Agreed
  <2>2. CASE ~\E j \in Pos' : Phased(j)'
    <3>1. \A i \in Pos : Phased(i) => i = 1
      BY <1>5, <2>2
    <3>2. CASE Phased(1)
      <4>1. down[1][1] = sphase
        BY <1>3, <3>1, <3>2 DEF PhaseInv, LastTold
      <4> QED
        BY <1>2, <1>4, <3>2, <4>1 DEF Agreed
    <3>3. CASE ~Phased(1)
      <4>1. phase' = phase /\ (phase = sphase \/ Ahead)
        BY <1>4, <3>1, <3>3 DEF PhaseInv, Agreed
      <4>2. Ahead => Ahead'
        BY <1>1, <1>2, <4>1 DEF Ahead, Commanded, Barging, Awaited
      <4> QED
        BY <1>2, <4>1, <4>2 DEF Agreed
    <3> QED
      BY <3>2, <3>3
  <2> QED
    BY <2>1, <2>2
<1>8. Dead' /\ WorkerSpeaks'
  BY <1>1, <1>2 DEF PhaseInv, Dead, WorkerSpeaks, Page!Over
<1> QED
  BY <1>6, <1>7, <1>8 DEF PhaseInv

LEMMA DropAgrees == ASSUME Page!Drop PROVE PhaseInv'
<1>1. /\ down' = <<>> /\ phase' = "idle" /\ sphase' = "idle" /\ active' = 0 /\ stt' = 0
  BY Zenon DEF Page!Drop
<1>2. Pos' = {}
  BY <1>1 DEF Pos
<1> QED
  BY <1>1, <1>2 DEF PhaseInv, LastTold, Agreed, Dead, WorkerSpeaks

-----------------------------------------------------------------------------
(* The hub.                                                                   *)

\* What the hub says last is what it is in.
LEMMA HubSaysLast ==
    ASSUME PageTypes, LastTold, Tells, sphase' \in Page!Phases
    PROVE  /\ LastTold'
           /\ (\E i \in Pos' : Phased(i)') \/ (sphase' = sphase /\ ~\E i \in Pos : Phased(i))
<1>1. PICK new \in Messages :
          /\ down' = down \o new
          /\ \/ /\ sphase' = sphase
                /\ \A i \in 1..Len(new) : new[i][1] \notin Page!Phases
             \/ \E n \in 1..Len(new) :
                    /\ new[n][1] = sphase'
                    /\ \A i \in 1..Len(new) : i > n => new[i][1] \notin Page!Phases
  BY DEF Tells
<1>2. new \in Seq(Kinds \X Nat)
  BY DEF Messages
<1>3. /\ Pos \subseteq Pos' /\ Pos' \subseteq Nat /\ Len(down) \in Nat /\ Len(new) \in Nat
      /\ \A i \in Pos : i \in Pos' /\ i <= Len(down) /\ down'[i] = down[i]
      /\ \A i \in 1..Len(new) :
             /\ Len(down) + i \in Pos' /\ Len(down) + i > Len(down)
             /\ down'[Len(down) + i] = new[i]
      /\ \A i \in Pos' : i \notin Pos =>
             \E n \in 1..Len(new) : i = Len(down) + n /\ down'[i] = new[n]
  BY <1>1, <1>2, AddedIs
<1>4. Page!Phases' = Page!Phases
  BY DEF Page!Phases
<1>5. \A i \in Pos : Phased(i)' = Phased(i)
  BY <1>3, <1>4 DEF Phased
<1>6. CASE /\ sphase' = sphase
           /\ \A i \in 1..Len(new) : new[i][1] \notin Page!Phases
  <2>1. ASSUME NEW i \in Pos', Phased(i)' PROVE i \in Pos /\ Phased(i)
    BY <1>3, <1>4, <1>5, <1>6, <2>1 DEF Phased
  <2>2. LastTold'
    <3> SUFFICES ASSUME NEW i \in Pos', Phased(i)'
                 PROVE  down'[i][1] = sphase' \/ \E j \in Pos' : i < j /\ Phased(j)'
      BY DEF LastTold
    <3>1. i \in Pos /\ Phased(i) /\ down'[i] = down[i]
      BY <1>3, <2>1
    <3>2. down[i][1] = sphase \/ \E j \in Pos : i < j /\ Phased(j)
      BY <3>1 DEF LastTold
    <3> QED
      BY <1>3, <1>5, <1>6, <3>1, <3>2
  <2> QED
    BY <1>3, <1>5, <1>6, <2>2
<1>7. CASE \E n \in 1..Len(new) :
               /\ new[n][1] = sphase'
               /\ \A i \in 1..Len(new) : i > n => new[i][1] \notin Page!Phases
  <2>1. PICK n \in 1..Len(new) :
            /\ new[n][1] = sphase'
            /\ \A i \in 1..Len(new) : i > n => new[i][1] \notin Page!Phases
    BY <1>7
  <2>2. PICK m \in Nat : m = Len(down) + n
    BY <1>3
  <2>3. m \in Pos' /\ m > Len(down) /\ down'[m][1] = sphase' /\ m = Len(down) + n
    BY <1>3, <2>1, <2>2
  <2>4. Phased(m)'
    BY <1>4, <2>3 DEF Phased
  <2>5. ASSUME NEW i \in Pos', Phased(i)' PROVE i <= m
    <3>1. CASE i \in Pos
      BY <1>3, <2>3, <3>1
    <3>2. CASE i \notin Pos
      <4>1. PICK k \in 1..Len(new) : i = Len(down) + k /\ down'[i] = new[k]
        BY <1>3, <3>2
      <4>2. ~(k > n)
        BY <1>4, <2>1, <2>5, <4>1 DEF Phased
      <4> QED
        BY <1>3, <2>3, <4>1, <4>2
    <3> QED
      BY <3>1, <3>2
  <2>6. LastTold'
    <3> SUFFICES ASSUME NEW i \in Pos', Phased(i)'
                 PROVE  down'[i][1] = sphase' \/ \E j \in Pos' : i < j /\ Phased(j)'
      BY DEF LastTold
    <3>1. i = m \/ i < m
      BY <1>3, <2>3, <2>5
    <3> QED
      BY <2>3, <2>4, <3>1
  <2> QED
    BY <2>3, <2>4, <2>6
<1> QED
  BY <1>1, <1>6, <1>7

LEMMA HubRestsPage ==
    ASSUME HubActs
    PROVE  /\ UNCHANGED <<phase, live, gen, waits, resumed>>
           /\ up' = up \/ Page!Serve
BY DEF HubActs, Page!Serve, Page!Transcribed, Page!NothingHeard, Page!TimesOut, Page!Endpoint,
       Page!Say, Page!WorkerEnds, Page!pageVars, Page!sockVars, Page!playVars

LEMMA HubNeedsConnection == ASSUME Dead, HubActs PROVE live
BY DEF Dead, HubActs, Page!Serve, Page!Transcribed, Page!NothingHeard, Page!TimesOut, Page!Endpoint,
       Page!Say, Page!WorkerEnds

LEMMA WorkersSpeak ==
    ASSUME PartsAssumption, PageTypes, WorkerSpeaks, HubActs
    PROVE  WorkerSpeaks'
<1>1. Page!Over' = Page!Over /\ Page!Over = Parts + 1
  BY DEF Page!Over
<1>2. ASSUME sphase' \in {"idle", "listening", "thinking"} PROVE WorkerSpeaks'
  BY <1>2 DEF WorkerSpeaks
<1>3. ASSUME UNCHANGED <<sphase, active, portions>> PROVE WorkerSpeaks'
  BY <1>1, <1>3 DEF WorkerSpeaks
<1>4. CASE Page!Serve
  <2> DEFINE c == Head(up)
  <2>1. CASE Page!OnStart(c) \/ Page!OnStop(c)
    BY <1>2, <2>1 DEF Page!OnStart, Page!OnStop, Page!SetPhase
  <2>2. CASE Page!OnFrames(c) \/ Page!OnEnd(c) \/ Page!OnBarge(c)
    BY <1>2, <1>3, <2>2 DEF Page!OnFrames, Page!OnEnd, Page!OnBarge, Page!SetPhase, Page!hubVars
  <2>3. CASE Page!OnText(c)
    BY <1>2, <1>3, <2>3 DEF Page!OnText, Page!BeginTurn
  <2> QED
    BY <1>4, <2>1, <2>2, <2>3 DEF Page!Serve
<1>5. CASE Page!Transcribed \/ Page!Endpoint
  BY <1>2, <1>5 DEF Page!Transcribed, Page!Endpoint, Page!BeginTurn
<1>6. CASE Page!NothingHeard \/ Page!TimesOut
  BY <1>2, <1>3, <1>6 DEF Page!NothingHeard, Page!TimesOut, Page!SetPhase
<1>7. CASE Page!WorkerEnds
  BY <1>2, <1>7 DEF Page!WorkerEnds, Page!SetPhase
<1>8. CASE Page!Say
  <2>1. active' = active /\ active # 0 /\ portions' = portions + 1 /\ portions < Parts
    BY <1>8 DEF Page!Say
  <2>2. portions' # Parts + 1
    BY <2>1 DEF PartsAssumption, PageTypes, TurnsTyped
  <2> QED
    BY <1>1, <2>1, <2>2 DEF WorkerSpeaks
<1> QED
  BY <1>4, <1>5, <1>6, <1>7, <1>8 DEF HubActs

\* A command but the first is still on its way when the first is served.
LEMMA ServedInOrder ==
    ASSUME PageTypes, up # <<>>, up' = Tail(up), NEW c, Commanded(c), Head(up)[1] # c
    PROVE  Commanded(c)'
<1> DEFINE S == Commands \X Nat
<1>1. up \in Seq(S)
  BY DEF PageTypes, WireTyped
<1> HIDE DEF S
<1>2. PICK i \in 1..Len(up) : up[i][1] = c
  BY DEF Commanded
<1>3. i # 1
  BY <1>1, <1>2
<1>4. i - 1 \in 1..Len(up') /\ up'[i - 1] = up[i]
  BY <1>1, <1>2, <1>3
<1> QED
  BY <1>2, <1>4 DEF Commanded

LEMMA ServeKeepsAhead ==
    ASSUME PageTypes, WorkerSpeaks, live, Page!Serve, sphase' = sphase, Ahead,
           UNCHANGED <<phase, live, gen, waits, resumed>>
    PROVE  Ahead' \/ phase' = sphase'
<1> DEFINE c == Head(up)
<1>1. up # <<>> /\ up' = Tail(up) /\ phase' = "idle" /\ cancelled \in BOOLEAN
  BY DEF Page!Serve, Ahead, PageTypes, TurnsTyped
<1>2. CASE Page!OnStop(c)
  BY <1>1, <1>2 DEF Page!OnStop, Page!SetPhase
<1>3. CASE ~Page!OnStop(c) /\ Commanded("stop")
  <2>1. c[1] # "stop"
    BY <1>3 DEF Page!Serve, Page!OnStart, Page!OnFrames, Page!OnEnd, Page!OnBarge, Page!OnText
  <2> QED
    BY <1>1, <1>3, <2>1, ServedInOrder DEF Ahead
<1>4. CASE ~Page!OnStop(c) /\ sphase = "speaking" /\ (cancelled \/ Barging)
  <2>1. CASE Page!OnBarge(c)
    <3>1. cancelled'
      BY <1>4, <2>1, Zenon DEF Page!OnBarge, WorkerSpeaks
    <3> QED
      BY <1>1, <1>4, <3>1 DEF Ahead
  <2>2. CASE /\ Page!OnStart(c) \/ Page!OnFrames(c) \/ Page!OnEnd(c) \/ Page!OnText(c)
             /\ sphase' # "thinking"
    <3>1. cancelled => cancelled'
      <4>1. CASE Page!OnStart(c)
        BY <4>1, Zenon DEF Page!OnStart
      <4>2. CASE Page!OnFrames(c) \/ Page!OnEnd(c)
        BY <4>2 DEF Page!OnFrames, Page!OnEnd, Page!hubVars
      <4>3. CASE Page!OnText(c)
        BY <2>2, <4>3 DEF Page!OnText, Page!BeginTurn
      <4> QED
        BY <2>2, <4>1, <4>2, <4>3
    <3>2. Barging => Barging'
      <4>1. c[1] # "barge"
        BY <2>2 DEF Page!OnStart, Page!OnFrames, Page!OnEnd, Page!OnText
      <4>2. Commanded("barge") => Commanded("barge")'
        BY <1>1, <4>1, ServedInOrder
      <4> QED
        BY <4>2 DEF Barging, Awaited
    <3> QED
      BY <1>1, <1>4, <3>1, <3>2 DEF Ahead
  <2>3. Page!OnStart(c) \/ Page!OnFrames(c) \/ Page!OnEnd(c) \/ Page!OnText(c) \/ Page!OnBarge(c)
    BY <1>4 DEF Page!Serve
  <2> QED
    BY <1>4, <2>1, <2>2, <2>3
<1> QED
  BY <1>2, <1>3, <1>4 DEF Ahead

LEMMA HubKeepsAhead ==
    ASSUME PageTypes, WorkerSpeaks, live, HubActs, sphase' = sphase, Ahead
    PROVE  Ahead' \/ phase' = sphase'
<1>1. UNCHANGED <<phase, live, gen, waits, resumed>> /\ (up' = up \/ Page!Serve)
  BY HubRestsPage
<1>2. CASE Page!Serve
  BY <1>1, <1>2, ServeKeepsAhead
<1>3. CASE up' = up
  <2>1. (Commanded("stop") => Commanded("stop")') /\ (Barging => Barging')
    BY <1>1, <1>3 DEF Commanded, Barging, Awaited
  <2>2. phase' = "idle"
    BY <1>1 DEF Ahead
  <2>3. ASSUME sphase = "speaking", cancelled PROVE cancelled'
    <3>1. CASE Page!Transcribed \/ Page!Endpoint
      BY <2>3, <3>1 DEF Page!Transcribed, Page!Endpoint, Page!BeginTurn
    <3>2. CASE Page!NothingHeard \/ Page!TimesOut \/ Page!Say \/ Page!WorkerEnds
      <4>1. cancelled' = cancelled
        BY <3>2, Zenon DEF Page!NothingHeard, Page!TimesOut, Page!Say, Page!WorkerEnds
      <4> QED
        BY <2>3, <4>1
    <3>3. CASE Page!Serve
      <4>1. up # <<>> /\ up' = Tail(up)
        BY <3>3 DEF Page!Serve
      <4> QED
        BY <1>3, <4>1 DEF PageTypes, WireTyped
    <3> QED
      BY <3>1, <3>2, <3>3 DEF HubActs
  <2> QED
    BY <2>1, <2>2, <2>3 DEF Ahead
<1> QED
  BY <1>1, <1>2, <1>3

LEMMA HubAgrees ==
    ASSUME PartsAssumption, PageTypes, PhaseInv, HubActs
    PROVE  PhaseInv'
<1>1. live /\ live' /\ phase' = phase
  BY HubNeedsConnection, HubRestsPage DEF PhaseInv
<1>2. /\ LastTold'
      /\ (\E i \in Pos' : Phased(i)') \/ (sphase' = sphase /\ ~\E i \in Pos : Phased(i))
  BY HubTells, HubSaysLast DEF PhaseInv
<1>3. Agreed'
  <2>1. CASE \E i \in Pos' : Phased(i)'
    BY <2>1 DEF Agreed
  <2>2. CASE sphase' = sphase /\ ~\E i \in Pos : Phased(i)
    <3>1. phase = sphase \/ Ahead
      BY <2>2 DEF PhaseInv, Agreed
    <3> QED
      BY <1>1, <2>2, <3>1, HubKeepsAhead DEF PhaseInv, Agreed
  <2> QED
    BY <1>2, <2>1, <2>2
<1>4. WorkerSpeaks' /\ Dead'
  BY <1>1, WorkersSpeak DEF PhaseInv, Dead
<1> QED
  BY <1>2, <1>3, <1>4 DEF PhaseInv

\* When all is said, the page and the hub are in the same phase, or he is just being interrupted:
\* however many turns, utterances and connections there are, although the page goes idle without
\* waiting and the hub tells a phase only when it changes (useVoiceSession.ts stop, onmessage;
\* session.py set_phase).
THEOREM PhasesMeet == ASSUME PartsAssumption PROVE Page!Spec => []Page!PhaseAgrees
<1> DEFINE Inv == PageTypes /\ PhaseInv
<1>1. Page!Init => Inv
  <2> SUFFICES ASSUME Page!Init PROVE Inv
    OBVIOUS
  <2>1. /\ phase = "idle" /\ sphase = "idle" /\ down = <<>> /\ active = 0 /\ stt = 0
    BY Zenon DEF Page!Init
  <2>2. Pos = {}
    BY <2>1 DEF Pos
  <2> QED
    BY <2>1, <2>2, PageStarts DEF PhaseInv, LastTold, Agreed, Dead, WorkerSpeaks
<1>2. Inv /\ [Page!Next]_(Page!vars) => Inv'
  <2> SUFFICES ASSUME PageTypes, PhaseInv, [Page!Next]_(Page!vars) PROVE Inv'
    OBVIOUS
  <2>1. CASE Page!Next
    <3>1. PhaseInv'
      BY <2>1, PageNextIs, PageActsAgree, ReceiveAgrees, DropAgrees, HubAgrees
    <3> QED
      BY <2>1, <3>1, TypesKeep
  <2>2. CASE UNCHANGED Page!vars
    <3>1. UNCHANGED <<down, up, muted, phase, onAir, sounds, turn, active, portions, cancelled,
                      sphase, gen, utterances, waits, resumed, live, stt>>
      BY <2>2, Zenon DEF Page!vars, Page!pageVars, Page!sockVars, Page!playVars, Page!hubVars
    <3>2. PageTypes'
      BY <3>1 DEF PageTypes, WireTyped, PlayTyped, TurnsTyped, UserTyped
    <3>3. LastTold' /\ Dead' /\ WorkerSpeaks'
      BY <3>1 DEF PhaseInv, LastTold, Dead, WorkerSpeaks, Pos, Phased, Page!Over
    <3>4. Agreed'
      BY <3>1 DEF PhaseInv, Agreed, Ahead, Commanded, Barging, Awaited, Pos, Phased
    <3> QED
      BY <3>2, <3>3, <3>4 DEF PhaseInv
  <2> QED
    BY <2>1, <2>2
<1>3. Inv => Page!PhaseAgrees
  <2> SUFFICES ASSUME PhaseInv, Page!Settled, ~(cancelled /\ portions # Page!Over)
               PROVE  phase = sphase
    BY DEF Page!PhaseAgrees
  <2>1. Pos = {} /\ ~Commanded("stop") /\ ~Barging
    BY DEF Page!Settled, Pos, Commanded, Barging, Awaited
  <2>2. phase = sphase \/ (sphase = "speaking" /\ cancelled)
    BY <2>1 DEF PhaseInv, Agreed, Ahead
  <2> QED
    BY <2>2 DEF PhaseInv, WorkerSpeaks
<1> QED
  BY <1>1, <1>2, <1>3, PTL DEF Page!Spec

-----------------------------------------------------------------------------
(* The wall: no edit is lost.                                                 *)

CONSTANTS Callers, Texts, MaxPanels, Unhurried, MaxShown, MaxCalls, MaxVisits
VARIABLES hung, made, calls, latch, doing, patched, bus, list, open, waiting, place, snapshot, visits
Room == INSTANCE Wall WITH wall <- hung, lock <- latch, call <- doing, pending <- waiting

\* Threads are not named like nobody.
WallAssumption ==
    MaxPanels \in Nat \ {0} /\ {MaxShown, MaxCalls, MaxVisits} \subseteq Nat /\ 0 \notin Callers

Errands == {"idle", "shows", "edits", "tells"}
Rows == [id : Room!Ids, rev : Nat, body : Room!Bodies]

WallTyped ==
    /\ hung \in Seq(Rows) /\ made \in 0..MaxShown
    /\ patched \in [Room!Ids -> SUBSET Texts]
CallsTyped ==
    /\ DOMAIN doing = Callers
    /\ \A c \in Callers :
           /\ {"at", "id", "body", "owes"} \subseteq DOMAIN doing[c]
           /\ doing[c].at \in Errands /\ doing[c].id \in 0..MaxShown
           /\ doing[c].body \in Room!Bodies

\* A panel that is about to be shown is new, and nobody else's.
NewPanels ==
    /\ \A k \in DOMAIN hung : hung[k].id <= made
    /\ \A i \in Room!Ids : i > made => patched[i] = {}
    /\ \A c \in Callers : doing[c].at = "shows" =>
           /\ doing[c].id \in 1..made /\ patched[doing[c].id] = {}
           /\ \A k \in DOMAIN hung : hung[k].id # doing[c].id
           /\ \A d \in Callers : d # c /\ doing[d].at = "shows" => doing[d].id # doing[c].id

\* Who edits has the lock, and read a body from which nothing that was patched away is missing.
EditsAreCurrent ==
    \A c \in Callers : doing[c].at = "edits" =>
        /\ latch = c /\ doing[c].id \in 1..made
        /\ \A t \in patched[doing[c].id] : doing[c].body[t] = 0
WallInv ==
    WallTyped /\ CallsTyped /\ NewPanels /\ EditsAreCurrent /\ Room!NoEditIsLost

\* A set of naturals that has a member has a least one.
LEMMA LeastOne ==
    ASSUME NEW S, S \subseteq Nat, S # {}
    PROVE  \E m \in S : \A n \in S : m <= n
<1>1. IsWellFoundedOn(OpToRel(<, Nat), Nat)
  BY NatLessThanWellFounded, Zenon
<1>2. PICK m \in S : \A n \in S : ~(<<n, m>> \in OpToRel(<, Nat))
  BY <1>1, WFMin, Zenon
<1>3. \A n \in S : ~(n < m)
  BY <1>2 DEF OpToRel
<1> QED
  BY <1>3

\* The recursion of Among defines a function.
KeptStep(rows, ids, f, k) ==
    IF k = 0 THEN << >>
    ELSE IF rows[k].id \in ids THEN Append(f[k - 1], rows[k]) ELSE f[k - 1]

LEMMA KeptExists ==
    ASSUME NEW rows, NEW ids, NEW n \in Nat
    PROVE  \E f : f = [k \in 0..n |-> KeptStep(rows, ids, f, k)]
<1> DEFINE P(m) == \E f : f = [k \in 0..m |-> KeptStep(rows, ids, f, k)]
           Bad == {m \in Nat : ~P(m)}
<1>1. P(0)
  <2> DEFINE f == [k \in {0} |-> << >>]
  <2>1. f = [k \in 0..0 |-> KeptStep(rows, ids, f, k)]
    BY DEF KeptStep
  <2> QED
    BY <2>1
<1>2. ASSUME NEW m \in Nat, P(m) PROVE P(m + 1)
  <2>1. PICK f : f = [k \in 0..m |-> KeptStep(rows, ids, f, k)]
    BY <1>2
  <2> DEFINE g == [k \in 0..(m + 1) |-> IF k <= m THEN f[k] ELSE KeptStep(rows, ids, f, k)]
  <2>2. \A k \in 0..(m + 1) : g[k] = KeptStep(rows, ids, g, k)
    <3>1. TAKE k \in 0..(m + 1)
    <3>2. CASE k = 0
      BY <2>1, <3>2 DEF KeptStep
    <3>3. CASE k \in 1..m
      <4>1. g[k] = f[k] /\ g[k - 1] = f[k - 1] /\ f[k] = KeptStep(rows, ids, f, k)
        BY <2>1, <3>3
      <4> QED
        BY <4>1, <3>3 DEF KeptStep
    <3>4. CASE k = m + 1
      BY <3>4 DEF KeptStep
    <3> QED
      BY <3>2, <3>3, <3>4
  <2>3. g = [k \in 0..(m + 1) |-> KeptStep(rows, ids, g, k)]
    BY <2>2
  <2> QED
    BY <2>3
<1>3. ASSUME Bad # {} PROVE FALSE
  <2> HIDE DEF P
  <2>1. PICK m \in Bad : \A k \in Bad : m <= k
    BY <1>3, LeastOne
  <2>2. m # 0
    BY <1>1, <2>1
  <2>3. m - 1 \in Nat /\ m - 1 \notin Bad
    BY <2>1, <2>2
  <2>4. P(m - 1 + 1)
    BY <1>2, <2>3
  <2> QED
    BY <2>1, <2>4
<1> QED
  BY <1>3

\* What Among keeps are rows of the panels it is to keep.
LEMMA AmongFrom ==
    ASSUME NEW S, NEW rows \in Seq(S), NEW ids
    PROVE  Room!Among(rows, ids) \in Seq({r \in {rows[k] : k \in 1..Len(rows)} : r.id \in ids})
<1> DEFINE R == {r \in {rows[k] : k \in 1..Len(rows)} : r.id \in ids}
           F(f) == [k \in 0..Len(rows) |-> KeptStep(rows, ids, f, k)]
           kept == CHOOSE f : f = F(f)
           Bad == {k \in 0..Len(rows) : kept[k] \notin Seq(R)}
<1>1. Len(rows) \in Nat
  OBVIOUS
<1>2. \E f : f = F(f)
  BY <1>1, KeptExists
<1>3. kept = F(kept)
  <2> HIDE DEF F
  <2> QED
    BY <1>2
<1>4. Room!Among(rows, ids) = kept[Len(rows)]
  BY DEF Room!Among, KeptStep
<1> HIDE DEF kept
<1>5. \A k \in 0..Len(rows) : kept[k] = KeptStep(rows, ids, kept, k)
  BY <1>3
<1>6. \A k \in 1..Len(rows) : rows[k].id \in ids => rows[k] \in R
  OBVIOUS
<1> HIDE DEF R, F
<1>7. kept[0] \in Seq(R)
  <2>1. kept[0] = KeptStep(rows, ids, kept, 0)
    BY <1>1, <1>5
  <2>2. kept[0] = << >>
    BY <2>1 DEF KeptStep
  <2> QED
    BY <2>2
<1>8. ASSUME NEW k \in 1..Len(rows), kept[k - 1] \in Seq(R) PROVE kept[k] \in Seq(R)
  <2>1. kept[k] = KeptStep(rows, ids, kept, k) /\ k # 0
    BY <1>1, <1>5
  <2>2. CASE rows[k].id \notin ids
    BY <1>8, <2>1, <2>2 DEF KeptStep
  <2>3. CASE rows[k].id \in ids
    <3>1. rows[k] \in R
      BY <1>6, <2>3
    <3>2. Append(kept[k - 1], rows[k]) \in Seq(R)
      BY <1>8, <3>1
    <3> QED
      BY <2>1, <2>3, <3>2 DEF KeptStep
  <2> QED
    BY <2>2, <2>3
<1>9. ASSUME Bad # {} PROVE FALSE
  <2>1. Bad \subseteq Nat
    BY <1>1
  <2>2. PICK k \in Bad : \A n \in Bad : k <= n
    BY <1>9, <2>1, LeastOne
  <2>3. k \in 1..Len(rows)
    BY <1>1, <1>7, <2>2
  <2>4. k - 1 \in 0..Len(rows) /\ ~(k <= k - 1)
    BY <1>1, <2>3
  <2>5. kept[k - 1] \in Seq(R)
    BY <2>2, <2>4
  <2> QED
    BY <1>8, <2>2, <2>3, <2>5
<1>10. kept[Len(rows)] \in Seq(R)
  BY <1>1, <1>9
<1> QED
  BY <1>4, <1>10 DEF R


\* Closing panels loses no edit of another.
LEMMA FewerRows ==
    ASSUME NEW rows \in Seq(Rows), NEW ids
    PROVE  /\ Room!Among(rows, ids) \in Seq(Rows)
           /\ \A k \in DOMAIN Room!Among(rows, ids) :
                  /\ Room!Among(rows, ids)[k].id \in ids
                  /\ \E n \in DOMAIN rows : Room!Among(rows, ids)[k] = rows[n]
<1> DEFINE R == {r \in {rows[k] : k \in 1..Len(rows)} : r.id \in ids}
           a == Room!Among(rows, ids)
<1>1. a \in Seq(R)
  BY AmongFrom
<1>2. R \subseteq Rows
  OBVIOUS
<1>3. \A k \in DOMAIN a : a[k] \in R
  BY <1>1
<1>4. a \in Seq(Rows)
  <2> HIDE DEF R, a
  <2>1. Len(a) \in Nat /\ DOMAIN a = 1..Len(a) /\ \A k \in 1..Len(a) : a[k] \in Rows
    BY <1>1, <1>2, <1>3
  <2>2. a = [k \in 1..Len(a) |-> a[k]]
    BY <1>1
  <2> QED
    BY <2>1, <2>2
<1>5. \A r \in R : r.id \in ids /\ \E n \in DOMAIN rows : r = rows[n]
  OBVIOUS
<1> HIDE DEF R, a
<1>6. \A k \in DOMAIN a : a[k].id \in ids /\ \E n \in DOMAIN rows : a[k] = rows[n]
  BY <1>3, <1>5
<1> QED
  BY <1>4, <1>6 DEF a

\* What is asked of a wall whose rows are old ones.
LEMMA OldRows ==
    ASSUME WallInv, hung' \in Seq(Rows), UNCHANGED <<made, patched>>,
           \A k \in DOMAIN hung' : \E n \in DOMAIN hung : hung'[k] = hung[n]
    PROVE  /\ WallTyped' /\ Room!NoEditIsLost'
           /\ \A k \in DOMAIN hung' : hung'[k].id <= made
           /\ \A i : (\A k \in DOMAIN hung : hung[k].id # i) => (\A k \in DOMAIN hung' : hung'[k].id # i)
<1>1. WallTyped'
  BY DEF WallInv, WallTyped
<1>2. Room!NoEditIsLost'
  BY DEF WallInv, Room!NoEditIsLost
<1>3. \A k \in DOMAIN hung' : hung'[k].id <= made
  BY DEF WallInv, NewPanels
<1> QED
  BY <1>1, <1>2, <1>3

\* A caller that tells, or rests, asks nothing of the wall.
LEMMA CallerLeaves ==
    ASSUME WallAssumption, WallInv, NEW c \in Callers, NEW r,
           {"at", "id", "body", "owes"} \subseteq DOMAIN r, r.at \in {"idle", "tells"},
           r.id \in 0..MaxShown, r.body \in Room!Bodies,
           doing' = [doing EXCEPT ![c] = r], UNCHANGED <<made, patched>>,
           \A d \in Callers : doing[d].at = "edits" /\ d # c => latch' = latch,
           \A k \in DOMAIN hung' : hung'[k].id <= made,
           \A i : (\A k \in DOMAIN hung : hung[k].id # i) => (\A k \in DOMAIN hung' : hung'[k].id # i)
    PROVE  CallsTyped' /\ NewPanels' /\ EditsAreCurrent'
<1>1. DOMAIN doing' = Callers /\ doing'[c] = r /\ \A d \in Callers : d # c => doing'[d] = doing[d]
  BY DEF WallInv, CallsTyped
<1>2. CallsTyped'
  BY <1>1 DEF WallInv, CallsTyped, Errands
<1>3. ASSUME NEW d \in Callers, doing'[d].at = "shows"
      PROVE  doing'[d] = doing[d] /\ d # c
  BY <1>1, <1>3
<1>4. NewPanels'
  <2>1. ASSUME NEW d \in Callers, doing'[d].at = "shows"
        PROVE  /\ doing'[d].id \in 1..made' /\ patched'[doing'[d].id] = {}
               /\ \A k \in DOMAIN hung' : hung'[k].id # doing'[d].id
               /\ \A e \in Callers : e # d /\ doing'[e].at = "shows" => doing'[e].id # doing'[d].id
    <3>1. doing'[d] = doing[d] /\ doing[d].at = "shows"
      BY <1>3, <2>1
    <3>2. /\ doing[d].id \in 1..made /\ patched[doing[d].id] = {}
          /\ \A k \in DOMAIN hung : hung[k].id # doing[d].id
          /\ \A e \in Callers : e # d /\ doing[e].at = "shows" => doing[e].id # doing[d].id
      BY <3>1 DEF WallInv, NewPanels
    <3> QED
      BY <1>3, <3>1, <3>2
  <2>2. \A i \in Room!Ids : i > made' => patched'[i] = {}
    BY DEF WallInv, NewPanels
  <2> QED
    BY <2>1, <2>2 DEF NewPanels
<1>5. EditsAreCurrent'
  <2>1. ASSUME NEW d \in Callers, doing'[d].at = "edits" PROVE doing'[d] = doing[d] /\ d # c
    BY <1>1, <2>1
  <2>2. ASSUME NEW d \in Callers, doing'[d].at = "edits"
        PROVE  /\ latch' = d /\ doing'[d].id \in 1..made'
               /\ \A t \in patched'[doing'[d].id] : doing'[d].body[t] = 0
    <3>1. doing'[d] = doing[d] /\ d # c /\ doing[d].at = "edits"
      BY <2>1, <2>2
    <3> QED
      BY <3>1 DEF WallInv, EditsAreCurrent
  <2> QED
    BY <2>2 DEF EditsAreCurrent
<1> QED
  BY <1>2, <1>4, <1>5

LEMMA RestIs ==
    /\ Room!Rest.at = "idle" /\ Room!Rest.id = 0 /\ Room!Rest.body \in Room!Bodies
    /\ DOMAIN Room!Rest = {"at", "id", "body", "owes"}
BY DEF Room!Rest, Room!None, Room!Bodies

\* While somebody edits nobody else has the lock.
LEMMA OneEditor ==
    ASSUME WallAssumption, WallInv, NEW c \in Callers, NEW d \in Callers, c # d, doing[c].at = "edits"
    PROVE  doing[d].at # "edits" /\ latch # 0
BY DEF WallAssumption, WallInv, EditsAreCurrent

LEMMA RowsAre ==
    ASSUME WallAssumption, WallInv, NEW k \in DOMAIN hung
    PROVE  hung[k] \in Rows /\ hung[k].id \in 1..MaxShown /\ hung[k].id \in Nat /\ hung[k].id <= made
<1>1. hung \in Seq(Rows)
  BY DEF WallInv, WallTyped
<1>2. hung[k] \in Rows
  BY <1>1
<1>3. hung[k].id \in 1..MaxShown /\ MaxShown \in Nat
  BY <1>2 DEF Rows, Room!Ids, WallAssumption
<1>4. hung[k].id <= made
  BY DEF WallInv, NewPanels
<1> QED
  BY <1>2, <1>3, <1>4

LEMMA BeginShowKeeps ==
    ASSUME WallAssumption, WallInv, NEW c \in Callers, Room!BeginShow(c)
    PROVE  WallInv'
<1>1. /\ made < MaxShown /\ made' = made + 1 /\ UNCHANGED <<hung, patched, latch>>
      /\ doing' = [doing EXCEPT ![c] = [Room!Rest EXCEPT !.at = "shows", !.id = made']]
  BY DEF Room!BeginShow
<1>2. made \in Nat /\ MaxShown \in Nat /\ made' \in 1..MaxShown /\ made' \in Room!Ids
  BY <1>1 DEF WallAssumption, WallInv, WallTyped, Room!Ids
<1> DEFINE r == [Room!Rest EXCEPT !.at = "shows", !.id = made']
<1>3. /\ r.at = "shows" /\ r.id = made' /\ r.body \in Room!Bodies
      /\ DOMAIN r = {"at", "id", "body", "owes"}
  BY RestIs
<1> HIDE DEF r
<1>4. DOMAIN doing' = Callers /\ doing'[c] = r /\ \A d \in Callers : d # c => doing'[d] = doing[d]
  BY <1>1 DEF WallInv, CallsTyped, r
<1>5. WallTyped'
  BY <1>1, <1>2 DEF WallInv, WallTyped
<1>6. CallsTyped'
  <2>1. r.at \in Errands /\ r.id \in 0..MaxShown /\ {"at", "id", "body", "owes"} \subseteq DOMAIN r
    BY <1>2, <1>3 DEF Errands
  <2> QED
    BY <1>3, <1>4, <2>1 DEF WallInv, CallsTyped
<1>7. NewPanels'
  <2>1. \A k \in DOMAIN hung' : hung'[k].id <= made'
    <3>1. \A k \in DOMAIN hung : hung[k].id \in Nat /\ hung[k].id <= made
      BY RowsAre
    <3> QED
      BY <1>1, <1>2, <3>1
  <2>2. \A i \in Room!Ids : i > made' => patched'[i] = {}
    BY <1>1, <1>2 DEF WallInv, NewPanels, Room!Ids
  <2>3. patched[made'] = {} /\ \A k \in DOMAIN hung : hung[k].id # made'
    <3>1. made' > made
      BY <1>1, <1>2
    <3>2. \A k \in DOMAIN hung : hung[k].id \in Nat /\ hung[k].id <= made
      BY RowsAre
    <3> QED
      BY <1>2, <3>1, <3>2 DEF WallInv, NewPanels
  <2>4. \A d \in Callers : d # c /\ doing'[d].at = "shows" =>
            /\ doing'[d].id \in 1..made' /\ patched[doing'[d].id] = {} /\ doing'[d].id # made'
            /\ \A k \in DOMAIN hung : hung[k].id # doing'[d].id
            /\ \A e \in Callers : e # d /\ e # c /\ doing'[e].at = "shows" => doing'[e].id # doing'[d].id
    <3>1. \A d \in Callers : doing[d].at = "shows" =>
            /\ doing[d].id \in 1..made /\ patched[doing[d].id] = {}
            /\ \A k \in DOMAIN hung : hung[k].id # doing[d].id
            /\ \A e \in Callers : e # d /\ doing[e].at = "shows" => doing[e].id # doing[d].id
      BY DEF WallInv, NewPanels
    <3>2. \A i \in 1..made : i \in 1..made' /\ i # made'
      BY <1>1, <1>2
    <3> QED
      BY <1>4, <3>1, <3>2
  <2>5. made' \in 1..made'
    BY <1>2
  <2> QED
    BY <1>1, <1>3, <1>4, <2>1, <2>2, <2>3, <2>4, <2>5 DEF NewPanels
<1>8. EditsAreCurrent'
  <2>1. \A d \in Callers : doing'[d].at = "edits" => d # c /\ doing'[d] = doing[d]
    BY <1>3, <1>4
  <2>2. \A i \in 1..made : i \in 1..made'
    BY <1>1, <1>2
  <2> QED
    BY <1>1, <2>1, <2>2 DEF WallInv, EditsAreCurrent
<1>9. Room!NoEditIsLost'
  BY <1>1 DEF WallInv, Room!NoEditIsLost
<1> QED
  BY <1>5, <1>6, <1>7, <1>8, <1>9 DEF WallInv

LEMMA BeginEditKeeps ==
    ASSUME WallAssumption, WallInv, NEW c \in Callers, Room!BeginEdit(c)
    PROVE  WallInv'
<1>1. /\ doing[c].at = "idle" /\ latch = 0 /\ latch' = c /\ UNCHANGED <<hung, made, patched>>
  BY DEF Room!BeginEdit, Room!MayChange, Room!Unlocked, Room!None
<1>2. PICK k \in DOMAIN hung :
          doing' = [doing EXCEPT ![c] = [Room!Rest EXCEPT !.at = "edits", !.id = hung[k].id,
                                                          !.body = hung[k].body]]
  BY DEF Room!BeginEdit
<1> DEFINE r == [Room!Rest EXCEPT !.at = "edits", !.id = hung[k].id, !.body = hung[k].body]
<1>3. /\ r.at = "edits" /\ r.id = hung[k].id /\ r.body = hung[k].body
      /\ DOMAIN r = {"at", "id", "body", "owes"}
  BY RestIs
<1> HIDE DEF r
<1>4. DOMAIN doing' = Callers /\ doing'[c] = r /\ \A d \in Callers : d # c => doing'[d] = doing[d]
  BY <1>2 DEF WallInv, CallsTyped, r
<1>5. hung[k] \in Rows /\ hung[k].id \in 1..MaxShown /\ hung[k].id <= made /\ made \in Nat
  BY RowsAre DEF WallInv, WallTyped, WallAssumption
<1>6. WallTyped' /\ Room!NoEditIsLost'
  BY <1>1 DEF WallInv, WallTyped, Room!NoEditIsLost
<1>7. CallsTyped'
  <2>1. r.at \in Errands /\ r.id \in 0..MaxShown /\ {"at", "id", "body", "owes"} \subseteq DOMAIN r
        /\ r.body \in Room!Bodies
    BY <1>3, <1>5 DEF Errands, Rows, WallAssumption
  <2> QED
    BY <1>4, <2>1 DEF WallInv, CallsTyped
<1>8. NewPanels'
  <2>1. \A d \in Callers : doing'[d].at = "shows" => d # c /\ doing'[d] = doing[d]
    BY <1>3, <1>4
  <2> QED
    BY <1>1, <2>1 DEF WallInv, NewPanels
<1>9. EditsAreCurrent'
  <2>1. \A d \in Callers : d # c => doing'[d].at # "edits"
    BY <1>1, <1>4 DEF WallAssumption, WallInv, EditsAreCurrent
  <2>2. \A t \in patched[hung[k].id] : hung[k].body[t] = 0
    BY DEF WallInv, Room!NoEditIsLost
  <2>3. hung[k].id \in 1..made
    BY <1>5
  <2> QED
    BY <1>1, <1>3, <1>4, <2>1, <2>2, <2>3 DEF EditsAreCurrent
<1> QED
  BY <1>6, <1>7, <1>8, <1>9 DEF WallInv


\* A patch puts text in place of what it matched once, so that text is gone unless it is put back.
LEMMA PatchedIs ==
    ASSUME NEW b \in Room!Bodies, NEW t \in Texts, NEW new \in Room!Bodies
    PROVE  /\ Room!Patched(b, t, new) \in Room!Bodies
           /\ \A u \in Texts : new[u] = 0 /\ (u = t \/ b[u] = 0) => Room!Patched(b, t, new)[u] = 0
BY DEF Room!Patched, Room!Bodies

LEMMA StoreKeeps ==
    ASSUME WallAssumption, WallInv, NEW c \in Callers, doing[c].at = "edits",
           Room!On(hung, doing[c].id), latch' = 0, UNCHANGED <<made>>,
           NEW b \in Room!Bodies, NEW gone \in SUBSET Texts, \A t \in gone : b[t] = 0,
           Room!Store(c, b, gone)
    PROVE  WallInv'
<1> DEFINE id == doing[c].id
           new == [id |-> id, rev |-> Room!Row(id).rev + 1, body |-> b]
<1>1. hung' = Room!With(hung, new) /\ patched' = [patched EXCEPT ![id] = gone]
  BY DEF Room!Store
<1>2. PICK r : /\ doing' = [doing EXCEPT ![c] = r] /\ r.at = "tells" /\ r.id = 0
               /\ r.body \in Room!Bodies /\ DOMAIN r = {"at", "id", "body", "owes"}
  <2>1. PICK events : doing' = [doing EXCEPT ![c] = [Room!Rest EXCEPT !.at = "tells", !.owes = events]]
    BY DEF Room!Store, Room!Owes
  <2> DEFINE q == [Room!Rest EXCEPT !.at = "tells", !.owes = events]
  <2>2. q.at = "tells" /\ q.id = 0 /\ q.body \in Room!Bodies /\ DOMAIN q = {"at", "id", "body", "owes"}
    BY RestIs
  <2> QED
    BY <2>1, <2>2
<1>3. PICK n \in DOMAIN hung : hung[n].id = id
  BY DEF Room!On
<1>4. id \in 1..MaxShown /\ id \in 1..made /\ made \in Nat /\ id \in Room!Ids
  BY <1>3, RowsAre DEF WallInv, EditsAreCurrent, WallTyped, Room!Ids
<1>5. Room!Row(id) \in Rows
  <2>1. Room!Row(id) = hung[CHOOSE k \in DOMAIN hung : hung[k].id = id]
    BY DEF Room!Row
  <2>2. (CHOOSE k \in DOMAIN hung : hung[k].id = id) \in DOMAIN hung
    BY <1>3
  <2> QED
    BY <2>1, <2>2, RowsAre
<1>6. new \in Rows
  <2>1. Room!Row(id).rev + 1 \in Nat
    BY <1>5 DEF Rows
  <2> QED
    BY <1>4, <2>1 DEF Rows
<1>7. /\ hung \in Seq(Rows) /\ hung' \in Seq(Rows) /\ DOMAIN hung' = DOMAIN hung
      /\ \A k \in DOMAIN hung : hung'[k] = IF hung[k].id = id THEN new ELSE hung[k]
  <2>1. hung \in Seq(Rows)
    BY DEF WallInv, WallTyped
  <2>2. hung' = [k \in DOMAIN hung |-> IF hung[k].id = id THEN new ELSE hung[k]]
    BY <1>1 DEF Room!With
  <2> HIDE DEF new
  <2>3. hung' \in Seq(Rows)
    BY <1>6, <2>1, <2>2
  <2> QED
    BY <2>1, <2>2, <2>3
<1>8. \A k \in DOMAIN hung : hung'[k].id = hung[k].id
  BY <1>7
<1>9. DOMAIN doing' = Callers /\ doing'[c] = r /\ \A d \in Callers : d # c => doing'[d] = doing[d]
  BY <1>2 DEF WallInv, CallsTyped
<1>10. DOMAIN patched = Room!Ids /\ \A i \in Room!Ids : patched'[i] = IF i = id THEN gone ELSE patched[i]
  BY <1>1 DEF WallInv, WallTyped
<1>11. WallTyped'
  BY <1>1, <1>7 DEF WallInv, WallTyped
<1>12. CallsTyped'
  <2>1. r.at \in Errands /\ r.id \in 0..MaxShown
    BY <1>2 DEF Errands, WallAssumption
  <2> QED
    BY <1>2, <1>9, <2>1 DEF WallInv, CallsTyped
<1> HIDE DEF new
<1>13. NewPanels'
  <2>1. \A k \in DOMAIN hung' : hung'[k].id <= made'
    BY <1>7, <1>8, RowsAre
  <2>2. ASSUME NEW i \in Room!Ids, i > made' PROVE patched'[i] = {}
    <3>1. i # id
      BY <1>4, <2>2
    <3> QED
      BY <1>10, <2>2, <3>1 DEF WallInv, NewPanels
  <2>3. ASSUME NEW d \in Callers, doing'[d].at = "shows"
        PROVE  /\ doing'[d].id \in 1..made' /\ patched'[doing'[d].id] = {}
               /\ \A k \in DOMAIN hung' : hung'[k].id # doing'[d].id
               /\ \A e \in Callers : e # d /\ doing'[e].at = "shows" => doing'[e].id # doing'[d].id
    <3>1. d # c /\ doing'[d] = doing[d] /\ doing[d].at = "shows"
      BY <1>2, <1>9, <2>3
    <3>2. /\ doing[d].id \in 1..made /\ patched[doing[d].id] = {}
          /\ \A k \in DOMAIN hung : hung[k].id # doing[d].id
          /\ \A e \in Callers : e # d /\ doing[e].at = "shows" => doing[e].id # doing[d].id
      BY <3>1 DEF WallInv, NewPanels
    <3>3. doing[d].id # id /\ doing[d].id \in Room!Ids
      BY <1>3, <1>4, <3>2 DEF WallInv, WallTyped, Room!Ids, WallAssumption
    <3>4. \A e \in Callers : doing'[e].at = "shows" => doing'[e] = doing[e]
      BY <1>2, <1>9
    <3> QED
      BY <1>7, <1>8, <1>10, <3>1, <3>2, <3>3, <3>4
  <2> QED
    BY <2>1, <2>2, <2>3 DEF NewPanels
<1>14. EditsAreCurrent'
  <2>1. \A d \in Callers : doing'[d].at # "edits"
    BY <1>2, <1>9, OneEditor
  <2> QED
    BY <2>1 DEF EditsAreCurrent
<1>15. Room!NoEditIsLost'
  <2>1. ASSUME NEW k \in DOMAIN hung', NEW t \in patched'[hung'[k].id] PROVE hung'[k].body[t] = 0
    <3>1. hung[k].id \in Room!Ids /\ hung'[k].id = hung[k].id
      BY <1>7, <1>8, RowsAre DEF Room!Ids
    <3>2. CASE hung[k].id = id
      <4>1. t \in gone /\ hung'[k].body = b
        BY <1>7, <1>10, <2>1, <3>1, <3>2 DEF new
      <4> QED
        BY <4>1
    <3>3. CASE hung[k].id # id
      BY <1>7, <1>10, <2>1, <3>1, <3>3 DEF WallInv, Room!NoEditIsLost
    <3> QED
      BY <3>2, <3>3
  <2> QED
    BY <2>1 DEF Room!NoEditIsLost
<1> QED
  BY <1>11, <1>12, <1>13, <1>14, <1>15 DEF WallInv

LEMMA EndEditKeeps ==
    ASSUME WallAssumption, WallInv, NEW c \in Callers, Room!EndEdit(c)
    PROVE  WallInv'
<1>1. doing[c].at = "edits" /\ Room!On(hung, doing[c].id) /\ latch' = 0 /\ UNCHANGED <<made>>
  BY DEF Room!EndEdit, Room!None
<1>2. /\ doing[c].body \in Room!Bodies /\ doing[c].id \in Room!Ids
      /\ \A t \in patched[doing[c].id] : doing[c].body[t] = 0
      /\ patched[doing[c].id] \in SUBSET Texts
  <2>1. doing[c].id \in Room!Ids
    BY <1>1 DEF WallInv, EditsAreCurrent, CallsTyped, Room!Ids, WallTyped, WallAssumption
  <2>2. patched \in [Room!Ids -> SUBSET Texts]
    BY DEF WallInv, WallTyped
  <2> QED
    BY <1>1, <2>1, <2>2 DEF WallInv, EditsAreCurrent, CallsTyped
<1>3. ASSUME NEW t \in Texts, NEW new \in Room!Bodies,
             Room!Store(c, Room!Patched(doing[c].body, t, new),
                        {u \in patched[doing[c].id] \union {t} : new[u] = 0})
      PROVE  WallInv'
  <2> DEFINE b == Room!Patched(doing[c].body, t, new)
             gone == {u \in patched[doing[c].id] \union {t} : new[u] = 0}
  <2>1. b \in Room!Bodies /\ gone \in SUBSET Texts
    BY <1>2, PatchedIs
  <2>2. \A u \in gone : b[u] = 0
    <3>1. TAKE u \in gone
    <3>2. u \in Texts /\ new[u] = 0 /\ (u = t \/ doing[c].body[u] = 0)
      BY <1>2
    <3> QED
      BY <1>2, <3>2, PatchedIs
  <2>3. Room!Store(c, b, gone)
    BY <1>3
  <2> HIDE DEF b, gone
  <2> QED
    BY <1>1, <2>1, <2>2, <2>3, StoreKeeps
<1>4. ASSUME NEW b \in Room!Bodies, Room!Store(c, b, {}) PROVE WallInv'
  BY <1>1, <1>4, StoreKeeps
<1>5. CASE Room!Store(c, doing[c].body, patched[doing[c].id])
  BY <1>1, <1>2, <1>5, StoreKeeps
<1> QED
  BY <1>3, <1>4, <1>5 DEF Room!EndEdit


\* The first rows of a list are rows of it.
LEMMA FirstIs ==
    ASSUME NEW S, NEW rows \in Seq(S), NEW n \in Nat
    PROVE  /\ Room!First(rows, n) \in Seq(S)
           /\ \A k \in DOMAIN Room!First(rows, n) : \E m \in DOMAIN rows : Room!First(rows, n)[k] = rows[m]
<1> DEFINE l == IF Len(rows) < n THEN Len(rows) ELSE n
<1>1. l \in Nat /\ l <= Len(rows)
  OBVIOUS
<1>2. Room!First(rows, n) = SubSeq(rows, 1, l)
  BY DEF Room!First
<1> HIDE DEF l
<1>3. SubSeq(rows, 1, l) \in Seq(S) /\ Len(SubSeq(rows, 1, l)) = l
      /\ \A k \in 1..l : SubSeq(rows, 1, l)[k] = rows[k]
  BY <1>1
<1> QED
  BY <1>1, <1>2, <1>3

\* A row of two lists put together is a row of the one or of the other.
LEMMA Chained ==
    ASSUME NEW S, NEW s \in Seq(S), NEW t \in Seq(S)
    PROVE  /\ s \o t \in Seq(S) /\ Len(s \o t) = Len(s) + Len(t)
           /\ \A k \in 1..Len(s \o t) :
                  \/ (k \in 1..Len(s) /\ (s \o t)[k] = s[k])
                  \/ (k - Len(s) \in 1..Len(t) /\ (s \o t)[k] = t[k - Len(s)])
OBVIOUS

LEMMA ShowPanelKeeps ==
    ASSUME WallAssumption, WallInv, NEW c \in Callers, Room!ShowPanel(c)
    PROVE  WallInv'
<1> DEFINE id == doing[c].id
<1>1. doing[c].at = "shows" /\ UNCHANGED <<made, latch, patched>>
  BY DEF Room!ShowPanel
<1>2. /\ id \in 1..made /\ patched[id] = {} /\ \A k \in DOMAIN hung : hung[k].id # id
      /\ \A d \in Callers : d # c /\ doing[d].at = "shows" => doing[d].id # id
      /\ made \in 0..MaxShown /\ MaxShown \in Nat /\ MaxPanels \in Nat
  BY <1>1 DEF WallInv, NewPanels, WallTyped, WallAssumption
<1>3. hung \in Seq(Rows)
  BY DEF WallInv, WallTyped
<1>4. PICK b, rows, events :
          /\ b \in Room!Bodies
          /\ rows = Room!Among(hung, {i \in Room!Ids : i > id})
                        \o <<[id |-> id, rev |-> 1, body |-> b]>>
                        \o Room!Among(hung, {i \in Room!Ids : i < id})
          /\ hung' = Room!First(rows, MaxPanels)
          /\ doing' = [doing EXCEPT ![c] = [Room!Rest EXCEPT !.at = "tells", !.owes = events]]
  BY DEF Room!ShowPanel, Room!Kept, Room!Owes
<1> DEFINE new == [id |-> id, rev |-> 1, body |-> b]
           newer == Room!Among(hung, {i \in Room!Ids : i > id})
           older == Room!Among(hung, {i \in Room!Ids : i < id})
           q == [Room!Rest EXCEPT !.at = "tells", !.owes = events]
<1>5. new \in Rows /\ new.id = id
  BY <1>2, <1>4 DEF Rows, Room!Ids
<1>6. /\ newer \in Seq(Rows) /\ \A k \in DOMAIN newer : \E n \in DOMAIN hung : newer[k] = hung[n]
      /\ older \in Seq(Rows) /\ \A k \in DOMAIN older : \E n \in DOMAIN hung : older[k] = hung[n]
  <2>1. \A ids : /\ Room!Among(hung, ids) \in Seq(Rows)
                 /\ \A k \in DOMAIN Room!Among(hung, ids) :
                        \E n \in DOMAIN hung : Room!Among(hung, ids)[k] = hung[n]
    <3> SUFFICES ASSUME NEW ids
                 PROVE  /\ Room!Among(hung, ids) \in Seq(Rows)
                        /\ \A k \in DOMAIN Room!Among(hung, ids) :
                               \E n \in DOMAIN hung : Room!Among(hung, ids)[k] = hung[n]
      OBVIOUS
    <3> QED
      BY <1>3, FewerRows
  <2>2. /\ newer \in Seq(Rows) /\ \A k \in DOMAIN newer : \E n \in DOMAIN hung : newer[k] = hung[n]
    BY <2>1, Zenon
  <2>3. /\ older \in Seq(Rows) /\ \A k \in DOMAIN older : \E n \in DOMAIN hung : older[k] = hung[n]
    BY <2>1, Zenon
  <2> HIDE DEF newer, older
  <2> QED
    BY <2>2, <2>3
<1>7. q.at = "tells" /\ q.id = 0 /\ q.body \in Room!Bodies /\ DOMAIN q = {"at", "id", "body", "owes"}
  BY RestIs
<1>8. DOMAIN doing' = Callers /\ doing'[c] = q /\ \A d \in Callers : d # c => doing'[d] = doing[d]
  BY <1>4 DEF WallInv, CallsTyped
<1> HIDE DEF new, newer, older, q
<1>9. rows \in Seq(Rows) /\ \A k \in DOMAIN rows : rows[k] = new \/ \E n \in DOMAIN hung : rows[k] = hung[n]
  <2>1. rows = newer \o <<new>> \o older
    BY <1>4 DEF new, newer, older
  <2>2. <<new>> \in Seq(Rows) /\ Len(<<new>>) = 1 /\ <<new>>[1] = new
    BY <1>5
  <2> DEFINE front == newer \o <<new>>
  <2>3. front \in Seq(Rows) /\ Len(front) = Len(newer) + 1
        /\ \A k \in 1..Len(front) : front[k] = new \/ (k \in 1..Len(newer) /\ front[k] = newer[k])
    <3>1. /\ front \in Seq(Rows) /\ Len(front) = Len(newer) + 1
          /\ \A k \in 1..Len(front) :
                 \/ (k \in 1..Len(newer) /\ front[k] = newer[k])
                 \/ (k - Len(newer) \in 1..1 /\ front[k] = <<new>>[k - Len(newer)])
      BY <1>6, <2>2, Chained
    <3>2. \A n \in 1..1 : <<new>>[n] = new
      OBVIOUS
    <3> HIDE DEF front
    <3> QED
      BY <3>1, <3>2
  <2>4. rows = front \o older
    BY <2>1
  <2> HIDE DEF front
  <2>5. rows \in Seq(Rows) /\ Len(rows) = Len(front) + Len(older)
        /\ \A k \in 1..Len(rows) :
               \/ (k \in 1..Len(front) /\ rows[k] = front[k])
               \/ (k - Len(front) \in 1..Len(older) /\ rows[k] = older[k - Len(front)])
    <3>1. front \in Seq(Rows) /\ older \in Seq(Rows)
      BY <1>6, <2>3
    <3>2. /\ front \o older \in Seq(Rows) /\ Len(front \o older) = Len(front) + Len(older)
          /\ \A k \in 1..Len(front \o older) :
                 \/ (k \in 1..Len(front) /\ (front \o older)[k] = front[k])
                 \/ (k - Len(front) \in 1..Len(older) /\ (front \o older)[k] = older[k - Len(front)])
      BY <3>1, Chained
    <3> QED
      BY <2>4, <3>2, Zenon
  <2>6. ASSUME NEW k \in DOMAIN rows PROVE rows[k] = new \/ \E n \in DOMAIN hung : rows[k] = hung[n]
    <3>1. k \in 1..Len(rows)
      BY <2>5
    <3>2. CASE k \in 1..Len(front) /\ rows[k] = front[k]
      <4>1. front[k] = new \/ (k \in DOMAIN newer /\ front[k] = newer[k])
        BY <1>6, <2>3, <3>2
      <4> QED
        BY <1>6, <3>2, <4>1
    <3>3. CASE k - Len(front) \in 1..Len(older) /\ rows[k] = older[k - Len(front)]
      <4>1. k - Len(front) \in DOMAIN older
        BY <1>6, <3>3
      <4> QED
        BY <1>6, <3>3, <4>1
    <3> QED
      BY <2>5, <3>1, <3>2, <3>3
  <2> QED
    BY <2>5, <2>6
<1>10. /\ hung' \in Seq(Rows)
       /\ \A k \in DOMAIN hung' : hung'[k] = new \/ \E n \in DOMAIN hung : hung'[k] = hung[n]
  <2>1. hung' = Room!First(rows, MaxPanels) /\ MaxPanels \in Nat
    BY <1>2, <1>4
  <2>2. /\ Room!First(rows, MaxPanels) \in Seq(Rows)
        /\ \A k \in DOMAIN Room!First(rows, MaxPanels) :
               \E m \in DOMAIN rows : Room!First(rows, MaxPanels)[k] = rows[m]
    BY <1>9, <2>1, FirstIs
  <2> QED
    BY <1>9, <2>1, <2>2
<1>11. WallTyped'
  BY <1>1, <1>10 DEF WallInv, WallTyped
<1>12. CallsTyped'
  BY <1>2, <1>7, <1>8 DEF WallInv, CallsTyped, Errands
<1>13. NewPanels'
  <2>1. \A k \in DOMAIN hung' : hung'[k].id <= made'
    <3>1. id <= made
      BY <1>2
    <3> QED
      BY <1>1, <1>5, <1>10, <3>1, RowsAre
  <2>2. ASSUME NEW d \in Callers, doing'[d].at = "shows"
        PROVE  /\ doing'[d].id \in 1..made' /\ patched'[doing'[d].id] = {}
               /\ \A k \in DOMAIN hung' : hung'[k].id # doing'[d].id
               /\ \A e \in Callers : e # d /\ doing'[e].at = "shows" => doing'[e].id # doing'[d].id
    <3>1. d # c /\ doing'[d] = doing[d] /\ doing[d].at = "shows"
      BY <1>7, <1>8, <2>2
    <3>2. /\ doing[d].id \in 1..made /\ patched[doing[d].id] = {}
          /\ \A k \in DOMAIN hung : hung[k].id # doing[d].id
          /\ \A e \in Callers : e # d /\ doing[e].at = "shows" => doing[e].id # doing[d].id
      BY <3>1 DEF WallInv, NewPanels
    <3>3. \A e \in Callers : doing'[e].at = "shows" => doing'[e] = doing[e]
      BY <1>7, <1>8
    <3>4. id # doing[d].id
      BY <1>2, <3>1
    <3> QED
      BY <1>1, <1>5, <1>10, <3>1, <3>2, <3>3, <3>4
  <2>3. \A i \in Room!Ids : i > made' => patched'[i] = {}
    BY <1>1 DEF WallInv, NewPanels
  <2> QED
    BY <2>1, <2>2, <2>3 DEF NewPanels
<1>14. EditsAreCurrent'
  <2>1. \A d \in Callers : doing'[d].at = "edits" => doing'[d] = doing[d]
    BY <1>7, <1>8
  <2> QED
    BY <1>1, <2>1 DEF WallInv, EditsAreCurrent
<1>15. Room!NoEditIsLost'
  BY <1>1, <1>2, <1>5, <1>10 DEF WallInv, Room!NoEditIsLost
<1> QED
  BY <1>11, <1>12, <1>13, <1>14, <1>15 DEF WallInv

\* The other calls: a caller ends up telling, or at rest, and the rows left are old ones.
LEMMA CallKeeps ==
    ASSUME WallAssumption, WallInv, NEW c \in Callers,
           Room!Refuse(c) \/ Room!ClosePanel(c) \/ Room!ClearPanels(c) \/ Room!PresentPanel(c)
    PROVE  WallInv'
<1>1. UNCHANGED <<made, patched>>
  BY DEF Room!Refuse, Room!ClosePanel, Room!ClearPanels, Room!PresentPanel
<1>2. PICK r : /\ doing' = [doing EXCEPT ![c] = r] /\ r.at \in {"idle", "tells"} /\ r.id = 0
               /\ r.body \in Room!Bodies /\ DOMAIN r = {"at", "id", "body", "owes"}
  <2>1. ASSUME NEW events
        PROVE LET q == [Room!Rest EXCEPT !.at = "tells", !.owes = events]
              IN  q.at = "tells" /\ q.id = 0 /\ q.body \in Room!Bodies
                  /\ DOMAIN q = {"at", "id", "body", "owes"}
    BY RestIs
  <2>2. \/ doing' = [doing EXCEPT ![c] = Room!Rest]
        \/ \E events : doing' = [doing EXCEPT ![c] = [Room!Rest EXCEPT !.at = "tells", !.owes = events]]
    BY DEF Room!Refuse, Room!ClosePanel, Room!ClearPanels, Room!PresentPanel, Room!Owes
  <2> QED
    BY <2>1, <2>2, RestIs
<1>3. hung \in Seq(Rows)
  BY DEF WallInv, WallTyped
<1>4. /\ hung' \in Seq(Rows)
      /\ \A k \in DOMAIN hung' : \E n \in DOMAIN hung : hung'[k] = hung[n]
  <2>1. CASE hung' = hung
    BY <1>3, <2>1
  <2>2. CASE hung' = << >>
    BY <2>2
  <2>3. ASSUME NEW i, hung' = Room!Without(hung, i)
        PROVE  hung' \in Seq(Rows) /\ \A k \in DOMAIN hung' : \E n \in DOMAIN hung : hung'[k] = hung[n]
    <3>1. hung' = Room!Among(hung, Room!Ids \ {i})
      BY <2>3 DEF Room!Without
    <3>2. PICK ids : hung' = Room!Among(hung, ids)
      BY <3>1
    <3>3. /\ Room!Among(hung, ids) \in Seq(Rows)
          /\ \A k \in DOMAIN Room!Among(hung, ids) :
                 \E n \in DOMAIN hung : Room!Among(hung, ids)[k] = hung[n]
      BY <1>3, FewerRows
    <3> QED
      BY <3>2, <3>3, Zenon
  <2> QED
    BY <2>1, <2>2, <2>3 DEF Room!Refuse, Room!ClosePanel, Room!ClearPanels, Room!PresentPanel
<1>5. \A d \in Callers : doing[d].at = "edits" /\ d # c => latch' = latch
  <2>1. CASE Room!Refuse(c)
    BY <2>1, OneEditor DEF Room!Refuse
  <2>2. CASE ~Room!Refuse(c)
    BY <2>2 DEF Room!ClosePanel, Room!ClearPanels, Room!PresentPanel
  <2> QED
    BY <2>1, <2>2
<1>6. r.id \in 0..MaxShown
  BY <1>2 DEF WallAssumption
<1>7. CallsTyped' /\ NewPanels' /\ EditsAreCurrent'
  BY <1>1, <1>2, <1>4, <1>5, <1>6, OldRows, CallerLeaves
<1> QED
  BY <1>1, <1>4, <1>7, OldRows DEF WallInv

LEMMA TellKeeps ==
    ASSUME WallAssumption, WallInv, NEW c \in Callers, Room!Tell(c)
    PROVE  WallInv'
<1>1. UNCHANGED <<hung, made, latch, patched>> /\ doing[c].at = "tells"
  BY DEF Room!Tell
<1>2. PICK r : /\ doing' = [doing EXCEPT ![c] = r] /\ r.at \in {"idle", "tells"} /\ r.id \in 0..MaxShown
               /\ r.body \in Room!Bodies /\ {"at", "id", "body", "owes"} \subseteq DOMAIN r
  <2>1. \/ doing' = [doing EXCEPT ![c] = Room!Rest]
        \/ doing' = [doing EXCEPT ![c] = [doing[c] EXCEPT !.owes = Tail(doing[c].owes)]]
    BY DEF Room!Tell
  <2>2. /\ {"at", "id", "body", "owes"} \subseteq DOMAIN doing[c] /\ doing[c].id \in 0..MaxShown
        /\ doing[c].body \in Room!Bodies
    BY DEF WallInv, CallsTyped
  <2> DEFINE q == [doing[c] EXCEPT !.owes = Tail(doing[c].owes)]
  <2>3. /\ q.at = "tells" /\ q.id \in 0..MaxShown /\ q.body \in Room!Bodies
        /\ {"at", "id", "body", "owes"} \subseteq DOMAIN q
    <3>1. DOMAIN q = DOMAIN doing[c] /\ q.at = doing[c].at /\ q.id = doing[c].id
          /\ q.body = doing[c].body
      BY <2>2
    <3> QED
      BY <1>1, <2>2, <3>1
  <2>4. 0 \in 0..MaxShown
    BY DEF WallAssumption
  <2> HIDE DEF q
  <2>5. doing' = [doing EXCEPT ![c] = Room!Rest] \/ doing' = [doing EXCEPT ![c] = q]
    BY <2>1 DEF q
  <2>6. Room!Rest.at \in {"idle", "tells"} /\ Room!Rest.id \in 0..MaxShown
        /\ Room!Rest.body \in Room!Bodies
        /\ {"at", "id", "body", "owes"} \subseteq DOMAIN Room!Rest
    BY <2>4, RestIs
  <2> QED
    BY <2>3, <2>5, <2>6
<1>3. hung' \in Seq(Rows) /\ \A k \in DOMAIN hung' : \E n \in DOMAIN hung : hung'[k] = hung[n]
  BY <1>1 DEF WallInv, WallTyped
<1>4. CallsTyped' /\ NewPanels' /\ EditsAreCurrent'
  BY <1>1, <1>2, <1>3, OldRows, CallerLeaves
<1> QED
  BY <1>1, <1>3, <1>4, OldRows DEF WallInv

LEMMA WallStep ==
    ASSUME WallAssumption, WallInv, [Room!Next]_Room!vars
    PROVE  WallInv'
<1>1. ASSUME UNCHANGED Room!server PROVE WallInv'
  <2>1. UNCHANGED <<hung, made, latch, doing, patched>>
    BY <1>1 DEF Room!server
  <2> QED
    BY <2>1 DEF WallInv, WallTyped, CallsTyped, NewPanels, EditsAreCurrent, Room!NoEditIsLost
<1>2. CASE Room!Hear \/ Room!Enter \/ Room!ReplaceAll \/ Room!FetchFails \/ Room!Wander
           \/ Room!Reload \/ Room!Look \/ UNCHANGED Room!vars
  BY <1>1, <1>2 DEF Room!Hear, Room!Enter, Room!ReplaceAll, Room!FetchFails, Room!Wander,
     Room!Reload, Room!Look, Room!vars
<1> QED
  BY <1>2, BeginShowKeeps, ShowPanelKeeps, BeginEditKeeps, EndEditKeeps, CallKeeps, TellKeeps
     DEF Room!Next

\* No edit of a panel is lost to another: what a patch took away is gone until the panel is
\* rewritten (update_panel under _lock, rau/face/panels.py).
THEOREM NoEditOfTheWallIsLost ==
    ASSUME WallAssumption PROVE Room!Spec => []Room!NoEditIsLost
<1>1. Room!Init => WallInv
  <2> SUFFICES ASSUME Room!Init PROVE WallInv
    OBVIOUS
  <2>1. << >> \in Seq(Rows)
    OBVIOUS
  <2>2. \A c \in Callers : doing[c] = Room!Rest
    BY DEF Room!Init
  <2>3. WallTyped
    BY <2>1 DEF Room!Init, WallTyped, WallAssumption
  <2>4. CallsTyped
    <3>1. DOMAIN doing = Callers
      BY DEF Room!Init
    <3>2. 0 \in 0..MaxShown
      BY DEF WallAssumption
    <3> QED
      BY <2>2, <3>1, <3>2, RestIs DEF CallsTyped, Errands
  <2>5. NewPanels /\ EditsAreCurrent
    BY <2>2, RestIs DEF Room!Init, NewPanels, EditsAreCurrent
  <2>6. Room!NoEditIsLost
    BY DEF Room!Init, Room!NoEditIsLost
  <2> QED
    BY <2>3, <2>4, <2>5, <2>6 DEF WallInv
<1>2. WallInv /\ [Room!Next]_Room!vars => WallInv'
  BY WallStep
<1>3. WallInv => Room!NoEditIsLost
  BY DEF WallInv
<1> QED
  BY <1>1, <1>2, <1>3, PTL DEF Room!Spec
=============================================================================
