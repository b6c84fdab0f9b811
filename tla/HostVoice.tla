----------------------------- MODULE HostVoice -----------------------------
(***************************************************************************)
(* The host's own microphone loop and the control queue                    *)
(* (rau/face/pipeline.py), the listening flag, the browser leases and the  *)
(* pending confirmations of the shared state (rau/state.py), and the ways  *)
(* a user decides a confirmation (resolve_confirm of the orchestrator,     *)
(* /api/control of the hub).                                               *)
(*                                                                         *)
(* Two host threads act: the loop that listens, and the one that carries   *)
(* out the commands of the queue.  Each waits while it speaks.             *)
(***************************************************************************)
EXTENDS Integers, Sequences, FiniteSets, SequencesExt

CONSTANTS
    Confirms,    \* confirmations of jobs, 1 the first asked; one job asks each
    Browsers,    \* bound: browser voice sockets open at a time
    MaxCommands, \* bound: commands the user sends
    QueueCap     \* the control queue's maxlen

NoId == 0

VARIABLES
    listening,  \* _state["listening"]
    sessions,   \* _browser_voice_sessions
    before,     \* _listening_before_browser_voice, as a set; {}: None
    wanted,     \* history: what the host last asked for
    queue,      \* _control_queue
    pending,    \* ids of _confirms, oldest first
    asked,      \* history: confirms asked so far
    granted,    \* history: confirms approved
    yes,        \* history: approvals the user gave
    sent,       \* history: commands sent over HTTP
    spokenId,   \* _spoken_confirm_id
    busy,       \* _state["face_busy"]
    stopped,    \* _stop
    control,    \* the control thread: what it is at
    ears,       \* the listening loop: where it stands
    answerId    \* the id the loop answers

vars == <<listening, sessions, before, wanted, queue, pending, asked, granted, yes, sent,
          spokenId, busy, stopped, control, ears, answerId>>
micVars == <<listening, sessions, before, wanted>>
confirmVars == <<pending, granted>>
threadVars == <<spokenId, busy, control, ears, answerId>>

Init ==
    /\ listening = TRUE /\ sessions = 0 /\ before = {} /\ wanted = TRUE
    /\ queue = <<>> /\ pending = <<>> /\ asked = 0 /\ granted = {} /\ yes = 0 /\ sent = 0
    /\ spokenId = NoId /\ busy = FALSE /\ stopped = FALSE
    /\ control = "pops" /\ ears = "checks" /\ answerId = NoId

Command(action, id) == [action |-> action, id |-> id]
\* a full queue loses its oldest command
Pushed(cmd) == LET q == Append(queue, cmd) IN IF Len(q) > QueueCap THEN Tail(q) ELSE q
Drop(id) == SelectSeq(pending, LAMBDA c : c # id)

(***************************************************************************)
(* The microphone flag.                                                    *)
(***************************************************************************)
\* Slip: the host's wish is obeyed under an open browser socket.
SetListeningAtOnce(on) == listening' = on /\ UNCHANGED before

SetListening(on) ==
    IF sessions > 0 THEN listening' = FALSE /\ before' = {on}
    ELSE listening' = on /\ UNCHANGED before

Acquire ==
    /\ sessions < Browsers
    /\ sessions' = sessions + 1 /\ listening' = FALSE
    /\ before' = IF sessions = 0 THEN {listening} ELSE before
    /\ UNCHANGED <<wanted, queue, confirmVars, asked, yes, sent, threadVars, stopped>>

Release ==
    /\ sessions > 0
    /\ sessions' = sessions - 1
    /\ IF sessions = 1 THEN listening' = (TRUE \in before) /\ before' = {}
       ELSE UNCHANGED <<listening, before>>
    /\ UNCHANGED <<wanted, queue, confirmVars, asked, yes, sent, threadVars, stopped>>

(***************************************************************************)
(* Confirmations.  An approval that names a confirm lands on that one; a   *)
(* denial of one that is gone, and a decision without a name, on the       *)
(* oldest.  A decision settles the confirm's row once.                     *)
(***************************************************************************)
Oldest == IF pending = <<>> THEN NoId ELSE Head(pending)
IsPending(id) == id \in ToSet(pending)

Target(approved, id) ==
    IF id = NoId \/ (~IsPending(id) /\ ~approved) THEN Oldest
    ELSE IF IsPending(id) THEN id ELSE NoId

Resolve(approved, id) ==
    LET c == Target(approved, id) IN
    /\ pending' = Drop(c)
    /\ granted' = IF approved /\ c # NoId THEN granted \union {c} ELSE granted

\* _wait_confirm: a job shows its confirm and has it read aloud
Ask ==
    /\ asked < Cardinality(Confirms) /\ asked' = asked + 1
    /\ pending' = Append(pending, asked + 1)
    /\ queue' = Pushed(Command("ask_confirm", asked + 1))
    /\ UNCHANGED <<micVars, granted, yes, sent, threadVars, stopped>>

\* the job times out or is cancelled while it waits
Withdraw ==
    /\ \E i \in DOMAIN pending : pending' = RemoveAt(pending, i)
    /\ UNCHANGED <<micVars, queue, granted, asked, yes, sent, threadVars, stopped>>

(***************************************************************************)
(* /api/control: the command is queued, and a decision also carried out at *)
(* once.                                                                   *)
(***************************************************************************)
Decisions == {"confirm", "deny"}
Send(action, id) ==
    /\ sent < MaxCommands /\ sent' = sent + 1
    /\ queue' = Pushed(Command(action, id))
    /\ yes' = IF action = "confirm" THEN yes + 1 ELSE yes
    /\ IF action \in Decisions THEN Resolve(action = "confirm", id) ELSE UNCHANGED confirmVars
    /\ UNCHANGED <<micVars, asked, threadVars, stopped>>

\* what somebody else of the program has to say: a result, a table, the heartbeat
Enqueue ==
    /\ sent < MaxCommands /\ sent' = sent + 1
    /\ queue' = Pushed(Command("speak", NoId))
    /\ UNCHANGED <<micVars, confirmVars, asked, yes, threadVars, stopped>>

(***************************************************************************)
(* The control thread.                                                     *)
(***************************************************************************)
Pop(action) ==
    /\ control = "pops" /\ ~stopped /\ queue # <<>>
    /\ Head(queue).action = action /\ queue' = Tail(queue)
Speaks == control' = "speaks" /\ busy' = TRUE

HandleListen(on) ==
    /\ Pop(IF on THEN "start" ELSE "stop")
    /\ SetListening(on) /\ wanted' = on
    /\ UNCHANGED <<sessions, confirmVars, asked, yes, sent, threadVars, stopped>>

HandleShutdown ==
    /\ Pop("shutdown") /\ stopped' = TRUE
    /\ UNCHANGED <<micVars, confirmVars, asked, yes, sent, threadVars>>

HandleDecision(approved) ==
    /\ Pop(IF approved THEN "confirm" ELSE "deny")
    /\ Resolve(approved, Head(queue).id)
    /\ UNCHANGED <<micVars, asked, yes, sent, threadVars, stopped>>

HandleAsk ==
    /\ Pop("ask_confirm") /\ spokenId' = Head(queue).id /\ Speaks
    /\ UNCHANGED <<micVars, confirmVars, asked, yes, sent, stopped, ears, answerId>>

HandleSpeak ==
    /\ Pop("speak") /\ Speaks
    /\ UNCHANGED <<micVars, confirmVars, asked, yes, sent, stopped, spokenId, ears, answerId>>

ControlSpoke ==
    /\ control = "speaks" /\ control' = "pops" /\ busy' = FALSE
    /\ UNCHANGED <<micVars, queue, confirmVars, asked, yes, sent, stopped, spokenId, ears, answerId>>

(***************************************************************************)
(* The listening loop.                                                     *)
(***************************************************************************)
EarsRest == UNCHANGED <<micVars, queue, asked, sent, stopped, control>>
Hear(from, to) == ears = from /\ ears' = to /\ EarsRest

\* the flag is looked at once, before up to ten seconds are recorded
Listen ==
    /\ ~stopped /\ listening
    /\ Hear("checks", "records")
    /\ UNCHANGED <<confirmVars, yes, spokenId, busy, answerId>>

\* nothing was said, or nothing understood; a stop ends the recording
Nothing ==
    /\ Hear("records", "checks")
    /\ UNCHANGED <<confirmVars, yes, spokenId, busy, answerId>>

\* words: with a confirm pending, a yes or a no is for the one read aloud
Shortcut(to) ==
    /\ pending # <<>> /\ Hear("records", to) /\ answerId' = spokenId
    /\ yes' = IF to = "yes" THEN yes + 1 ELSE yes
    /\ UNCHANGED <<confirmVars, spokenId, busy>>

Words ==
    /\ Hear("records", "thinks")
    /\ UNCHANGED <<confirmVars, yes, spokenId, busy, answerId>>

Answer(approved) ==
    /\ Hear(IF approved THEN "yes" ELSE "no", "forgets") /\ Resolve(approved, answerId)
    /\ UNCHANGED <<yes, spokenId, busy, answerId>>

Forget ==
    /\ Hear("forgets", "speaks") /\ spokenId' = NoId /\ busy' = TRUE /\ answerId' = NoId
    /\ UNCHANGED <<confirmVars, yes>>

\* the brain replies, or a newer turn took the foreground and nothing is said
Reply ==
    /\ \/ Hear("thinks", "speaks") /\ busy' = TRUE
       \/ Hear("thinks", "checks") /\ UNCHANGED busy
    /\ UNCHANGED <<confirmVars, yes, spokenId, answerId>>

\* long deep work is mentioned between two recordings, if nobody speaks
Remark ==
    /\ ~stopped /\ listening /\ ~busy
    /\ Hear("checks", "speaks") /\ busy' = TRUE
    /\ UNCHANGED <<confirmVars, yes, spokenId, answerId>>

EarsSpoke ==
    /\ Hear("speaks", "checks") /\ busy' = FALSE
    /\ UNCHANGED <<confirmVars, yes, spokenId, answerId>>

Next ==
    \/ Acquire \/ Release \/ Ask \/ Withdraw \/ Enqueue
    \/ \E action \in {"start", "stop", "shutdown"} : Send(action, NoId)
    \/ \E action \in Decisions, id \in Confirms \union {NoId} : Send(action, id)
    \/ \E on \in BOOLEAN : HandleListen(on) \/ HandleDecision(on)
    \/ HandleShutdown \/ HandleAsk \/ HandleSpeak \/ ControlSpoke
    \/ Listen \/ Nothing \/ Words \/ Forget \/ Reply \/ Remark \/ EarsSpoke
    \/ \E to \in {"yes", "no"} : Shortcut(to)
    \/ \E approved \in BOOLEAN : Answer(approved)

Spec == Init /\ [][Next]_vars

-----------------------------------------------------------------------------
TypeOK ==
    /\ listening \in BOOLEAN /\ sessions \in 0..Browsers /\ before \subseteq BOOLEAN
    /\ Len(queue) <= QueueCap /\ ToSet(pending) \subseteq Confirms
    /\ {spokenId, answerId} \subseteq Confirms \union {NoId}
    /\ granted \subseteq Confirms
    /\ control \in {"pops", "speaks"}
    /\ ears \in {"checks", "records", "yes", "no", "forgets", "thinks", "speaks"}

\* However browsers and the host take turns, the host's flag is off while a browser listens, and
\* when the last one is gone it is what the host last asked for, sockets or no sockets.
BrowserHasTheMic ==
    IF sessions > 0 THEN ~listening /\ before = {wanted} ELSE listening = wanted

\* "The host-side mic loop and a browser session must not both listen, or every utterance is
\* transcribed twice."
OneListener == ears = "records" => sessions = 0

\* No more confirms are approved than the user gave approvals.
OneApprovalOneConfirm == Cardinality(granted) <= yes
=============================================================================
