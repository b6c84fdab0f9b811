------------------------------ MODULE FaceBrain ------------------------------
(***************************************************************************)
(* The face of rau/face/brain.py: typed, spoken and system turns that race *)
(* for the foreground, the rounds of model and tool calls each one makes,  *)
(* the shared history with its reserved slots, the interruption that       *)
(* rewrites a slot, and the summariser that folds the oldest messages in   *)
(* a thread of its own (rau/agent/compaction.py).                          *)
(*                                                                         *)
(* A message is [turn, kind, of]; `of` is what a summary stands for.  Only *)
(* _history_lock and _foreground_condition cover more than one statement.  *)
(***************************************************************************)
EXTENDS Integers, Sequences, SequencesExt, FiniteSets

CONSTANTS
    Typed,      \* turns answered by chat()
    Spoken,     \* turns answered by chat_streaming(), their diary deferred
    System,     \* turns of weave_result(), which wait for an idle gap
    MaxCalls,   \* MAX_FACE_TOOL_CALLS
    FoldAt,     \* messages at which should_compact() says so
    KeepRecent, \* messages find_cut_point() keeps
    MaxResets   \* bound: reset_history() calls

Turns == Typed \cup Spoken \cup System
EMPTY_REPLY_RETRIES == 2

VARIABLES
    pc,      \* where each turn stands
    cancel,  \* claim.cancel of each turn
    active,  \* _active_foreground_turn; {} for None
    history, \* _history
    pending, \* _pending_stream_messages, by turn
    rounds,  \* model rounds begun, then empty-reply retries
    ran,     \* len(tools_ran)
    wanted,  \* calls of the round still to run
    heard,   \* the turn emitted prose
    diary,   \* turns written to the diary
    fold,    \* the running fold's snapshot; {} when _compacting is free
    resets   \* resets so far

turnVars == <<pc, rounds, ran, wanted, heard>>
vars == <<turnVars, cancel, active, history, pending, diary, fold, resets>>

Msg(t, kind) == [turn |-> t, kind |-> kind, of |-> {}]
Summary(ms) == [turn |-> 0, kind |-> "summary", of |-> ms]

Init ==
    /\ pc = [t \in Turns |-> "new"]
    /\ cancel = [t \in Turns |-> FALSE]
    /\ active = {}
    /\ history = << >>
    /\ pending = {}
    /\ rounds = [t \in Turns |-> 0]
    /\ ran = [t \in Turns |-> 0]
    /\ wanted = [t \in Turns |-> 0]
    /\ heard = [t \in Turns |-> FALSE]
    /\ diary = {}
    /\ fold = {}
    /\ resets = 0

-----------------------------------------------------------------------------
Goto(t, label) == pc' = [pc EXCEPT ![t] = label]
Stopped(t) == cancel[t]
\* What snapshot_history() shows: all but the slots that are reserved.
Visible(h, reserved) ==
    LET seen[i \in 0..Len(h)] ==
            IF i = 0 THEN << >>
            ELSE IF h[i].kind = "pending" /\ h[i].turn \in reserved THEN seen[i - 1]
            ELSE Append(seen[i - 1], h[i])
    IN  seen[Len(h)]

\* Replace the one message `m`, wherever it stands; a message that is gone is left gone.
Place(m) == CHOOSE i \in DOMAIN history : history[i] = m
Replace(m, by) ==
    history' = IF Contains(history, m)
               THEN SubSeq(history, 1, Place(m) - 1) \o by
                    \o SubSeq(history, Place(m) + 1, Len(history))
               ELSE history

\* _maybe_compact_history: a fold of its own thread, one at a time.
MaybeCompact(h, reserved) ==
    LET shown == Visible(h, reserved)
    IN  fold' = IF fold = {} /\ Len(shown) > FoldAt THEN {shown} ELSE fold

-----------------------------------------------------------------------------
(* _begin_foreground_turn and _end_foreground_turn.                        *)

\* Slip: a user turn takes the foreground without preempting who holds it.
TakesOver(t) == cancel
Preempts(t) == [u \in Turns |-> cancel[u] \/ u \in active]

Begin(t) ==
    /\ pc[t] = "new"
    /\ IF t \in System THEN active = {} /\ UNCHANGED cancel
                       ELSE cancel' = Preempts(t)
    /\ active' = {t}
    /\ Goto(t, "prepare")
    /\ UNCHANGED <<rounds, ran, wanted, heard, history, pending, diary, fold, resets>>

\* VoiceSession._cancel_turn: the user begins to speak, with or without a turn to follow.
Barge(t) ==
    /\ t \in Spoken /\ pc[t] \notin {"new", "ended"} /\ ~cancel[t]
    /\ cancel' = [cancel EXCEPT ![t] = TRUE]
    /\ UNCHANGED <<turnVars, active, history, pending, diary, fold, resets>>

Leave(t, label) ==
    /\ active' = active \ {t}
    /\ Goto(t, label)

-----------------------------------------------------------------------------
(* prepare_turn and _reserve_stream_turn.                                  *)

\* A meta command is answered on the spot; the diary of a spoken one is deferred.
Immediate(t) ==
    /\ pc[t] = "prepare"
    /\ diary' = IF t \in Spoken THEN diary ELSE diary \cup {t}
    /\ Leave(t, IF t \in Spoken THEN "meta" ELSE "ended")
    /\ UNCHANGED <<rounds, ran, wanted, heard, cancel, history, pending, fold, resets>>

Reserve(t) ==
    /\ pc[t] = "prepare"
    /\ history' = history \o <<Msg(t, "user"), Msg(t, "pending")>>
    /\ pending' = pending \cup {t}
    /\ Goto(t, "round")
    /\ UNCHANGED <<rounds, ran, wanted, heard, cancel, active, diary, fold, resets>>

-----------------------------------------------------------------------------
(* The rounds: a model call, then the calls it asked for.                  *)

Closing(t) == ran[t] >= MaxCalls

Round(t) ==
    /\ pc[t] = "round"
    /\ Goto(t, IF Stopped(t) THEN "cancelled" ELSE "model")
    /\ UNCHANGED <<rounds, ran, wanted, heard, cancel, active, history, pending, diary, fold,
                   resets>>

\* Prose streamed ahead of the result; chat() shows none before the turn is over.
Token(t) ==
    /\ pc[t] = "model" /\ t \in Spoken /\ ~heard[t]
    /\ IF Stopped(t) THEN Goto(t, "cancelled") /\ UNCHANGED heard
                     ELSE heard' = [heard EXCEPT ![t] = TRUE] /\ UNCHANGED pc
    /\ UNCHANGED <<rounds, ran, wanted, cancel, active, history, pending, diary, fold, resets>>

\* The result: calls to run, an answer, nothing visible, or an error.
ModelReturns(t) ==
    /\ pc[t] = "model"
    /\ IF Stopped(t) THEN Goto(t, "cancelled") /\ UNCHANGED <<heard, wanted>>
       ELSE \/ /\ ~Closing(t)
               /\ \E n \in 1..2 : wanted' = [wanted EXCEPT ![t] = n]
               /\ Goto(t, "tools") /\ UNCHANGED heard
            \/ /\ heard' = [heard EXCEPT ![t] = TRUE]
               /\ Goto(t, "answered") /\ UNCHANGED wanted
            \/ Goto(t, "empty") /\ UNCHANGED <<heard, wanted>>
            \/ Goto(t, "failed") /\ UNCHANGED <<heard, wanted>>
    /\ rounds' = [rounds EXCEPT ![t] = 0]
    /\ UNCHANGED <<ran, cancel, active, history, pending, diary, fold, resets>>

\* Slip: calls past the budget run like the others.
RunsAny(t) == TRUE
InBudget(t) == ran[t] < MaxCalls

\* _record_tool_round: one call of the round, refused past the budget, checked for a
\* stop before it and after it.
Tool(t) ==
    /\ pc[t] = "tools" /\ wanted[t] > 0
    /\ IF Stopped(t) THEN Goto(t, "cancelled") /\ UNCHANGED <<ran, wanted>>
       ELSE /\ wanted' = [wanted EXCEPT ![t] = @ - 1]
            /\ IF InBudget(t)
               THEN ran' = [ran EXCEPT ![t] = @ + 1] /\ (Goto(t, "ran") \/ Goto(t, "failed"))
               ELSE UNCHANGED <<ran, pc>>
    /\ UNCHANGED <<rounds, heard, cancel, active, history, pending, diary, fold, resets>>

ToolSettled(t) ==
    /\ pc[t] = "ran"
    /\ Goto(t, IF Stopped(t) THEN "cancelled" ELSE "tools")
    /\ UNCHANGED <<rounds, ran, wanted, heard, cancel, active, history, pending, diary, fold,
                   resets>>

RoundEnds(t) ==
    /\ pc[t] = "tools" /\ wanted[t] = 0
    /\ Goto(t, IF Stopped(t) THEN "cancelled" ELSE "round")
    /\ UNCHANGED <<rounds, ran, wanted, heard, cancel, active, history, pending, diary, fold,
                   resets>>

\* _retry_empty_blocking_reply, or the streamed retries of a spoken turn, then
\* _local_empty_reply.  A stop may come when a streamed retry has been heard in part.
Retry(t) ==
    /\ pc[t] = "empty"
    /\ IF Stopped(t)
       THEN /\ Goto(t, "cancelled") /\ UNCHANGED rounds
            /\ \/ UNCHANGED heard
               \/ /\ t \in Spoken /\ rounds[t] < EMPTY_REPLY_RETRIES
                  /\ heard' = [heard EXCEPT ![t] = TRUE]
       ELSE \/ /\ rounds[t] < EMPTY_REPLY_RETRIES
               /\ rounds' = [rounds EXCEPT ![t] = @ + 1]
               /\ (UNCHANGED pc \/ Goto(t, "failed")) /\ UNCHANGED heard
            \/ /\ heard' = [heard EXCEPT ![t] = TRUE]
               /\ Goto(t, "answered") /\ UNCHANGED rounds
    /\ UNCHANGED <<ran, wanted, cancel, active, history, pending, diary, fold, resets>>

-----------------------------------------------------------------------------
(* The end of a turn.                                                      *)

\* Slip: the reply goes to the end of the history.
AppendReply(t) ==
    history' = Append(SelectSeq(history, LAMBDA m : m # Msg(t, "pending")), Msg(t, "reply"))
CommitReply(t) == Replace(Msg(t, "pending"), <<Msg(t, "reply")>>)

\* _finish_stream_turn with the answer; a stop seen after the last round still cancels a
\* typed turn.
Finish(t) ==
    /\ pc[t] = "answered"
    /\ IF t \notin Spoken /\ Stopped(t)
       THEN Goto(t, "cancelled") /\ UNCHANGED <<history, pending, diary, fold, active>>
       ELSE /\ CommitReply(t)
            /\ pending' = pending \ {t}
            /\ IF t \in Spoken
               THEN Leave(t, "playing") /\ UNCHANGED <<diary, fold>>
               ELSE /\ Leave(t, "ended")
                    /\ diary' = diary \cup {t}
                    /\ MaybeCompact(history', pending \ {t})
    /\ UNCHANGED <<rounds, ran, wanted, heard, cancel, resets>>

\* finish_interrupted_turn: the slot becomes what was heard, the tools that ran and the
\* note, once; only the caller that still finds the slot writes the diary.
Cut(t, slot, aired) ==
    LET found == Contains(history, slot)
    IN  /\ Replace(slot, (IF aired THEN <<Msg(t, "reply")>> ELSE << >>)
                         \o (IF ran[t] > 0 THEN <<Msg(t, "tools")>> ELSE << >>)
                         \o <<Msg(t, "note")>>)
        /\ pending' = pending \ {t}
        /\ diary' = IF found THEN diary \cup {t} ELSE diary
        /\ IF found THEN MaybeCompact(history', pending \ {t}) ELSE UNCHANGED fold

\* A typed turn cuts itself; a spoken one leaves the foreground and its session cuts it.
Cancelled(t) ==
    /\ pc[t] = "cancelled"
    /\ IF t \in Spoken
       THEN Leave(t, "uncut") /\ UNCHANGED <<history, pending, diary, fold>>
       ELSE Cut(t, Msg(t, "pending"), FALSE) /\ Leave(t, "ended")
    /\ UNCHANGED <<rounds, ran, wanted, heard, cancel, resets>>

\* of what was generated, the session keeps what it played
SessionCuts(t) ==
    /\ pc[t] = "uncut"
    /\ \E aired \in {FALSE, heard[t]} : Cut(t, Msg(t, "pending"), aired)
    /\ Goto(t, "ended")
    /\ UNCHANGED <<rounds, ran, wanted, heard, cancel, active, resets>>

\* An exception keeps what was heard; if a stop came with it, the turn is cut instead.
Failed(t) ==
    /\ pc[t] = "failed"
    /\ IF t \in Spoken /\ Stopped(t) THEN Cut(t, Msg(t, "pending"), heard[t])
       ELSE /\ Replace(Msg(t, "pending"),
                       IF heard[t] THEN <<Msg(t, "reply")>> ELSE << >>)
            /\ pending' = pending \ {t}
            /\ UNCHANGED <<diary, fold>>
    /\ Leave(t, "ended")
    /\ UNCHANGED <<rounds, ran, wanted, heard, cancel, resets>>

\* Playback: commit_streamed_turn, or a barge-in that cuts the committed reply.
Played(t) ==
    /\ pc[t] \in {"playing", "meta"}
    /\ Goto(t, "ended")
    /\ diary' = diary \cup {t}
    /\ MaybeCompact(history, pending)
    /\ UNCHANGED <<rounds, ran, wanted, heard, cancel, active, history, pending, resets>>

BargedIn(t) ==
    /\ pc[t] = "playing"
    /\ \E aired \in BOOLEAN : Cut(t, Msg(t, "reply"), aired)
    /\ Goto(t, "ended")
    /\ UNCHANGED <<rounds, ran, wanted, heard, cancel, active, resets>>

-----------------------------------------------------------------------------
(* _fold_history, on its own thread, and reset_history.                    *)

\* Slip: the fold writes back without looking at what it replaces.
AnyPrefix(shown) == TRUE
StillThere(shown) == IsPrefix(shown, history)

Covered(ms) == ToSet(ms) \cup UNION {m.of : m \in ToSet(ms)}

\* compaction.compact: a summary of all but the most recent, or without a summariser the
\* first user message of the span and any summary that stood.
Folded(shown, summarised) ==
    LET cut == Len(shown) - KeepRecent
        span == SubSeq(shown, 1, cut)
        recent == SubSeq(shown, cut + 1, Len(shown))
        head == IF shown[1].kind = "summary" THEN <<shown[1]>> ELSE << >>
        users == {i \in 1..cut : shown[i].kind = "user"}
        goal == IF users = {} THEN << >> ELSE <<shown[Min(users)]>>
    IN  IF summarised THEN <<Summary({m \in Covered(span) : m.kind # "summary"})>> \o recent
        ELSE head \o goal \o recent

FoldEnds ==
    /\ fold # {}
    /\ \E shown \in fold, summarised \in BOOLEAN :
          history' = IF StillThere(shown)
                     THEN Folded(shown, summarised)
                          \o SubSeq(history, Len(shown) + 1, Len(history))
                     ELSE history
    /\ fold' = {}
    /\ UNCHANGED <<turnVars, cancel, active, pending, diary, resets>>

Reset ==
    /\ resets < MaxResets
    /\ resets' = resets + 1
    /\ history' = << >>
    /\ pending' = {}
    /\ UNCHANGED <<turnVars, cancel, active, diary, fold>>

-----------------------------------------------------------------------------
Talking(t) == Begin(t) \/ Immediate(t) \/ Reserve(t) \/ Round(t) \/ Token(t) \/ ModelReturns(t)
Working(t) == Tool(t) \/ ToolSettled(t) \/ RoundEnds(t) \/ Retry(t)
Closing_(t) ==
    Finish(t) \/ Cancelled(t) \/ SessionCuts(t) \/ Failed(t) \/ Played(t) \/ BargedIn(t) \/ Barge(t)

Next == (\E t \in Turns : Talking(t) \/ Working(t) \/ Closing_(t)) \/ FoldEnds \/ Reset

Spec == Init /\ [][Next]_vars

-----------------------------------------------------------------------------
(* Properties.                                                             *)

Kinds == {"user", "pending", "reply", "tools", "note", "summary"}

\* Every variable holds what its Python counterpart can hold.
TypeOK ==
    /\ active \in {{}} \cup {{t} : t \in Turns} /\ pending \subseteq Turns /\ diary \subseteq Turns
    /\ \A i \in DOMAIN history : history[i].kind \in Kinds
    /\ \A t \in Turns : ran[t] \in 0..MaxCalls /\ rounds[t] \in 0..EMPTY_REPLY_RETRIES
    /\ cancel \in [Turns -> BOOLEAN] /\ Cardinality(fold) <= 1

\* An answer stands with its question (_reserve_stream_turn: the slot "preserves ordering
\* when a provider/tool is slow and a newer turn preempts it"): whatever a late turn
\* leaves behind, be it a reply, a cut or a fold, no message of another turn comes between.
AnswersStandByQuestions ==
    \A i, k \in DOMAIN history :
        i < k /\ history[i].turn # 0 /\ history[i].turn = history[k].turn =>
            \A j \in i..k : history[j].turn = history[i].turn

\* Nothing is said twice and nothing is brought back: a message a summary stands for is
\* not in the history beside it, no slot outlives its turn, and every message is there once.
NothingTwice ==
    /\ IsInjective(history)
    /\ \A i \in DOMAIN history : history[i].of \cap ToSet(history) = {}
    /\ \A t \in Turns : pc[t] = "ended" => ~Contains(history, Msg(t, "pending"))

Answering(t) == pc[t] \in {"prepare", "round", "model", "tools", "ran", "empty", "answered"}

\* Newest turn wins: of the turns still answering, only the one in the foreground has not
\* been told to stop.
NewestWins == \A t \in Turns : Answering(t) /\ ~cancel[t] => active = {t}

=============================================================================
