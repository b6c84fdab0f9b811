-------------------------------- MODULE Wire --------------------------------
(* The transcript of a conversation and the two forms it is sent in.  A model *)
(* may call several tools in one message and gives each call an id, or none   *)
(* (then the adapter invents one from its place); the results follow as       *)
(* messages of their own.  A transcript over its budget is folded: its oldest *)
(* turns become a summary (rau/agent/compaction.py).  What is left is encoded *)
(* for one of two protocols that refuse a call without its result right after *)
(* it, and a result without its call (rau/providers/base.py,                  *)
(* anthropic_compat.py).                                                      *)
EXTENDS Integers, Sequences, FiniteSets, SequencesExt

CONSTANTS
    RawIds,       \* the id lists a provider may put on one message; "" is a missing id
    MaxMessages,  \* bound: messages ever added to one transcript
    Threshold,    \* tokens above which a transcript is folded
    Keep          \* tokens of the tail that a fold keeps verbatim

VARIABLES
    log,    \* the messages: [role, key, calls, id, text, thought, size, facts]
    keys,   \* messages added so far; the next key
    failed  \* whether a summarizer has failed on this transcript

vars == <<log, keys, failed>>

\* An id of a call of one message: the provider's, or one from the place of the call.
Given(raw) ==
    [i \in DOMAIN raw |-> IF raw[i] # "" THEN raw[i] ELSE <<"call_0", "call_1">>[i]]

Message(role, k) ==
    [role |-> role, key |-> k, calls |-> <<>>, id |-> "", text |-> TRUE,
     thought |-> "none", size |-> 1, facts |-> {}]

Roles == {"system", "user", "assistant", "tool"}

-----------------------------------------------------------------------------
(* Pairing calls and results *)

\* The results that follow the assistant message at i before any other role.
Results(i) ==
    {j \in (i + 1)..Len(log) : \A h \in (i + 1)..j : log[h].role = "tool"}

Count(s, x) == Cardinality({i \in DOMAIN s : s[i] = x})

\* The calls of the message at i that exactly one result answers, with their
\* results; an id used twice on either side pairs nothing.
Pairs(i) ==
    {<<c, j>> \in (DOMAIN log[i].calls) \X Results(i) :
        /\ log[j].id = log[i].calls[c]
        /\ Count(log[i].calls, log[i].calls[c]) = 1
        /\ \A h \in Results(i) : log[h].id = log[j].id => h = j}

Paired(i) == {p[1] : p \in Pairs(i)}
Answers(i) == {p[2] : p \in Pairs(i)}

Calling(i) == log[i].role = "assistant" /\ log[i].calls # <<>>

\* The message that called for the results at j, 0 when there is none.
Caller(j) ==
    LET C == {i \in 1..(j - 1) : Calling(i) /\ j \in Results(i)}
    IN  IF C = {} THEN 0 ELSE CHOOSE i \in C : TRUE

InOrder(S) == SetToSortSeq(S, <)
ResultOf(i, c) == CHOOSE j \in Answers(i) : <<c, j>> \in Pairs(i)

-----------------------------------------------------------------------------
(* The OpenAI form: one item per message, results right after their message *)

Prose(j) == [role |-> "user", ids |-> <<>>, from |-> {log[j].key}]

Said(i, ids) ==
    [role |-> log[i].role, ids |-> ids, from |-> {log[i].key}]

Result(i, c) ==
    [role |-> "tool", ids |-> <<log[i].calls[c]>>,
     from |-> {log[ResultOf(i, c)].key}]

\* What the message at i becomes; results are placed by the message that called.
OpenAiItems(i) ==
    IF log[i].role = "tool" /\ Caller(i) = 0 THEN <<Prose(i)>>
    ELSE IF log[i].role = "tool" THEN <<>>
    ELSE IF ~Calling(i) THEN <<Said(i, <<>>)>>
    ELSE LET cs == InOrder(Paired(i))
             lone == InOrder(Results(i) \ Answers(i))
         IN  (IF cs # <<>> THEN <<Said(i, [k \in DOMAIN cs |-> log[i].calls[cs[k]]])>>
              ELSE IF log[i].text THEN <<Said(i, <<>>)>> ELSE <<>>)
             \o [k \in DOMAIN cs |-> Result(i, cs[k])]
             \o [k \in DOMAIN lone |-> Prose(lone[k])]

OpenAi == FlattenSeq([i \in DOMAIN log |-> OpenAiItems(i)])

-----------------------------------------------------------------------------
(* The Anthropic form: turns of blocks, equal roles merged, no system turn *)

Block(kind, id, k) == [kind |-> kind, id |-> id, from |-> k]

\* The blocks of an assistant or user message; a foreign thought is dropped.
Own(i) ==
    (IF log[i].role = "assistant" /\ log[i].thought = "anthropic"
     THEN <<Block("thinking", "", log[i].key)>> ELSE <<>>)
    \o (IF log[i].text THEN <<Block("text", "", log[i].key)>> ELSE <<>>)

Turns(i) ==
    IF log[i].role = "system" \/ (log[i].role = "tool" /\ Caller(i) # 0) THEN <<>>
    ELSE IF log[i].role = "tool"
    THEN <<[role |-> "user", blocks |-> <<Block("text", "", log[i].key)>>]>>
    ELSE IF ~Calling(i) THEN <<[role |-> log[i].role, blocks |-> Own(i)]>>
    ELSE LET cs == InOrder(Paired(i))
             lone == InOrder(Results(i) \ Answers(i))
         IN  << [role |-> "assistant",
                 blocks |-> Own(i) \o [k \in DOMAIN cs |->
                    Block("tool_use", log[i].calls[cs[k]], log[i].key)]],
                [role |-> "user",
                 blocks |-> [k \in DOMAIN cs |->
                    Block("tool_result", log[i].calls[cs[k]], log[ResultOf(i, cs[k])].key)]
                    \o [k \in DOMAIN lone |-> Block("text", "", log[lone[k]].key)]] >>

\* Slip: every turn is added as it comes.
PushAll(turn, out) == Append(out, turn)

Push(turn, out) ==
    IF turn.blocks = <<>> THEN out
    ELSE IF out # <<>> /\ out[Len(out)].role = turn.role
    THEN [out EXCEPT ![Len(out)].blocks = @ \o turn.blocks]
    ELSE Append(out, turn)

Anthropic ==
    LET out == FoldLeft(LAMBDA o, t : Push(t, o), <<>>,
                        FlattenSeq([i \in DOMAIN log |-> Turns(i)]))
    IN  IF out # <<>> /\ out[1].role # "user"
        THEN <<[role |-> "user", blocks |-> <<Block("text", "", 0)>>]>> \o out
        ELSE out

-----------------------------------------------------------------------------
(* Folding *)

Tokens(ms) == FoldLeft(LAMBDA n, m : n + m.size, 0, ms)

\* The leading system messages, which no fold touches.
HeadEnd == SelectInSeq(log, LAMBDA m : m.role # "system")
Lead == IF HeadEnd = 0 THEN log ELSE SubSeq(log, 1, HeadEnd - 1)

\* Slip: the cut may sever a round.
CutAnywhere(fits) == fits

\* A cut at a result moves up to the message that called for it.
CutBack(fits) ==
    IF fits > Len(log) \/ log[fits].role # "tool" THEN fits
    ELSE LET U == {i \in (Len(Lead) + 1)..fits : log[i].role # "tool"}
         IN  IF U = {} THEN Len(Lead) + 1 ELSE CHOOSE i \in U : \A h \in U : h <= i

\* The first message kept: the longest tail within Keep, at least one message.
CutPoint ==
    LET T == {i \in (Len(Lead) + 1)..Len(log) :
                 i = Len(log) \/ Tokens(SubSeq(log, i, Len(log))) <= Keep}
    IN  IF T = {} THEN Len(log) + 1
        ELSE CutBack(CHOOSE i \in T : \A h \in T : i <= h)

IsSummary(m) == m.role = "system" /\ m.facts # {}

Dropped == SubSeq(log, Len(Lead) + 1, CutPoint - 1)
Tail_ == SubSeq(log, CutPoint, Len(log))
Keys(ms) == {ms[i].key : i \in DOMAIN ms}

Summary ==
    [Message("system", 0) EXCEPT
        !.facts = Keys(Dropped) \cup UNION {Lead[i].facts : i \in DOMAIN Lead}]

Goal == SelectInSeq(Dropped, LAMBDA m : m.role = "user")

-----------------------------------------------------------------------------
(* Actions *)

Init ==
    /\ log = <<Message("system", 1), Message("user", 2)>>
    /\ keys = 2
    /\ failed = FALSE

Add(m) ==
    /\ keys < MaxMessages
    /\ log' = Append(log, m)
    /\ keys' = keys + 1
    /\ UNCHANGED failed

\* A user message, or the assistant's prose with the thoughts of some provider.
Speak ==
    \/ Add(Message("user", keys + 1))
    \/ \E th \in {"none", "openai", "anthropic"} :
         Add([Message("assistant", keys + 1) EXCEPT !.thought = th])

\* A model calls tools, with or without prose.
Call ==
    \E raw \in RawIds, said \in BOOLEAN :
        Add([Message("assistant", keys + 1) EXCEPT !.calls = Given(raw), !.text = said])

\* A tool answers a call of the round; an interrupted round misses some, and
\* a duplicated call is answered once for each time it ran.
Answer ==
    \E i \in DOMAIN log, c \in 1..2, big \in 1..2 :
        /\ Calling(i) /\ (\A j \in (i + 1)..Len(log) : log[j].role = "tool")
        /\ c \in DOMAIN log[i].calls
        /\ Len(log) - i < Len(log[i].calls)
        /\ Add([Message("tool", keys + 1) EXCEPT !.id = log[i].calls[c], !.size = big])

\* maybe_compact: over budget, the oldest turns give way to a briefing.
Fold ==
    /\ Tokens(log) > Threshold
    /\ Dropped # <<>>
    /\ log' = SelectSeq(Lead, LAMBDA m : ~IsSummary(m)) \o <<Summary>> \o Tail_
    /\ UNCHANGED <<keys, failed>>

\* The summarizer fails: the span is dropped, its first user message is not.
FoldBlind ==
    /\ Tokens(log) > Threshold
    /\ Dropped # <<>>
    /\ log' = Lead \o (IF Goal = 0 THEN <<>> ELSE <<Dropped[Goal]>>) \o Tail_
    /\ failed' = TRUE
    /\ UNCHANGED keys

Next == Speak \/ Call \/ Answer \/ Fold \/ FoldBlind

Spec == Init /\ [][Next]_vars

-----------------------------------------------------------------------------
(* Properties *)

TypeOK ==
    /\ \A i \in DOMAIN log : log[i].role \in Roles /\ log[i].size \in 1..2
    /\ keys \in 2..MaxMessages
    /\ failed \in BOOLEAN

(* A request in the OpenAI form is well paired: the calls of an assistant item  *)
(* are answered, each once and in order, by the items right after it, and no    *)
(* result stands elsewhere.                                                     *)
OpenAiAccepts ==
    LET w == OpenAi
    IN  \A i \in DOMAIN w :
            /\ w[i].role = "assistant" =>
                 \A k \in DOMAIN w[i].ids :
                    /\ Count(w[i].ids, w[i].ids[k]) = 1
                    /\ i + k <= Len(w) /\ w[i + k].role = "tool"
                    /\ w[i + k].ids = <<w[i].ids[k]>>
            /\ w[i].role = "tool" =>
                 \E h \in 1..(i - 1) :
                    /\ w[h].role = "assistant" /\ i - h <= Len(w[h].ids)
                    /\ w[i].ids = <<w[h].ids[i - h]>>

(* A request in the Anthropic form starts with the user, alternates, and the    *)
(* results that open a user turn are exactly the calls of the turn before.      *)
AnthropicAccepts ==
    LET w == Anthropic
        idsOf(t, kind) == LET s == SelectSeq(t.blocks, LAMBDA b : b.kind = kind)
                          IN  [k \in DOMAIN s |-> s[k].id]
    IN  \A i \in DOMAIN w :
            /\ w[i].role = (IF i % 2 = 1 THEN "user" ELSE "assistant")
            /\ w[i].blocks # <<>>
            /\ w[i].role = "assistant" =>
                 LET u == idsOf(w[i], "tool_use")
                 IN  /\ IsInjective(u)
                     /\ u # <<>> => i < Len(w) /\ idsOf(w[i + 1], "tool_result") = u
            /\ w[i].role = "user" =>
                 LET r == idsOf(w[i], "tool_result")
                 IN  /\ \A k \in DOMAIN r : w[i].blocks[k].kind = "tool_result"
                     /\ r # <<>> => i > 1 /\ idsOf(w[i - 1], "tool_use") = r

WireIsAccepted == OpenAiAccepts /\ AnthropicAccepts

(* What a tool returned reaches the model, once: as a result or as narration.   *)
NoResultLost ==
    LET o == OpenAi
        w == Anthropic
        blocks == FlattenSeq([i \in DOMAIN w |-> w[i].blocks])
    IN  \A j \in DOMAIN log : log[j].role = "tool" =>
            /\ Cardinality({i \in DOMAIN o : log[j].key \in o[i].from}) = 1
            /\ Cardinality({k \in DOMAIN blocks : blocks[k].from = log[j].key}) = 1

(* A fold never separates a result it keeps from the message that called for   *)
(* it; the request a run was given survives every fold, as itself or in a       *)
(* briefing, and nothing at all is forgotten while the summarizer answers.      *)
FoldKeepsTheWork ==
    LET known == Keys(log) \cup UNION {log[i].facts : i \in DOMAIN log}
    IN  /\ Tokens(log) > Threshold =>
              \A j \in CutPoint..Len(log) : Caller(j) # 0 => Caller(j) >= CutPoint
        /\ 2 \in known
        /\ ~failed => 1..keys \subseteq known
=============================================================================
