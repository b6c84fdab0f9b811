--------------------------- MODULE ProviderStream ---------------------------
(* Calls of a model provider.  A call is one blocking request, or a stream of *)
(* events put together into a message and its tool calls, with one blocking   *)
(* request when the endpoint cannot stream (rau/providers/openai_compat.py,   *)
(* anthropic_compat.py).  All the calls of one provider share a breaker that  *)
(* refuses new ones for a while after several transient failures in a row     *)
(* (rau/providers/reliability.py).  Voice turns, workers and the heartbeat    *)
(* call one provider concurrently; a voice turn may drop its stream.          *)
EXTENDS Integers, Sequences, FiniteSets

CONSTANTS
    Calls,      \* the calls made of the provider
    Streams,    \* the ones that stream (voice turns); the others block (workers, folds)
    Indexes,    \* places of tool calls in one message
    Threshold,  \* transient failures in a row that open the circuit
    Cooldown,   \* clock steps it stays open
    MaxBad,     \* malformed events a stream may hold
    MaxTime     \* bound: steps of the clock

VARIABLES
    pc,        \* per call: "idle", "stream", "chat", then "done", "failed", "refused", "dropped"
    parts,     \* per call: index -> [named, args], the tool calls being put together
    stop,      \* per call: why the provider says it stopped, "" before it says so
    bad,       \* per call: malformed events so far
    heard,     \* per call: whether prose was handed out
    handed,    \* per call: the tool calls handed out, index -> their arguments
    failures,  \* _failures: transient failures since the last success
    until,     \* _open_until
    now,       \* the clock
    history    \* outcomes the breaker has counted: TRUE for a success

callVars == <<pc, parts, stop, bad, heard, handed>>
breaker == <<failures, until, history>>
vars == <<callVars, breaker, now>>

NoPart == [named |-> FALSE, args |-> "none"]

Open == until > now

\* Slip: a success leaves the count of failures.
SucceedUncleared ==
    /\ until' = 0
    /\ history' = Append(history, TRUE)
    /\ UNCHANGED failures

Succeed ==
    /\ failures' = 0
    /\ until' = 0
    /\ history' = Append(history, TRUE)

\* An error counts when its text says the provider is unreachable or overloaded.
Fail(transient) ==
    IF ~transient THEN UNCHANGED breaker
    ELSE /\ failures' = failures + 1
         /\ until' = IF failures + 1 >= Threshold THEN now + Cooldown ELSE until
         /\ history' = Append(history, FALSE)

Settle(c, how) == pc' = [pc EXCEPT ![c] = how]

Raise(c, transient) == Settle(c, "failed") /\ Fail(transient)

-----------------------------------------------------------------------------

Init ==
    /\ pc = [c \in Calls |-> "idle"]
    /\ parts = [c \in Calls |-> [i \in Indexes |-> NoPart]]
    /\ stop = [c \in Calls |-> ""]
    /\ bad = [c \in Calls |-> 0]
    /\ heard = [c \in Calls |-> FALSE]
    /\ handed = [c \in Calls |-> <<>>]
    /\ failures = 0 /\ until = 0 /\ history = <<>>
    /\ now = 0

\* _before: an open circuit refuses the call, which counts for nothing.
Begin(c) ==
    /\ pc[c] = "idle"
    /\ Settle(c, IF Open THEN "refused" ELSE IF c \in Streams THEN "stream" ELSE "chat")
    /\ UNCHANGED <<parts, stop, bad, heard, handed, breaker, now>>

\* A blocking call returns a whole message: prose, or tool calls as they were made.
ChatReturns(c) ==
    /\ pc[c] = "chat"
    /\ \E I \in SUBSET Indexes :
         /\ handed' = [handed EXCEPT ![c] = [i \in I |-> "whole"]]
         /\ heard' = [heard EXCEPT ![c] = @ \/ I = {}]
    /\ Settle(c, "done") /\ Succeed
    /\ UNCHANGED <<parts, stop, bad, now>>

ChatRaises(c) ==
    /\ pc[c] = "chat"
    /\ \E transient \in BOOLEAN : Raise(c, transient)
    /\ UNCHANGED <<parts, stop, bad, heard, handed, now>>

\* The endpoint answers 400, 404, 415 or 501 to the stream: one blocking call.
CannotStream(c) ==
    /\ pc[c] = "stream" /\ ~heard[c] /\ parts[c] = [i \in Indexes |-> NoPart]
    /\ stop[c] = "" /\ bad[c] = 0
    /\ Settle(c, "chat")
    /\ UNCHANGED <<parts, stop, bad, heard, handed, breaker, now>>

\* A piece of prose is handed out at once.
Token(c) ==
    /\ pc[c] = "stream" /\ ~heard[c]
    /\ heard' = [heard EXCEPT ![c] = TRUE]
    /\ UNCHANGED <<pc, parts, stop, bad, handed, breaker, now>>

\* A tool call is announced by its name, then its arguments come in fragments.
Announce(c, i) ==
    /\ pc[c] = "stream" /\ stop[c] = "" /\ parts[c][i] = NoPart
    /\ parts' = [parts EXCEPT ![c][i].named = TRUE]
    /\ UNCHANGED <<pc, stop, bad, heard, handed, breaker, now>>

Fragment(c, i) ==
    /\ pc[c] = "stream" /\ stop[c] = "" /\ parts[c][i].named
    /\ parts[c][i].args # "whole"
    /\ \E a \in {"part", "whole"} : parts' = [parts EXCEPT ![c][i].args = a]
    /\ UNCHANGED <<pc, stop, bad, heard, handed, breaker, now>>

\* The provider says why it stops: at the end of its turn every call it
\* announced is whole, at its token budget the last one may be cut anywhere.
Stops(c) ==
    /\ pc[c] = "stream" /\ stop[c] = ""
    /\ \/ /\ \A i \in Indexes : parts[c][i].named => parts[c][i].args = "whole"
          /\ stop' = [stop EXCEPT ![c] = "end"]
       \/ stop' = [stop EXCEPT ![c] = "length"]
    /\ UNCHANGED <<pc, parts, bad, heard, handed, breaker, now>>

\* An event that does not parse is skipped, one too many ends the stream.
Malformed(c) ==
    /\ pc[c] = "stream"
    /\ bad' = [bad EXCEPT ![c] = @ + 1]
    /\ IF bad[c] + 1 > MaxBad THEN Raise(c, FALSE) ELSE UNCHANGED <<pc, breaker>>
    /\ UNCHANGED <<parts, stop, heard, handed, now>>

\* An error event, a reset connection, a line or a stream over its size.
Breaks(c) ==
    /\ pc[c] = "stream"
    /\ \E transient \in BOOLEAN : Raise(c, transient)
    /\ UNCHANGED <<parts, stop, bad, heard, handed, now>>

\* Arguments that do not parse are handed out as raw text, which no tool takes;
\* a call whose fragments never came is handed out with no arguments.
Assembled(c) ==
    [i \in {j \in Indexes : parts[c][j].named} |->
        CASE parts[c][i].args = "none" -> "empty"
          [] parts[c][i].args = "part" -> "raw"
          [] OTHER -> "whole"]

\* Slip: the reason of the stop is not looked at.
NeverCut(c) == FALSE

CutByBudget(c) == stop[c] = "length" /\ \E i \in Indexes : parts[c][i] # NoPart

\* The stream ends, with or without a reason; nothing tells a whole turn from
\* one whose connection was closed between two events.
Ends(c) ==
    /\ pc[c] = "stream"
    /\ IF CutByBudget(c)
       THEN Raise(c, FALSE) /\ UNCHANGED handed
       ELSE /\ handed' = [handed EXCEPT ![c] = Assembled(c)]
            /\ Settle(c, "done") /\ Succeed
    /\ UNCHANGED <<parts, stop, bad, heard, now>>

\* The caller closes the stream (a barge-in): it counts for nothing.
Drop(c) ==
    /\ pc[c] = "stream"
    /\ Settle(c, "dropped")
    /\ UNCHANGED <<parts, stop, bad, heard, handed, breaker, now>>

Tick ==
    /\ now < MaxTime
    /\ now' = now + 1
    /\ UNCHANGED <<callVars, breaker>>

Next ==
    \/ \E c \in Calls :
         \/ Begin(c) \/ ChatReturns(c) \/ ChatRaises(c) \/ CannotStream(c)
         \/ Token(c) \/ Stops(c) \/ Malformed(c) \/ Breaks(c) \/ Ends(c) \/ Drop(c)
         \/ \E i \in Indexes : Announce(c, i) \/ Fragment(c, i)
    \/ Tick

Spec == Init /\ [][Next]_vars

-----------------------------------------------------------------------------

TypeOK ==
    /\ pc \in [Calls -> {"idle", "stream", "chat", "done", "failed", "refused", "dropped"}]
    /\ parts \in [Calls -> [Indexes -> [named : BOOLEAN, args : {"none", "part", "whole"}]]]
    /\ stop \in [Calls -> {"", "end", "length"}]
    /\ bad \in [Calls -> 0..(MaxBad + 1)]
    /\ failures \in 0..Cardinality(Calls)
    /\ now \in 0..MaxTime

(* A turn that the token budget stopped while it was calling a tool hands out   *)
(* no call at all, not even the ones that look whole                            *)
(* (openai_compat.py:584-589, anthropic_compat.py:668-673).                     *)
NoCallOutOfBudget ==
    \A c \in Calls : stop[c] = "length" => handed[c] = <<>>

(* The circuit is open only for a provider that is down: the last Threshold     *)
(* outcomes it counted are failures, whichever calls they came from, and no     *)
(* call that was dropped or refused is among them.                              *)
OpenHasACause ==
    Open => /\ Len(history) >= Threshold
            /\ \A k \in (Len(history) - Threshold + 1)..Len(history) : ~history[k]

(* Claimed of the assembled calls (base.py:89-90, without ever guessing         *)
(* executable args): the arguments of a call are the ones the model streamed.   *)
(* Does not hold: a stream that ends after the name gives the call none.        *)
NeverGuessed ==
    \A c \in Calls : \A i \in DOMAIN handed[c] : handed[c][i] # "empty"
=============================================================================
