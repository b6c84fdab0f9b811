------------------------------ MODULE EventBus ------------------------------
(***************************************************************************)
(* The event bus (rau/events.py) between the threads that change the       *)
(* shared state (rau/state.py) and one event socket (/ws of hub/server.py) *)
(* whose browser mirrors it.                                               *)
(*                                                                         *)
(* A thread writes the state, then emits what it wrote: the event joins    *)
(* the history and finds its listeners under the bus's lock, and reaches   *)
(* the queue of a socket when that socket's loop runs the delivery.  The   *)
(* state is a version; an event carries the version its thread wrote.      *)
(***************************************************************************)
EXTENDS Integers, Sequences, FiniteSets

CONSTANTS
    Writers,     \* threads that change the state
    MaxVersion,  \* bound: changes
    QueueSize,   \* ASYNC_QUEUE_SIZE
    HistorySize, \* length of the history
    MaxSockets   \* bound: times the browser connects

VARIABLES
    version,   \* what the state holds
    wrote,     \* the version a thread has written and not emitted; 0: none
    history,   \* EventBus._history
    calls,     \* deliveries the loop has not run, first come first run
    subscribed,\* is the socket's queue known to the bus?
    queue,     \* events of the socket
    socket,    \* place of the socket's coroutine
    sockets,   \* connections made
    view       \* the version the browser shows

vars == <<version, wrote, history, calls, subscribed, queue, socket, sockets, view>>
socketVars == <<subscribed, queue, socket, sockets, view>>

Init ==
    /\ version = 0 /\ wrote = [w \in Writers |-> 0]
    /\ history = <<>> /\ calls = <<>>
    /\ subscribed = FALSE /\ queue = <<>> /\ socket = "none" /\ sockets = 0 /\ view = 0

\* a change of the state, under the lock of state.py
Write(w) ==
    /\ wrote[w] = 0 /\ version < MaxVersion
    /\ version' = version + 1
    /\ wrote' = [wrote EXCEPT ![w] = version + 1]
    /\ UNCHANGED <<history, calls, socketVars>>

\* Slip: one event more than the size is kept.
KeptAndOne(s, size) == SubSeq(s, Len(s) - size, Len(s))

\* the newest events of a bounded sequence
Kept(s, size) == SubSeq(s, Len(s) - size + 1, Len(s))
Bounded(s, size) == IF Len(s) > size THEN Kept(s, size) ELSE s

Emit(w) ==
    /\ wrote[w] # 0
    /\ history' = Bounded(Append(history, wrote[w]), HistorySize)
    /\ calls' = IF subscribed THEN Append(calls, wrote[w]) ELSE calls
    /\ wrote' = [wrote EXCEPT ![w] = 0]
    /\ UNCHANGED <<version, socketVars>>

\* deliver: a full queue drops its oldest event (the queue of a gone socket is not read again)
Deliver ==
    /\ calls # <<>> /\ calls' = Tail(calls)
    /\ queue' = IF subscribed THEN Bounded(Append(queue, Head(calls)), QueueSize) ELSE queue
    /\ UNCHANGED <<version, wrote, history, subscribed, socket, sockets, view>>

SocketStep == UNCHANGED <<version, wrote, history, calls>>

\* the queue is known before the first snapshot is taken
Connect ==
    /\ socket = "none" /\ sockets < MaxSockets
    /\ sockets' = sockets + 1 /\ subscribed' = TRUE /\ socket' = "hello"
    /\ SocketStep /\ UNCHANGED <<queue, view>>

Hello ==
    /\ socket = "hello" /\ socket' = "waits" /\ view' = version
    /\ SocketStep /\ UNCHANGED <<subscribed, queue, sockets>>

Receive ==
    /\ socket = "waits" /\ queue # <<>>
    /\ view' = Head(queue) /\ queue' = Tail(queue)
    /\ SocketStep /\ UNCHANGED <<subscribed, socket, sockets>>

\* Slip: the ping is only a ping.
PingBare ==
    /\ socket = "waits" /\ queue = <<>>
    /\ SocketStep /\ UNCHANGED socketVars

\* fifteen seconds without an event: the whole status is sent again
Ping ==
    /\ socket = "waits" /\ queue = <<>>
    /\ view' = version
    /\ SocketStep /\ UNCHANGED <<subscribed, queue, socket, sockets>>

\* the client vanishes in the middle of a send
Disconnect ==
    /\ socket # "none" /\ socket' = "none"
    /\ subscribed' = FALSE /\ queue' = <<>>
    /\ SocketStep /\ UNCHANGED <<sockets, view>>

Next ==
    \/ \E w \in Writers : Write(w) \/ Emit(w)
    \/ Deliver \/ Connect \/ Hello \/ Receive \/ Ping \/ Disconnect

\* Threads finish their emit, the loop runs what is scheduled and the socket what it waits for.
Fairness ==
    /\ \A w \in Writers : WF_vars(Emit(w))
    /\ WF_vars(Deliver) /\ WF_vars(Hello) /\ WF_vars(Receive) /\ WF_vars(Ping)

Spec == Init /\ [][Next]_vars /\ Fairness

-----------------------------------------------------------------------------
TypeOK ==
    /\ version \in 0..MaxVersion /\ view \in 0..MaxVersion
    /\ wrote \in [Writers -> 0..MaxVersion]
    /\ Len(queue) <= QueueSize /\ Len(history) <= HistorySize
    /\ socket \in {"none", "hello", "waits"} /\ subscribed = (socket # "none")

Away == socket = "none"
UpToDate == socket # "none" => view = version

\* Whatever order the threads' events arrive in, and whichever of them a full queue dropped, a
\* browser that stays connected comes to show the state as it is.
Mirrors == <>[]Away \/ []<>UpToDate
=============================================================================
