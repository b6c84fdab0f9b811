---------------------------- MODULE RealtimeTts ----------------------------
(***************************************************************************)
(* Streaming speech (rau/voice/tts_stream.py): one reply spoken through    *)
(* the provider's socket by speak_realtime_stream, with its fallback to    *)
(* the HTTP endpoint, speak_stream.                                        *)
(*                                                                         *)
(* Three threads: the sender, which owns the model's tokens, cuts them     *)
(* into phrases, sends them and keeps a copy of each token for a replay;   *)
(* the socket's receiver, which sorts the provider's frames into contexts; *)
(* and the consumer, which plays what it finds in its context's queue.     *)
(*                                                                         *)
(* Every token is one phrase, numbered in the order of the reply, and the  *)
(* audio of a phrase comes in parts.  The clock is abstract: a deadline    *)
(* may pass whenever the code may look at it.                              *)
(***************************************************************************)
EXTENDS Integers, Sequences, SequencesExt

CONSTANTS
    MaxPhrases, \* bound: phrases in a reply
    Parts       \* audio frames of a phrase


End == 0 \* replay_end
FINAL == "final"
ERROR == "error"

VARIABLES
    plan,    \* phrases the model writes before it stops
    breaks,  \* does its stream end in an exception?
    fx,      \* is there a voice effect, which holds a phrase until it is complete?
    cancel,  \* the turn's cancel event
    socket,  \* is the socket open (_ws)?
    context, \* does the session know the context of this reply?
    provider,\* the provider: what it has to synthesise, in order
    messages,\* frames of the context the consumer has not read
    sender,  \* place of the sender
    taken,   \* tokens taken from the model
    broken,  \* sender_error
    fallback,\* fallback_mode
    replay,  \* tokens kept for the replay
    main,    \* place of the consumer
    received,\* received_audio
    held,    \* frames in the voice effect
    http,    \* speak_stream: the phrase, its next part, is it at the plain endpoint?
    heard    \* what was played

reply == <<plan, breaks, fx>>
threads == <<socket, context, provider, messages>>
senders == <<sender, taken, broken, replay>>
consumer == <<main, received, held, http, heard>>
vars == <<reply, cancel, threads, senders, fallback, consumer>>

Audio(n) == [i \in 1..Parts |-> <<n, i>>]
Idle == [phrase |-> 0, part |-> 1, plain |-> FALSE]

Init ==
    /\ plan \in 0..MaxPhrases /\ breaks \in BOOLEAN /\ fx \in BOOLEAN /\ cancel = FALSE
    /\ socket \in BOOLEAN /\ context = FALSE /\ provider = <<>> /\ messages = <<>>
    /\ sender = "none" /\ taken = 0 /\ broken = FALSE /\ replay = <<>>
    /\ fallback = FALSE
    /\ main = "open" /\ received = FALSE /\ held = <<>> /\ http = Idle /\ heard = <<>>

first_phrase_sent == sender # "none" /\ taken > 0
sender_done == sender = "done"
Emitted == heard # <<>>

Cancel ==
    /\ ~cancel /\ cancel' = TRUE
    /\ UNCHANGED <<reply, threads, senders, fallback, consumer>>

-----------------------------------------------------------------------------
(* Opening: no token is taken before the transport is known to work.       *)

\* ensure: an open socket is reused, else one is connected, or cannot be.
Ensure ==
    /\ main = "open"
    /\ \/ main' = "register" /\ socket' = TRUE
       \/ ~socket /\ main' = "http" /\ UNCHANGED socket
    /\ UNCHANGED <<reply, cancel, context, provider, messages, senders, fallback>>
    /\ UNCHANGED <<received, held, http, heard>>

\* open_context: the socket may have died since; the first send may fail.
Register ==
    /\ main = "register"
    /\ \/ socket /\ context' = TRUE /\ main' = "listen" /\ sender' = "next"
       \/ main' = "http" /\ UNCHANGED <<context, sender>>
    /\ UNCHANGED <<reply, cancel, socket, provider, messages, taken, broken, replay>>
    /\ UNCHANGED <<fallback, received, held, http, heard>>

-----------------------------------------------------------------------------
(* The socket and the provider.                                            *)

\* a frame reaches the queue of a context that is still known, and no other is waited for
Deliver(frame) == messages' = IF context THEN Append(messages, frame) ELSE messages
\* close_context: what the provider still makes of it is dropped
CloseContext == context' = FALSE /\ provider' = <<>>
ProviderStep == UNCHANGED <<reply, cancel, senders, fallback, consumer>>

Synthesise ==
    /\ socket /\ provider # <<>>
    /\ Deliver(Head(provider)) /\ provider' = Tail(provider)
    /\ UNCHANGED <<socket, context>> /\ ProviderStep

\* a context that fails, or that ends without a sound
ProviderFails ==
    /\ socket /\ context /\ <<ERROR>> \notin Range(messages)
    /\ \/ Deliver(<<ERROR>>) /\ provider' = <<>>
       \/ /\ provider = FlattenSeq([n \in 1..taken |-> Audio(n)]) \o <<<<FINAL>>>>
          /\ Deliver(<<FINAL>>) /\ provider' = <<>>
    /\ UNCHANGED <<socket, context>> /\ ProviderStep

\* _receive: the loop ends; under the lock every context of the socket is failed
SocketDies ==
    /\ socket /\ socket' = FALSE /\ provider' = <<>>
    /\ context' = FALSE /\ Deliver(<<ERROR>>)
    /\ ProviderStep

-----------------------------------------------------------------------------
(* The sender.                                                             *)

SenderStep == UNCHANGED <<reply, cancel, messages, socket, consumer>>

\* Slip: the end of the replay is only marked when everything was sent.
LeaveBare == sender' = "done" /\ replay' = IF broken THEN replay ELSE Append(replay, End)

\* the exit of the thread, whichever way it leaves
Leave == sender' = "done" /\ replay' = Append(replay, End)

Take ==
    /\ sender = "next"
    /\ \/ cancel /\ Leave /\ UNCHANGED <<taken, broken, fallback, context, provider>>
       \/ /\ ~cancel /\ taken < plan
          /\ taken' = taken + 1 /\ replay' = Append(replay, taken + 1)
          /\ sender' = IF fallback THEN "next" ELSE "send"
          /\ UNCHANGED <<broken, fallback, context, provider>>
       \/ /\ taken = plan /\ ~breaks
          /\ IF fallback THEN Leave ELSE sender' = "flush" /\ UNCHANGED replay
          /\ UNCHANGED <<taken, broken, fallback, context, provider>>
       \/ /\ taken = plan /\ breaks
          /\ sender' = "pump" /\ broken' = (broken \/ ~fallback)
          /\ fallback' = TRUE /\ CloseContext
          /\ UNCHANGED <<taken, replay>>
    /\ SenderStep

\* an exception of a send, or of the source: the rest of the tokens go to the replay alone
SendFails ==
    /\ sender \in {"send", "flush"} /\ sender' = "pump"
    /\ broken' = (broken \/ ~fallback)
    /\ fallback' = TRUE /\ CloseContext
    /\ UNCHANGED <<taken, replay>> /\ SenderStep

\* text and, at the end, flush_context and finish_context
Send ==
    /\ sender \in {"send", "flush"} /\ context /\ socket
    /\ provider' = IF sender = "send" THEN provider \o Audio(taken)
                   ELSE IF taken > 0 THEN Append(provider, <<FINAL>>) ELSE provider
    /\ IF sender = "send" THEN sender' = "next" /\ UNCHANGED replay ELSE Leave
    /\ UNCHANGED <<taken, broken, fallback, context>> /\ SenderStep

Pump ==
    /\ sender = "pump"
    /\ IF ~cancel /\ taken < plan
       THEN taken' = taken + 1 /\ replay' = Append(replay, taken + 1) /\ UNCHANGED sender
       ELSE Leave /\ UNCHANGED taken
    /\ UNCHANGED <<broken, fallback, context, provider>> /\ SenderStep

-----------------------------------------------------------------------------
(* The consumer, while it listens to the socket.                           *)

ListenStep == UNCHANGED <<reply, cancel, socket, senders, http>>
\* the loop is left: its queue is read no more
LeaveLoop == CloseContext /\ messages' = <<>>

\* Slip: the fallback is allowed while nothing of the last phrase was played.
FailAfterPhrase ==
    /\ LeaveLoop
    /\ IF Emitted' /\ Last(heard')[2] # Parts THEN main' = "failed" /\ UNCHANGED fallback
       ELSE main' = "http" /\ fallback' = TRUE

\* a failure before any audio is replayed over HTTP; after it, it surfaces
Fail ==
    /\ LeaveLoop
    /\ IF Emitted' THEN main' = "failed" /\ UNCHANGED fallback
       ELSE main' = "http" /\ fallback' = TRUE

\* the end of the loop: what the effect still holds is played
Finish ==
    /\ heard' = heard \o held /\ held' = <<>>
    /\ IF broken THEN Fail ELSE main' = "done" /\ LeaveLoop /\ UNCHANGED fallback

Play(frame) ==
    /\ received' = TRUE
    /\ IF fx /\ frame[2] # Parts
       THEN held' = Append(held, frame) /\ UNCHANGED heard
       ELSE heard' = heard \o Append(held, frame) /\ held' = <<>>
    /\ messages' = Tail(messages)
    /\ UNCHANGED <<main, fallback, context, provider>>

Read ==
    /\ main = "listen" /\ ~cancel /\ messages # <<>>
    /\ LET frame == Head(messages) IN
          CASE frame = <<ERROR>> -> UNCHANGED <<heard, held, received>> /\ Fail
            [] frame = <<FINAL>> /\ first_phrase_sent /\ ~received ->
                   UNCHANGED <<heard, held, received>> /\ Fail
            [] frame = <<FINAL>> /\ received -> Finish /\ UNCHANGED received
            [] OTHER -> Play(frame)
    /\ ListenStep

\* nothing has come for a while
Quiet == main = "listen" /\ ~cancel /\ messages = <<>>

\* Slip: only a phrase that was sent is waited for with a deadline.
OverdueFirst == first_phrase_sent /\ ~received

Overdue == \/ sender_done /\ broken
           \/ first_phrase_sent /\ ~received
           \/ received /\ sender_done

Deadline ==
    /\ Quiet /\ Overdue
    /\ UNCHANGED <<heard, held, received>> /\ Fail /\ ListenStep

\* a reply without a word
NothingToSay ==
    /\ Quiet /\ sender_done /\ ~broken /\ ~first_phrase_sent /\ Finish
    /\ UNCHANGED received /\ ListenStep

StopListening ==
    /\ main = "listen" /\ cancel /\ Finish
    /\ UNCHANGED received /\ ListenStep

-----------------------------------------------------------------------------
(* speak_stream, on the model's tokens or on the replay of them.           *)

HttpStep == UNCHANGED <<reply, cancel, threads, sender, broken, fallback, received>>
direct == sender = "none"

HttpTake ==
    /\ main = "http" /\ http.phrase = 0 /\ ~cancel
    /\ IF direct
       THEN /\ IF taken < plan
               THEN taken' = taken + 1 /\ http' = [Idle EXCEPT !.phrase = taken + 1]
                    /\ UNCHANGED main
               ELSE main' = (IF breaks THEN "failed" ELSE "done") /\ UNCHANGED <<taken, http>>
            /\ UNCHANGED replay
       ELSE /\ replay # <<>> /\ replay' = Tail(replay)
            /\ IF Head(replay) = End THEN main' = "done" /\ UNCHANGED http
               ELSE http' = [Idle EXCEPT !.phrase = Head(replay)] /\ UNCHANGED main
            /\ UNCHANGED taken
    /\ held' = <<>>
    /\ UNCHANGED heard /\ HttpStep

HttpChunk ==
    /\ main = "http" /\ http.phrase # 0 /\ ~cancel
    /\ LET frame == <<http.phrase, http.part>>
           last == http.part = Parts
       IN  /\ IF fx /\ ~last
              THEN held' = Append(held, frame) /\ UNCHANGED heard
              ELSE heard' = heard \o Append(held, frame) /\ held' = <<>>
           /\ http' = IF last THEN Idle ELSE [http EXCEPT !.part = @ + 1]
    /\ UNCHANGED <<main, taken, replay>> /\ HttpStep

\* synth_sentence_timed: the timed stream fails before it made a sound, or it has
HttpFails ==
    /\ main = "http" /\ http.phrase # 0
    /\ IF ~http.plain /\ http.part = 1
       THEN http' = [http EXCEPT !.plain = TRUE] /\ UNCHANGED main
       ELSE main' = "failed" /\ UNCHANGED http
    /\ UNCHANGED <<heard, held, taken, replay>> /\ HttpStep

HttpStops ==
    /\ main = "http" /\ cancel /\ main' = "done"
    /\ UNCHANGED <<http, heard, held, taken, replay>> /\ HttpStep

-----------------------------------------------------------------------------
Ended == main \in {"done", "failed"}
Rest == Ended /\ sender \in {"none", "done"} /\ UNCHANGED vars

Open == Ensure \/ Register
Provider == Synthesise \/ ProviderFails \/ SocketDies
Sender == Take \/ SendFails \/ Send \/ Pump
Listen == Read \/ Deadline \/ NothingToSay \/ StopListening
Http == HttpTake \/ HttpChunk \/ HttpFails \/ HttpStops

Next == Cancel \/ Open \/ Provider \/ Sender \/ Listen \/ Http \/ Rest

\* The threads run, the model's stream and the HTTP endpoint answer; the provider's socket
\* owes nothing, and nobody need cancel.
Fairness == WF_vars(Open) /\ WF_vars(Sender) /\ WF_vars(Listen) /\ WF_vars(Http)

Spec == Init /\ [][Next]_vars /\ Fairness

-----------------------------------------------------------------------------
(* Properties.                                                             *)

TypeOK ==
    /\ plan \in 0..MaxPhrases /\ taken \in 0..plan
    /\ main \in {"open", "register", "listen", "http", "done", "failed"}
    /\ sender \in {"none", "next", "send", "flush", "pump", "done"}
    /\ http \in [phrase : 0..MaxPhrases, part : 1..Parts, plain : BOOLEAN]

Written(n) == FlattenSeq([i \in 1..n |-> Audio(i)])

\* The user hears the reply in its order and never a part of it twice, whatever failed on
\* the way, and hears all of it when the stream ends well and was not cancelled: once the
\* socket has made a sound there is no replay, and a replay has every token.
HeardAsWritten ==
    /\ IsPrefix(heard, Written(plan))
    /\ main = "done" /\ ~cancel => heard = Written(plan)

\* A reply that is begun ends, however silent the provider.
SpeechEnds == <>Ended

\* The end of a reply whose model stream failed is a failure.
BrokenReplyFails == main = "done" /\ ~cancel => ~breaks

=============================================================================
