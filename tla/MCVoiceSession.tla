--------------------------- MODULE MCVoiceSession ---------------------------
(* The voice session with the values of its configurations. *)
EXTENDS VoiceSession

Script(u, t, commands) == [utterances |-> u, turns |-> t, commands |-> commands]

\* two utterances and two turns of plain conversation; everything else beside one of each
Conversations == {Script(2, 2, {"speech", "end"}),
                  Script(2, 1, {"speech", "end", "barge"}),
                  Script(1, 1, {"speech", "end", "stop", "drop", "close", "barge", "text", "chat"})}

\* a reply to a typed text between two utterances
TextBetween == {Script(2, 1, {"speech", "end", "text"})}
=============================================================================
