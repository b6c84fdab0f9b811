------------------------------ MODULE FileEdits ------------------------------
(***************************************************************************)
(* The file tools of rau/agent/tools.py and rau/agent/edit.py on one file: *)
(* read_file, write_file and edit_file, which edits only what the agent    *)
(* has read and nobody has changed since.  The stamps of what was read are *)
(* one table for the whole process; the file is stamped after it is read,  *)
(* and an edit checks, reads and writes in three steps.                    *)
(***************************************************************************)
EXTENDS Integers, FiniteSets

CONSTANTS
    Workers,    \* loops that call the tools
    MaxVersion, \* bound: contents the file takes
    Polite      \* nobody else saves the file while a tool call runs

VARIABLES
    file,  \* the version on disk
    reads, \* _reads: the version last stamped; 0 for none
    pc,
    text,  \* the version the running call read
    saw,   \* versions each worker's model was shown
    edits  \* edits made: [by, base, over]

vars == <<file, reads, pc, text, saw, edits>>

Init ==
    /\ file = 1
    /\ reads = 0
    /\ pc = [w \in Workers |-> "idle"]
    /\ text = [w \in Workers |-> 0]
    /\ saw = [w \in Workers |-> {}]
    /\ edits = {}

Goto(w, from, to) == pc[w] = from /\ pc' = [pc EXCEPT ![w] = to]

NewVersion == file < MaxVersion /\ file' = file + 1

-----------------------------------------------------------------------------

ReadFile(w) ==
    /\ Goto(w, "idle", "read")
    /\ text' = [text EXCEPT ![w] = file]
    /\ saw' = [saw EXCEPT ![w] = @ \cup {file}]
    /\ UNCHANGED <<file, reads, edits>>

\* A clipped read does not license an edit.
Clipped(w) ==
    /\ Goto(w, "read", "idle")
    /\ UNCHANGED <<file, reads, text, saw, edits>>

\* note_read(), after a read, a write and an edit: it stamps what is there now.
NoteRead(w) ==
    /\ pc[w] \in {"read", "wrote"}
    /\ pc' = [pc EXCEPT ![w] = "idle"]
    /\ reads' = file
    /\ UNCHANGED <<file, text, saw, edits>>

WriteFile(w) ==
    /\ Goto(w, "idle", "wrote")
    /\ NewVersion
    /\ saw' = [saw EXCEPT ![w] = @ \cup {file'}]
    /\ UNCHANGED <<reads, text, edits>>

\* Slip: a file that was read once may be edited.
SeenOnce == reads # 0

SeenCurrent == reads # 0 /\ reads = file

BeginEdit(w) ==
    /\ SeenCurrent
    /\ Goto(w, "idle", "seen")
    /\ UNCHANGED <<file, reads, text, saw, edits>>

ReadVerbatim(w) ==
    /\ Goto(w, "seen", "found")
    /\ text' = [text EXCEPT ![w] = file]
    /\ UNCHANGED <<file, reads, saw, edits>>

\* No match, or too many: the refusal shows the model an excerpt.
NotFound(w) ==
    /\ Goto(w, "found", "idle")
    /\ UNCHANGED <<file, reads, text, saw, edits>>

WriteVerbatim(w) ==
    /\ Goto(w, "found", "wrote")
    /\ NewVersion
    /\ edits' = edits \cup {[by |-> w, base |-> text[w], over |-> file]}
    /\ saw' = [saw EXCEPT ![w] = IF text[w] \in @ THEN @ \cup {file'} ELSE @]
    /\ UNCHANGED <<reads, text>>

\* The user, a command or another program saves the file.
SavedElsewhere ==
    /\ Polite => \A w \in Workers : pc[w] = "idle"
    /\ NewVersion
    /\ UNCHANGED <<reads, pc, text, saw, edits>>

Next ==
    \/ \E w \in Workers :
          \/ ReadFile(w) \/ Clipped(w) \/ NoteRead(w) \/ WriteFile(w)
          \/ BeginEdit(w) \/ ReadVerbatim(w) \/ NotFound(w) \/ WriteVerbatim(w)
    \/ SavedElsewhere

Spec == Init /\ [][Next]_vars

-----------------------------------------------------------------------------

TypeOK ==
    /\ file \in 1..MaxVersion /\ reads \in 0..file
    /\ pc \in [Workers -> {"idle", "read", "seen", "found", "wrote"}]
    /\ text \in [Workers -> 0..file]

\* An edit is made to contents its own worker has seen and overwrites nothing
\* else, whatever was saved between its calls.
EditsWhatItSaw ==
    \A e \in edits : e.base \in saw[e.by] /\ e.over = e.base
=============================================================================
