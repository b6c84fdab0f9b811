------------------------------ MODULE MacInput ------------------------------
(***************************************************************************)
(* How one input action reaches the Mac (execute_action of                 *)
(* rau/computer/cua.py): its events are posted one by one through Quartz,  *)
(* with cliclick or AppleScript to fall back on, and a cancel event may be *)
(* set between two of them.                                                *)
(*                                                                         *)
(* A text is a sequence of chunks, a drag a number of steps.  Quartz may   *)
(* be missing, and may fail at any chunk or step.                          *)
(***************************************************************************)
EXTENDS Integers, Sequences, SequencesExt

CONSTANTS
    Chunks, \* chunks of a text
    Steps   \* DRAG_STEPS

VARIABLES
    kind,   \* the action
    verify, \* auto_verify
    quartz, \* is Quartz there?
    at,     \* place of the call
    i,      \* chunks typed, or steps moved, by the loop that runs
    cancel, \* the cancel event
    typed,  \* chunks the focused field received
    button, \* is the mouse button down?
    dropped,\* where on its way the drag was let go; -1: nowhere
    result  \* what is returned, "" while it runs

vars == <<kind, verify, quartz, at, i, cancel, typed, button, dropped, result>>
action == <<kind, verify, quartz>>

Kinds == {"click", "type", "key", "drag", "wait", "bad"}
VERIFY_ACTIONS == {"click", "type", "key", "drag"}

Init ==
    /\ kind \in Kinds /\ verify \in BOOLEAN /\ quartz \in BOOLEAN
    /\ at = "check" /\ i = 0 /\ cancel = FALSE /\ typed = <<>>
    /\ button = FALSE /\ dropped = -1 /\ result = ""

Cancel ==
    /\ ~cancel /\ result = "" /\ cancel' = TRUE
    /\ UNCHANGED <<action, at, i, typed, button, dropped, result>>

Goto(place) == at' = place /\ UNCHANGED result
\* a picture follows an action that went well, when one is asked for
End(r) == IF r = "ok" /\ verify /\ kind \in VERIFY_ACTIONS THEN Goto("verify")
          ELSE at' = "end" /\ result' = r

Check ==
    /\ at = "check"
    /\ CASE cancel -> End("cancelled")
         [] ~cancel /\ kind = "bad" -> End("error")
         [] ~cancel /\ kind = "type" -> Goto(IF quartz THEN "quartz" ELSE "script")
         [] ~cancel /\ kind = "drag" /\ ~quartz -> End("error")
         [] ~cancel /\ kind = "drag" /\ quartz -> Goto("press")
         [] OTHER -> Goto("once")
    /\ UNCHANGED <<action, i, cancel, typed, button, dropped>>

\* click, key and wait: one step, by whatever does it
Once ==
    /\ at = "once"
    /\ \/ End("ok")
       \/ End("error")
       \/ kind = "wait" /\ cancel /\ End("cancelled")
    /\ UNCHANGED <<action, i, cancel, typed, button, dropped>>

\* one turn of a loop over the chunks
TypeChunk(failure) ==
    /\ IF i = Chunks THEN End("ok") /\ UNCHANGED <<i, typed>>
       ELSE IF cancel THEN End("cancelled") /\ UNCHANGED <<i, typed>>
       ELSE \/ typed' = Append(typed, i + 1) /\ i' = i + 1 /\ UNCHANGED <<at, result>>
            \/ failure
    /\ UNCHANGED <<action, cancel, button, dropped>>

\* _type_text: AppleScript types the text from its start
Restart == i' = 0

TypeQuartz == at = "quartz" /\ TypeChunk(Goto("script") /\ Restart /\ UNCHANGED typed)
TypeScript == at = "script" /\ TypeChunk(End("error") /\ UNCHANGED <<i, typed>>)

Press ==
    /\ at = "press"
    /\ \/ button' = TRUE /\ Goto("drag")
       \/ End("error") /\ UNCHANGED button
    /\ UNCHANGED <<action, i, cancel, typed, dropped>>

\* Slip: a cancelled drag is let go at its destination.
LetGoThere == Steps
\* the last point the drag was moved to
LetGo == i

\* Quartz fails on the way: the drag is refused, and nothing lifts the button.
DragFails ==
    /\ at = "drag" /\ End("error")
    /\ UNCHANGED <<action, i, cancel, typed, button, dropped>>

Drag ==
    /\ at = "drag"
    /\ IF i < Steps /\ ~cancel
       THEN i' = i + 1 /\ UNCHANGED <<at, result, button, dropped>>
       ELSE /\ button' = FALSE /\ UNCHANGED i
            /\ dropped' = IF i < Steps THEN LetGo ELSE Steps
            /\ End(IF i < Steps THEN "cancelled" ELSE "ok")
    /\ UNCHANGED <<action, cancel, typed>>

\* _attach_verify: a result that is not verified is still the result of an action done
Verify ==
    /\ at = "verify" /\ at' = "end"
    /\ \/ ~cancel /\ result' = "ok"
       \/ result' = "unverified"
    /\ UNCHANGED <<action, i, cancel, typed, button, dropped>>

Next == Cancel \/ Check \/ Once \/ TypeQuartz \/ TypeScript \/ Press \/ Drag \/ DragFails
        \/ Verify

Spec == Init /\ [][Next]_vars

-----------------------------------------------------------------------------
(* Properties.                                                             *)

TypeOK ==
    /\ at \in {"check", "once", "quartz", "script", "press", "drag", "verify", "end"}
    /\ i \in (0..Chunks) \cup (0..Steps) /\ dropped \in -1..Steps
    /\ result \in {"", "ok", "unverified", "cancelled", "error"}

\* A drag ends at its destination exactly when nothing stopped it on the way there, and then,
\* when it was cancelled, and when there is no Quartz, with the button up.
DragStopsWhereItIs ==
    kind = "drag" /\ at = "end" =>
        /\ result # "error" \/ ~quartz => ~button
        /\ result \in {"ok", "unverified"} <=> dropped = Steps
        /\ result = "error" => dropped = -1

\* A refused drag leaves nothing behind ("Refusing means doing nothing").  Does not hold: an
\* exception after the button went down is answered the same way (cua.py:637-645).
RefusedIsUndone == kind = "drag" /\ result = "error" => ~button

\* Every chunk of a text is typed at most once.
TypedOnce == IsInjective(typed)

=============================================================================
