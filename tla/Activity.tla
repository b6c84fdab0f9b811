------------------------------ MODULE Activity ------------------------------
(* One span of the activity ledger: a row of the control store, a buffer of   *)
(* text not yet on disk, and what a browser shows of it (rau/activity.py,     *)
(* rau/control/store.py, web/src/activity.ts).  The worker that owns the span *)
(* adds to it and finishes it; a person may pause and resume the job at any   *)
(* moment, which writes to the same span.  Events reach the browser in the    *)
(* order they were sent, unless the bus evicts them from a full queue or the  *)
(* connection breaks; a snapshot it asks for may be applied long after.       *)
EXTENDS Integers, SequencesExt

CONSTANTS
    Writers,    \* threads that add to the span: its owner and those that pause it
    MaxDeltas,  \* bound: additions
    MaxFetches, \* bound: snapshots the browser asks for
    MaxGaps,    \* bound: events evicted, connections broken and made
    MaxCrashes  \* bound: restarts of the hub

VARIABLES
    row,      \* the span on disk: [status, text, rev]
    buffer,   \* text in memory, or NoBuffer
    lock,     \* the writer inside delta, 0 when there is none
    sending,  \* per writer: the row it is about to send, or NoSpan
    ending,   \* the owner's finish: "no", "popped", "stored", "done"
    popped,   \* the buffer the finish took
    asked,   \* whether a pause has found the job active and has yet to write so
    last,     \* text the finish stored, 0 before
    linked,   \* whether the browser is connected
    shown,    \* what the browser shows, or NoSpan
    wire,     \* events on their way to it: in the bus, the socket's queue, the socket
    fetched,  \* snapshots on their way to it, each with the gaps before it
    gaps,     \* how often the browser may have missed events so far
    seen,     \* the gaps that a snapshot it has applied came after
    deltas, fetches, crashes

span == <<row, buffer, lock, sending, ending, popped, asked, last>>
browser == <<linked, shown, wire, fetched, gaps, seen>>
bounds == <<deltas, fetches, crashes>>
vars == <<span, browser, bounds>>

NoBuffer == 0
NoSpan == [status |-> "none", text |-> 0, rev |-> 0]
Active == {"running"}
Terminal == {"completed", "interrupted"}

\* Slip: what comes last is shown.
TakeLatest(s) == s

\* merge: an item replaces what is shown unless its revision is older.
Merge(s) == IF shown = NoSpan \/ s.rev >= shown.rev THEN s ELSE shown

\* emit: for a browser that is connected.
Send(s) == wire' = IF linked THEN Append(wire, s) ELSE wire

\* create_activity_span
Created == [status |-> "running", text |-> 1, rev |-> 1]

\* update_activity_span: what is changed, and one revision more.
Updated(status, text) == [status |-> status, text |-> text, rev |-> row.rev + 1]

\* list_activity: of one span, its row.
Listed == {[span |-> row, since |-> gaps]}

\* ActivityManager.start: the row, then the buffer, then the event.
Init ==
    /\ row = Created
    /\ buffer = 1 /\ lock = 0 /\ ending = "no" /\ popped = NoBuffer /\ last = 0 /\ asked = FALSE
    /\ sending = [w \in Writers |-> NoSpan]
    /\ linked = TRUE /\ wire = <<>> /\ fetched = {} /\ gaps = 0 /\ seen = 0
    /\ shown = row
    /\ deltas = 0 /\ fetches = 0 /\ crashes = 0

-----------------------------------------------------------------------------
(* Adding to the span *)

\* pause_job finds the job active, leaves the jobs' lock and goes on to write.
Pause ==
    /\ ending = "no" /\ ~asked
    /\ asked' = TRUE
    /\ UNCHANGED <<row, buffer, lock, sending, ending, popped, last, browser, bounds>>

\* delta, under the lock: a buffer is made from the row when there is none,
\* the text is replaced, and it goes to disk when enough time has passed or the
\* writer insists; the row is read back either way.
Delta(w) ==
    /\ deltas < MaxDeltas
    /\ lock = 0 /\ sending[w] = NoSpan
    /\ (w = 1 => ending = "no")
    /\ (w # 1 => asked)
    /\ asked' = (asked /\ w = 1)
    /\ deltas' = deltas + 1
    /\ lock' = w
    /\ buffer' = deltas + 2
    /\ \/ row' = Updated(row.status, deltas + 2)
       \/ w = 1 /\ UNCHANGED row
    /\ sending' = [sending EXCEPT ![w] = [row' EXCEPT !.text = deltas + 2]]
    /\ UNCHANGED <<ending, popped, last, browser, fetches, crashes>>

\* Still under the lock, the event goes out, unless one went out just before.
DeltaSends(w) ==
    /\ lock = w
    /\ \/ Send(sending[w])
       \/ w = 1 /\ UNCHANGED wire
    /\ lock' = 0
    /\ sending' = [sending EXCEPT ![w] = NoSpan]
    /\ UNCHANGED <<row, buffer, ending, popped, asked, last, linked, shown, fetched, gaps, seen,
                   bounds>>

\* finish takes the buffer under the lock ...
FinishPops ==
    /\ ending = "no" /\ lock = 0
    /\ ending' = "popped" /\ popped' = buffer /\ buffer' = NoBuffer
    /\ UNCHANGED <<row, lock, sending, asked, last, browser, bounds>>

\* ... stores the end of the span without it, with a last text or the buffer's ...
FinishStores ==
    /\ ending = "popped"
    /\ \E text \in {99} \cup ({popped} \ {NoBuffer}) :
         /\ row' = Updated("completed", text)
         /\ last' = text
    /\ sending' = [sending EXCEPT ![1] = row']
    /\ ending' = "stored"
    /\ UNCHANGED <<buffer, lock, popped, asked, browser, bounds>>

\* ... and sends it.
FinishSends ==
    /\ ending = "stored"
    /\ Send(sending[1])
    /\ sending' = [sending EXCEPT ![1] = NoSpan]
    /\ ending' = "done"
    /\ UNCHANGED <<row, buffer, lock, popped, asked, last, linked, shown, fetched, gaps, seen,
                   bounds>>

-----------------------------------------------------------------------------
(* The browser *)

\* The socket takes the oldest event of its queue and the page merges it.
Hear ==
    /\ wire # <<>>
    /\ shown' = Merge(Head(wire))
    /\ wire' = Tail(wire)
    /\ UNCHANGED <<span, linked, fetched, gaps, seen, bounds>>

\* deliver: other events fill the queue, and one of this span is the oldest in it; what
\* left the queue before may not have arrived.  Nothing tells the page.
Evict ==
    /\ gaps < MaxGaps
    /\ \E i \in DOMAIN wire : wire' = RemoveAt(wire, i)
    /\ gaps' = gaps + 1
    /\ UNCHANGED <<span, linked, shown, fetched, seen, bounds>>

\* hydrate, ensureTurn and ensureJob ask for spans and are answered with the rows of that moment.
Fetch ==
    /\ fetches < MaxFetches
    /\ fetches' = fetches + 1
    /\ fetched' = fetched \cup Listed
    /\ UNCHANGED <<span, linked, shown, wire, gaps, seen, deltas, crashes>>

Apply ==
    /\ \E s \in fetched :
         /\ shown' = Merge(s.span)
         /\ fetched' = fetched \ {s}
         /\ seen' = IF s.since > seen THEN s.since ELSE seen
    /\ UNCHANGED <<span, linked, wire, gaps, bounds>>

\* The answer is an error, or there are so many later spans that this one is not in it.
Unanswered ==
    /\ \E s \in fetched : fetched' = fetched \ {s}
    /\ UNCHANGED <<span, linked, shown, wire, gaps, seen, bounds>>

\* The connection breaks; the page, and answers on their way to it, live on.
Unlink == linked' = FALSE /\ wire' = <<>>

Disconnect ==
    /\ linked /\ gaps < MaxGaps
    /\ Unlink
    /\ UNCHANGED <<span, shown, fetched, gaps, seen, bounds>>

\* The hub restarts: spans that were active are interrupted.
Crash ==
    /\ crashes < MaxCrashes
    /\ crashes' = crashes + 1
    /\ row' = IF row.status \in Active
              THEN [row EXCEPT !.status = "interrupted", !.rev = @ + 1] ELSE row
    /\ buffer' = NoBuffer /\ lock' = 0 /\ ending' = "done" /\ asked' = FALSE
    /\ sending' = [w \in Writers |-> NoSpan]
    /\ Unlink
    /\ UNCHANGED <<popped, last, shown, fetched, gaps, seen, deltas, fetches>>

\* A connection starts with a fetch of its own; what was sent without one is missed.
Connect ==
    /\ ~linked
    /\ linked' = TRUE
    /\ gaps' = gaps + 1
    /\ fetched' = fetched \cup {[span |-> row, since |-> gaps + 1]}
    /\ UNCHANGED <<span, shown, wire, seen, bounds>>

Next ==
    \/ \E w \in Writers : Delta(w) \/ DeltaSends(w)
    \/ Pause \/ FinishPops \/ FinishStores \/ FinishSends
    \/ Hear \/ Evict \/ Fetch \/ Apply \/ Unanswered \/ Disconnect \/ Crash \/ Connect

Spec == Init /\ [][Next]_vars

-----------------------------------------------------------------------------

TypeOK ==
    /\ row.status \in Active \cup Terminal /\ row.rev >= 1
    /\ lock \in Writers \cup {0}
    /\ ending \in {"no", "popped", "stored", "done"}
    /\ shown.status \in Active \cup Terminal

Silent == wire = <<>> /\ \A w \in Writers : sending[w] = NoSpan

(* A connected browser that has had a snapshot since it last missed anything, and *)
(* to which no event is on its way, shows the state the ledger has: no span it    *)
(* shows as running is over, whatever order an addition, the end, a snapshot and  *)
(* a restart came in.                                                             *)
StatusAgrees == linked /\ seen = gaps /\ Silent => shown.status = row.status

(* Nor does one without that snapshot.  Does not hold: the end of a span that is  *)
(* evicted from the socket's queue (events.py:32-44) is shown again only to a     *)
(* page that asks, and a connected one asks when its user opens the turn or the   *)
(* job, or when it connects anew (activity.ts:104-106).                           *)
EndIsShown == linked /\ fetched = {} /\ Silent => shown.status = row.status

(* The text a span was finished with is the text it keeps.  Does not hold: a    *)
(* pause that found the job active writes its own text after the end            *)
(* (orchestrator.py:452-465).                                                   *)
LastWordStands == last # 0 => row.text = last
=============================================================================
