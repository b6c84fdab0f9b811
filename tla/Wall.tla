-------------------------------- MODULE Wall --------------------------------
(***************************************************************************)
(* The panels on the wall (rau/face/panels.py over the panels table of     *)
(* control/store.py) and the browser's list of them (web/src/panels.ts,    *)
(* live.ts, pages/Face.tsx).                                               *)
(*                                                                         *)
(* A tool call changes the wall under a lock and tells the browser after.  *)
(* A panel's body is how often each of a few texts stands in it, which is  *)
(* what a patch depends on.                                                *)
(***************************************************************************)
EXTENDS Integers, Sequences, FiniteSets

CONSTANTS
    Callers,   \* threads with a tool of the wall: the face's, a job's, a request's
    Texts,     \* what a patch may look for
    MaxPanels, \* MAX_PANELS, MAX_ON_WALL
    Unhurried, \* the events of a change are out before the next change, panels are shown one
               \* at a time, and the browser has heard of all events when it asks for the wall,
               \* and of none until the answer
    MaxShown,  \* bound: panels made
    MaxCalls,  \* bound: other calls of the wall's tools
    MaxVisits  \* bound: times the room is entered

Ids == 1..MaxShown
Bodies == [Texts -> 0..2]
None == 0

VARIABLES
    wall,    \* the rows, newest first
    made,    \* panels made so far
    calls,   \* calls made so far of the tools that make no panel
    lock,    \* _lock: who holds it
    call,    \* of each caller: its place, the body it read, the events it owes
    patched, \* history: of each panel, the texts patched away since its last rewrite
    bus,     \* events on their way to the browser
    list,    \* PanelStore.panels
    open,    \* PanelStore.open
    pending, \* PanelStore.pending
    place,   \* is the browser on the room's page?
    snapshot,\* the answer of /api/panels on its way
    visits

server == <<wall, made, calls, lock, call, patched>>
browser == <<list, open, pending, place, snapshot, visits>>
vars == <<server, bus, browser>>

NoAnswer == [state |-> "none", rows |-> <<>>]
Rest == [at |-> "idle", id |-> None, body |-> [t \in Texts |-> 0], owes |-> <<>>]

Init ==
    /\ wall = <<>> /\ made = 0 /\ calls = 0 /\ lock = None
    /\ call = [c \in Callers |-> Rest] /\ patched = [i \in Ids |-> {}]
    /\ bus = <<>> /\ list = <<>> /\ open = None /\ pending = None
    /\ place = "elsewhere" /\ snapshot = NoAnswer /\ visits = 0

Event(kind, id, rev) == [kind |-> kind, id |-> id, rev |-> rev]
On(rows, id) == \E k \in DOMAIN rows : rows[k].id = id
Row(id) == wall[CHOOSE k \in DOMAIN wall : wall[k].id = id]
\* the rows of some panels, in their order
Among(rows, ids) ==
    LET kept[k \in 0..Len(rows)] ==
            IF k = 0 THEN <<>>
            ELSE IF rows[k].id \in ids THEN Append(kept[k - 1], rows[k]) ELSE kept[k - 1]
    IN  kept[Len(rows)]
Without(rows, id) == Among(rows, Ids \ {id})
With(rows, row) == [k \in DOMAIN rows |-> IF rows[k].id = row.id THEN row ELSE rows[k]]
Shown(rows) == [k \in DOMAIN rows |-> [id |-> rows[k].id, rev |-> rows[k].rev]]
First(rows, n) == SubSeq(rows, 1, IF Len(rows) < n THEN Len(rows) ELSE n)

(***************************************************************************)
(* The tools.  A change is one hold of the lock; an edit reads the row and *)
(* writes it within one.                                                   *)
(***************************************************************************)
Owing == \E c \in Callers : call[c].owes # <<>>
Called == calls < MaxCalls /\ calls' = calls + 1
Unlocked == lock = None /\ (Unhurried => ~Owing)
MayChange(c) == call[c].at = "idle" /\ Unlocked
Owes(c, events) == call' = [call EXCEPT ![c] = [Rest EXCEPT !.at = "tells", !.owes = events]]

\* show_panel() takes the panel's time, by which the wall is ordered, before the lock: the ids
\* are in the order of the times.  What falls off the end gets an event of its own.
Kept(rows) == First(rows, MaxPanels)
Dropped(rows) == SubSeq(rows, MaxPanels + 1, Len(rows))
BeginShow(c) ==
    /\ call[c].at = "idle" /\ made < MaxShown /\ made' = made + 1
    /\ Unhurried => \A d \in Callers : call[d].at # "shows"
    /\ call' = [call EXCEPT ![c] = [Rest EXCEPT !.at = "shows", !.id = made']]
    /\ UNCHANGED <<wall, calls, lock, patched, bus, browser>>
ShowPanel(c) ==
    /\ call[c].at = "shows" /\ Unlocked
    /\ \E b \in Bodies :
        LET id == call[c].id
            rows == Among(wall, {i \in Ids : i > id})
                        \o <<[id |-> id, rev |-> 1, body |-> b]>>
                        \o Among(wall, {i \in Ids : i < id}) IN
        /\ wall' = Kept(rows)
        /\ Owes(c, [k \in DOMAIN Dropped(rows) |-> Event("closed", Dropped(rows)[k].id, 0)]
                   \o <<Event("shown", id, 1)>>)
    /\ UNCHANGED <<made, calls, lock, patched, bus, browser>>

\* update_panel(): refused if the panel is gone
BeginEdit(c) ==
    /\ MayChange(c) /\ Called /\ lock' = c
    /\ \E k \in DOMAIN wall :
        call' = [call EXCEPT ![c] = [Rest EXCEPT !.at = "edits", !.id = wall[k].id,
                                                 !.body = wall[k].body]]
    /\ UNCHANGED <<wall, made, patched, bus, browser>>

\* a patch must match once, and puts any other text in place; a rewrite, or only a title,
\* always goes.  Twice stands for any more.
Patched(b, t, new) ==
    [u \in Texts |-> LET n == new[u] + (IF u = t THEN 0 ELSE b[u]) IN IF n > 2 THEN 2 ELSE n]
Refuse(c) ==
    /\ call[c].at = "edits" /\ lock' = None /\ call' = [call EXCEPT ![c] = Rest]
    /\ UNCHANGED <<wall, made, calls, patched, bus, browser>>
Store(c, b, gone) ==
    LET row == [id |-> call[c].id, rev |-> Row(call[c].id).rev + 1, body |-> b] IN
    /\ wall' = With(wall, row) /\ patched' = [patched EXCEPT ![row.id] = gone]
    /\ Owes(c, <<Event("updated", row.id, row.rev)>>)
EndEdit(c) ==
    /\ call[c].at = "edits" /\ On(wall, call[c].id) /\ lock' = None
    /\ \/ \E t \in Texts, new \in Bodies :
            /\ call[c].body[t] = 1
            /\ Store(c, Patched(call[c].body, t, new),
                     {u \in patched[call[c].id] \union {t} : new[u] = 0})
       \/ \E b \in Bodies : Store(c, b, {})
       \/ Store(c, call[c].body, patched[call[c].id])
    /\ UNCHANGED <<made, calls, bus, browser>>

ClosePanel(c) ==
    /\ MayChange(c) /\ Called
    /\ \E k \in DOMAIN wall :
        /\ wall' = Without(wall, wall[k].id)
        /\ Owes(c, <<Event("closed", wall[k].id, 0)>>)
    /\ UNCHANGED <<made, lock, patched, bus, browser>>

ClearPanels(c) ==
    /\ MayChange(c) /\ Called /\ wall' = <<>> /\ Owes(c, <<Event("cleared", None, 0)>>)
    /\ UNCHANGED <<made, lock, patched, bus, browser>>

\* present_panel() takes no lock
PresentPanel(c) ==
    /\ call[c].at = "idle" /\ Called
    /\ \E k \in DOMAIN wall : Owes(c, <<Event("presented", wall[k].id, 0)>>)
    /\ UNCHANGED <<wall, made, lock, patched, bus, browser>>

Tell(c) ==
    /\ call[c].at = "tells" /\ (Unhurried => snapshot.state # "sent")
    /\ bus' = Append(bus, Head(call[c].owes))
    /\ call' = [call EXCEPT ![c] =
                    IF Len(@.owes) = 1 THEN Rest ELSE [@ EXCEPT !.owes = Tail(call[c].owes)]]
    /\ UNCHANGED <<wall, made, calls, lock, patched, browser>>

(***************************************************************************)
(* The browser: PanelStore, and the room which alone honours a present.    *)
(***************************************************************************)
Add(id, rev) ==
    IF On(list, id) THEN list
    ELSE First(<<[id |-> id, rev |-> rev]>> \o list, MaxPanels)
\* whoever listens in the room takes what is pending and opens it
Honour(o, p) ==
    IF place = "room" /\ p # None THEN open' = p /\ pending' = None
    ELSE open' = o /\ pending' = p
Except(x, id) == IF x = id THEN None ELSE x

Removes(id) ==
    IF ~On(list, id) /\ open # id THEN UNCHANGED <<list, open, pending>>
    ELSE list' = Without(list, id) /\ Honour(Except(open, id), Except(pending, id))
Clears ==
    IF list = <<>> /\ open = None THEN UNCHANGED <<list, open, pending>>
    ELSE list' = <<>> /\ open' = None /\ pending' = None

Hear ==
    /\ bus # <<>> /\ bus' = Tail(bus)
    /\ LET e == Head(bus) IN
        CASE e.kind = "shown" -> list' = Add(e.id, e.rev) /\ Honour(open, pending)
          [] e.kind = "updated" ->
                list' = With(list, [id |-> e.id, rev |-> e.rev]) /\ Honour(open, pending)
          [] e.kind = "closed" -> Removes(e.id)
          [] e.kind = "cleared" -> Clears
          [] OTHER -> UNCHANGED list /\ Honour(open, e.id)
    /\ UNCHANGED <<server, place, snapshot, visits>>

\* the room's page asks for the wall, and takes what was presented meanwhile
Enter ==
    /\ place = "elsewhere" /\ visits < MaxVisits /\ visits' = visits + 1 /\ place' = "room"
    /\ snapshot' = [state |-> "sent", rows |-> First(Shown(wall), MaxPanels)]
    /\ open' = (IF pending # None THEN pending ELSE open) /\ pending' = None
    /\ Unhurried => (~Owing /\ bus = <<>>)
    /\ UNCHANGED <<server, bus, list>>
ReplaceAll ==
    /\ snapshot.state = "sent" /\ snapshot' = [state |-> "came", rows |-> <<>>]
    /\ list' = snapshot.rows
    /\ Honour(open, pending)
    /\ UNCHANGED <<server, bus, place, visits>>
\* the answer never comes
FetchFails ==
    /\ snapshot.state = "sent" /\ snapshot' = NoAnswer
    /\ UNCHANGED <<server, bus, list, open, pending, place, visits>>
Wander ==
    /\ place = "room" /\ snapshot.state # "sent" /\ place' = "elsewhere"
    /\ UNCHANGED <<server, bus, list, open, pending, snapshot, visits>>
\* the page is loaded anew: nothing is known until the room asks
Reload ==
    /\ bus' = <<>> /\ list' = <<>> /\ open' = None /\ pending' = None
    /\ place' = "elsewhere" /\ snapshot' = NoAnswer
    /\ UNCHANGED <<server, visits>>
\* a click on a frame of the wall, or on the viewer's backdrop
Look ==
    /\ place = "room" /\ pending = None
    /\ open' \in {None} \union {list[k].id : k \in DOMAIN list}
    /\ UNCHANGED <<server, bus, list, pending, place, snapshot, visits>>

Next ==
    \/ \E c \in Callers :
        \/ BeginShow(c) \/ ShowPanel(c) \/ BeginEdit(c) \/ Refuse(c) \/ EndEdit(c)
        \/ ClosePanel(c) \/ ClearPanels(c) \/ PresentPanel(c) \/ Tell(c)
    \/ Hear \/ Enter \/ ReplaceAll \/ FetchFails \/ Wander \/ Reload \/ Look

Spec == Init /\ [][Next]_vars

-----------------------------------------------------------------------------
TypeOK ==
    /\ Len(wall) <= MaxPanels /\ Len(list) <= MaxPanels
    /\ lock \in {None} \union Callers
    /\ \A k \in DOMAIN wall : wall[k].id \in 1..made /\ wall[k].body \in Bodies

\* "two concurrent edits to one panel would otherwise interleave and lose the first": what was
\* patched away is gone until the panel is rewritten.
NoEditIsLost ==
    \A k \in DOMAIN wall : \A t \in patched[wall[k].id] : wall[k].body[t] = 0

\* Once its page has had the wall and everything on its way has arrived, the browser's list is
\* the wall: the same panels, in the same order, at the same revision.
WallIsShown ==
    (snapshot.state = "came" /\ ~Owing /\ bus = <<>>) => list = Shown(wall)

\* Nothing is open, or waits to be opened, that was taken down.
OpenIsOnTheWall ==
    (~Owing /\ bus = <<>>) => {open, pending} \ {None} \subseteq {wall[k].id : k \in DOMAIN wall}
=============================================================================
