----------------------------- MODULE GameTables -----------------------------
(***************************************************************************)
(* The table and its two games (session.py, pump.py and player.py of       *)
(* rau/games/chess and rau/games/kittens): starting a game, taking it      *)
(* away, moving, the pump thread that keeps a game going and books its     *)
(* result, and the thread of one turn of Rau's.                            *)
(*                                                                         *)
(* The rules are abstract: somebody is to move, a move passes the turn or  *)
(* ends the game.  Chess's saved position and what is said at the table    *)
(* are left out.                                                           *)
(***************************************************************************)
EXTENDS Integers, Sequences, FiniteSets

CONSTANTS
    Requests, \* callers from outside: HTTP requests and tools of the talker
    Turns,    \* threads of a turn of Rau's
    MaxGames, \* bound: games started
    MaxPumps  \* bound: pump threads started

Tables == {"chess", "kittens"}
Other(g) == IF g = "chess" THEN "kittens" ELSE "chess"
Callers == Requests \union Turns
Games == 1..MaxGames
Pumps == 1..MaxPumps

VARIABLES
    out,      \* _game of each session; 0: None
    dealt,    \* games started so far
    tableOf,  \* whose session a game is of
    toMove,   \* the seat to move in a game, or "over"
    finished, \* chess: the values _finished_id took, in order; the last is in force
    booked,   \* history: the games whose result was folded in, in order
    notes,    \* chess: the lines of its journal, each of a game and of its moves or its result
    pc, on, obj, \* of each caller: its place, its table, the game it holds
    away,     \* of each request: the game of chess it took away over, until it is claimed
    files,    \* of each request: the game it claimed, until its result is written
    mine,     \* of each turn: the game its move was chosen for
    stray,    \* history: a move was played on a game it was not chosen for
    pump,     \* _pump of each table; 0: none
    pumps,    \* pump threads started so far
    pumpAt, pumpOn, pumpGame, \* of each pump: its place, its table, the game of its tick
    told,     \* pumps whose stop flag is set
    thinking  \* _thinking of each table

gameVars == <<out, dealt, tableOf, toMove>>
bookVars == <<finished, booked, notes>>
callVars == <<pc, on, obj>>
fileVars == <<away, files>>
turnVars == <<mine, stray, thinking>>
pumpVars == <<pump, pumps, pumpAt, pumpOn, pumpGame, told>>
vars == <<gameVars, bookVars, callVars, fileVars, turnVars, pumpVars>>

Init ==
    /\ out = [g \in Tables |-> 0] /\ dealt = 0
    /\ tableOf = [i \in Games |-> "chess"] /\ toMove = [i \in Games |-> "user"]
    /\ finished = <<>> /\ booked = <<>> /\ notes = {}
    /\ pc = [c \in Callers |-> "idle"] /\ on = [c \in Callers |-> "chess"]
    /\ obj = [c \in Callers |-> 0]
    /\ away = [r \in Requests |-> 0] /\ files = [r \in Requests |-> 0]
    /\ mine = [t \in Turns |-> 0] /\ stray = FALSE /\ thinking = [g \in Tables |-> FALSE]
    /\ pump = [g \in Tables |-> 0] /\ pumps = 0
    /\ pumpAt = [p \in Pumps |-> "none"] /\ pumpOn = [p \in Pumps |-> "chess"]
    /\ pumpGame = [p \in Pumps |-> 0] /\ told = {}

At(c, place) == pc[c] = place
Goto(c, place) == pc' = [pc EXCEPT ![c] = place]
Over(i) == toMove[i] = "over"
Active(g) == out[g] # 0 /\ ~Over(out[g])
RauMustAct(i) == toMove[i] = "rau"

(***************************************************************************)
(* _finish(): whoever finds a game of chess over claims it under the lock, *)
(* unless it was the last one claimed; without the lock the result is put  *)
(* into the journal and folded into the record.  Kittens claim nothing.    *)
(***************************************************************************)
Line(i, of) == [game |-> i, of |-> of]
FinishedId == IF finished = <<>> THEN 0 ELSE finished[Len(finished)]

\* Slip: the game id is trusted not to come back.
Trusted(i) == TRUE
Unclaimed(i) == FinishedId # i

Claim(i) == finished' = IF Unclaimed(i) THEN Append(finished, i) ELSE finished
WriteUp(i) ==
    /\ booked' = Append(booked, i)
    /\ notes' = IF tableOf[i] = "chess" THEN notes \union {Line(i, "result")} ELSE notes

(***************************************************************************)
(* ensure(): a pump that lives and was not told to stop is kept.           *)
(***************************************************************************)
Alive(p) == p # 0 /\ pumpAt[p] # "dead" /\ p \notin told
Ensure(g) ==
    IF Alive(pump[g]) THEN UNCHANGED pumpVars
    ELSE /\ pumps < MaxPumps /\ pumps' = pumps + 1
         /\ pump' = [pump EXCEPT ![g] = pumps + 1]
         /\ pumpAt' = [pumpAt EXCEPT ![pumps + 1] = "looks"]
         /\ pumpOn' = [pumpOn EXCEPT ![pumps + 1] = g]
         /\ UNCHANGED <<pumpGame, told>>
StopPump(g) ==
    /\ told' = IF pump[g] = 0 THEN told ELSE told \union {pump[g]}
    /\ UNCHANGED <<pump, pumps, pumpAt, pumpOn, pumpGame>>

(***************************************************************************)
(* start(): the other table is cleared, the game put out, the halves       *)
(* reset, the pump ensured.  A game in play is kept.                       *)
(***************************************************************************)
Start(r, g) ==
    /\ At(r, "idle") /\ ~Active(g) /\ dealt < MaxGames
    /\ Goto(r, IF out[Other(g)] # 0 THEN "sweep" ELSE "put")
    /\ on' = [on EXCEPT ![r] = g]
    /\ dealt' = dealt + 1 /\ obj' = [obj EXCEPT ![r] = dealt + 1]
    /\ UNCHANGED <<out, tableOf, toMove, bookVars, fileVars, turnVars, pumpVars>>

\* the game is out; in chess Rau may have the white pieces
Put(r) ==
    /\ At(r, "put") /\ Goto(r, "reset")
    /\ out' = [out EXCEPT ![on[r]] = obj[r]]
    /\ tableOf' = [tableOf EXCEPT ![obj[r]] = on[r]]
    /\ \E first \in IF on[r] = "chess" THEN {"user", "rau"} ELSE {"user"} :
            toMove' = [toMove EXCEPT ![obj[r]] = first]
    /\ UNCHANGED <<dealt, bookVars, fileVars, on, obj, turnVars, pumpVars>>

Reset(r) ==
    /\ At(r, "reset") /\ Goto(r, "ensure")
    /\ notes' = IF on[r] = "chess" THEN {Line(obj[r], "moves")} ELSE notes
    /\ UNCHANGED <<gameVars, finished, booked, on, obj, fileVars, turnVars, pumpVars>>

(***************************************************************************)
(* end(): the game is taken away, a finished one of chess goes through     *)
(* _finish, and the pump is told.  "sweep" is the end() within a start().  *)
(***************************************************************************)
End(r, g) ==
    /\ At(r, "idle") /\ Goto(r, "take") /\ on' = [on EXCEPT ![r] = g]
    /\ UNCHANGED <<gameVars, bookVars, obj, fileVars, turnVars, pumpVars>>

Leaving(r) == IF pc[r] \in {"sweep", "swept"} THEN Other(on[r]) ELSE on[r]
Take(r) ==
    /\ pc[r] \in {"take", "sweep"}
    /\ Goto(r, IF At(r, "sweep") THEN "swept" ELSE "taken")
    /\ LET g == Leaving(r) IN
        /\ out' = [out EXCEPT ![g] = 0]
        /\ away' = IF g = "chess" /\ out[g] # 0 /\ Over(out[g])
                   THEN [away EXCEPT ![r] = out[g]] ELSE away
    /\ UNCHANGED <<dealt, tableOf, toMove, bookVars, on, obj, files, turnVars, pumpVars>>

ClaimTaken(r) ==
    /\ away[r] # 0 /\ away' = [away EXCEPT ![r] = 0]
    /\ Claim(away[r])
    /\ files' = [files EXCEPT ![r] = IF Unclaimed(away[r]) THEN away[r] ELSE 0]
    /\ UNCHANGED <<gameVars, booked, notes, callVars, turnVars, pumpVars>>

WriteTaken(r) ==
    /\ files[r] # 0 /\ files' = [files EXCEPT ![r] = 0]
    /\ WriteUp(files[r])
    /\ UNCHANGED <<gameVars, finished, callVars, away, turnVars, pumpVars>>

Taken(r) ==
    /\ pc[r] \in {"taken", "swept"} /\ away[r] = 0 /\ files[r] = 0
    /\ Goto(r, IF At(r, "swept") THEN "put" ELSE "idle")
    /\ StopPump(Leaving(r))
    /\ notes' = IF Leaving(r) = "chess" THEN {} ELSE notes
    /\ UNCHANGED <<gameVars, finished, booked, on, obj, fileVars, turnVars>>

(***************************************************************************)
(* apply_move(): the game is picked up, the move made without the lock,    *)
(* and in chess journalled only if the game is still the one out.          *)
(***************************************************************************)
Move(r, g) ==
    /\ At(r, "idle") /\ out[g] # 0 /\ Goto(r, "play")
    /\ on' = [on EXCEPT ![r] = g] /\ obj' = [obj EXCEPT ![r] = out[g]]
    /\ UNCHANGED <<gameVars, bookVars, fileVars, turnVars, pumpVars>>

SeatOf(c) == IF c \in Turns THEN "rau" ELSE "user"
Leave(c) ==
    /\ Goto(c, IF c \in Turns THEN "leaves" ELSE "idle")
    /\ obj' = [obj EXCEPT ![c] = 0]

\* a move passes the turn, ends the game or is refused; either seat may resign or concede
Play(c) ==
    /\ At(c, "play")
    /\ LET i == obj[c] IN
        \/ /\ ~Over(i)
           /\ \E next \in {"over"} \union
                          (IF toMove[i] = SeatOf(c) THEN {"user", "rau"} \ {SeatOf(c)} ELSE {}) :
                toMove' = [toMove EXCEPT ![i] = next]
           /\ stray' = (stray \/ (c \in Turns /\ i # mine[c]))
           /\ Goto(c, IF on[c] = "chess" THEN "record" ELSE "ensure") /\ UNCHANGED obj
        \/ /\ Over(i) \/ toMove[i] # SeatOf(c)
           /\ Leave(c) /\ UNCHANGED <<toMove, stray>>
    /\ UNCHANGED <<out, dealt, tableOf, bookVars, fileVars, on, mine, thinking, pumpVars>>

\* Slip: the move is written down whatever became of the board.
RecordAnyway(c) ==
    /\ At(c, "record") /\ Goto(c, "ensure") /\ notes' = notes \union {Line(obj[c], "moves")}
    /\ UNCHANGED <<gameVars, finished, booked, on, obj, fileVars, turnVars, pumpVars>>

Record(c) ==
    /\ At(c, "record")
    /\ IF out["chess"] = obj[c]
       THEN Goto(c, "ensure") /\ notes' = notes \union {Line(obj[c], "moves")} /\ UNCHANGED obj
       ELSE Leave(c) /\ UNCHANGED notes
    /\ UNCHANGED <<gameVars, finished, booked, on, fileVars, turnVars, pumpVars>>

EnsurePump(c) ==
    /\ At(c, "ensure") /\ Leave(c) /\ Ensure(on[c])
    /\ UNCHANGED <<gameVars, bookVars, on, fileVars, turnVars>>

(***************************************************************************)
(* The pump: a tick takes the game that is out, books it and stops if it   *)
(* is over, and else gives Rau his turn.                                   *)
(***************************************************************************)
PumpMoves(p, from, to) == pumpAt[p] = from /\ pumpAt' = [pumpAt EXCEPT ![p] = to]
TickDone(p) == pumpGame' = [pumpGame EXCEPT ![p] = 0]

Look(p) ==
    /\ p \notin told /\ PumpMoves(p, "looks", "ticks")
    /\ pumpGame' = [pumpGame EXCEPT ![p] = out[pumpOn[p]]]
    /\ UNCHANGED <<gameVars, bookVars, callVars, fileVars, turnVars, pump, pumps, pumpOn, told>>

Tick(p) ==
    /\ LET i == pumpGame[p] IN
       IF i # 0 /\ Over(i) THEN PumpMoves(p, "ticks", "books") /\ UNCHANGED pumpGame
       ELSE IF i # 0 /\ RauMustAct(i) /\ ~thinking[pumpOn[p]]
       THEN PumpMoves(p, "ticks", "starts") /\ UNCHANGED pumpGame
       ELSE PumpMoves(p, "ticks", "looks") /\ TickDone(p)
    /\ UNCHANGED <<gameVars, bookVars, callVars, fileVars, turnVars, pump, pumps, pumpOn, told>>

Book(p) ==
    /\ LET i == pumpGame[p] IN
       IF pumpOn[p] = "kittens" THEN PumpMoves(p, "books", "files") /\ UNCHANGED finished
       ELSE /\ PumpMoves(p, "books", IF Unclaimed(i) THEN "files" ELSE "quits")
            /\ Claim(i)
    /\ UNCHANGED <<gameVars, booked, notes, callVars, fileVars, turnVars, pump,
                   pumps, pumpOn, pumpGame, told>>

File(p) ==
    /\ PumpMoves(p, "files", "quits") /\ WriteUp(pumpGame[p])
    /\ UNCHANGED <<gameVars, finished, callVars, fileVars, turnVars, pump,
                   pumps, pumpOn, pumpGame, told>>

Quit(p) ==
    /\ PumpMoves(p, "quits", "looks") /\ told' = told \union {p} /\ TickDone(p)
    /\ UNCHANGED <<gameVars, bookVars, callVars, fileVars, turnVars, pump, pumps, pumpOn>>

\* the thread ends at its loop's head
Die(p) ==
    /\ p \in told /\ PumpMoves(p, "looks", "dead")
    /\ UNCHANGED <<gameVars, bookVars, callVars, fileVars, turnVars, pump,
                   pumps, pumpOn, pumpGame, told>>

StartTurn(p, t) ==
    /\ PumpMoves(p, "starts", "looks") /\ At(t, "idle") /\ TickDone(p)
    /\ thinking' = [thinking EXCEPT ![pumpOn[p]] = TRUE]
    /\ Goto(t, "wakes") /\ on' = [on EXCEPT ![t] = pumpOn[p]]
    /\ UNCHANGED <<gameVars, bookVars, fileVars, obj, mine, stray, pump, pumps, pumpOn, told>>

(***************************************************************************)
(* A turn of Rau's: a move is chosen for the game that is out; chess looks *)
(* whether it still is, and the move goes through apply_move.              *)
(***************************************************************************)
Wake(t) ==
    /\ At(t, "wakes")
    /\ LET i == out[on[t]] IN
        IF i # 0 /\ RauMustAct(i)
        THEN Goto(t, "chooses") /\ mine' = [mine EXCEPT ![t] = i]
        ELSE Goto(t, "leaves") /\ UNCHANGED mine
    /\ UNCHANGED <<gameVars, bookVars, fileVars, on, obj, stray, thinking, pumpVars>>

StillLive(t) == out[on[t]] = mine[t] /\ ~Over(mine[t])
Choose(t) ==
    /\ At(t, "chooses")
    /\ Goto(t, IF on[t] = "chess" /\ ~StillLive(t) THEN "leaves" ELSE "moves")
    /\ UNCHANGED <<gameVars, bookVars, on, obj, fileVars, turnVars, pumpVars>>

\* the engine or the model fails
GiveUp(t) ==
    /\ At(t, "chooses") /\ Goto(t, "leaves")
    /\ UNCHANGED <<gameVars, bookVars, on, obj, fileVars, turnVars, pumpVars>>

TurnMoves(t) ==
    /\ At(t, "moves")
    /\ obj' = [obj EXCEPT ![t] = out[on[t]]]
    /\ Goto(t, IF out[on[t]] = 0 THEN "leaves" ELSE "play")
    /\ UNCHANGED <<gameVars, bookVars, on, fileVars, turnVars, pumpVars>>

TurnEnds(t) ==
    /\ At(t, "leaves") /\ Goto(t, "idle")
    /\ thinking' = [thinking EXCEPT ![on[t]] = FALSE]
    /\ mine' = [mine EXCEPT ![t] = 0] /\ obj' = [obj EXCEPT ![t] = 0]
    /\ UNCHANGED <<gameVars, bookVars, fileVars, on, stray, pumpVars>>

Request(r) ==
    \/ \E g \in Tables : Start(r, g) \/ End(r, g) \/ Move(r, g)
    \/ Put(r) \/ Reset(r) \/ Take(r) \/ ClaimTaken(r) \/ WriteTaken(r) \/ Taken(r)
Pump(p) ==
    \/ Look(p) \/ Tick(p) \/ Book(p) \/ File(p) \/ Quit(p) \/ Die(p)
    \/ \E t \in Turns : StartTurn(p, t)
Turn(t) == Wake(t) \/ Choose(t) \/ GiveUp(t) \/ TurnMoves(t) \/ TurnEnds(t)

Next ==
    \/ \E r \in Requests : Request(r)
    \/ \E c \in Callers : Play(c) \/ Record(c) \/ EnsurePump(c)
    \/ \E p \in Pumps : Pump(p)
    \/ \E t \in Turns : Turn(t)

Spec == Init /\ [][Next]_vars

-----------------------------------------------------------------------------
TypeOK ==
    /\ out \in [Tables -> 0..MaxGames] /\ toMove \in [Games -> {"user", "rau", "over"}]
    /\ \A g \in Tables : out[g] # 0 => tableOf[out[g]] = g
    /\ pump \in [Tables -> 0..MaxPumps] /\ told \subseteq 1..pumps
    /\ notes \subseteq [game : Games, of : {"moves", "result"}]
    /\ away \in [Requests -> 0..MaxGames] /\ files \in [Requests -> 0..MaxGames]

\* "it is one restarted pump away from happening": however many pumps and ends find a game of
\* chess over, its result is folded in once, unless another game was claimed meanwhile.
ChessBooksOnce ==
    \A j, k \in DOMAIN booked :
        j # k /\ booked[j] = booked[k] /\ tableOf[booked[j]] = "chess"
            => \E a \in DOMAIN finished : finished[a] # booked[j]

\* While nobody is in the middle of setting a board up or taking it away, the moves in the chess
\* journal are those of the game that is out: a move that outlived its board left no note.
Settled == \A r \in Requests : pc[r] \notin {"sweep", "swept", "put", "reset", "take", "taken"}
MovesOfThisGame ==
    Settled => \A n \in notes : n.of = "moves" => n.game = out["chess"]

\* And so is every line of it, "Game over" included.
JournalOfThisGame == Settled => \A n \in notes : n.game = out["chess"]

\* ensure(): "Guarantee a live pump": once the callers are done, a game that goes on has one.
GameHasAPump ==
    (\A c \in Callers : At(c, "idle")) =>
        \A g \in Tables : Active(g) => Alive(pump[g])

\* "There is only one table."
OneTable == out["chess"] = 0 \/ out["kittens"] = 0

\* A game of cards counts once.
KittensBooksOnce ==
    \A j, k \in DOMAIN booked : j # k /\ booked[j] = booked[k] => tableOf[booked[j]] = "chess"

\* "a move chosen for a game that no longer exists is thrown away rather than played"
NoStrayMove == ~stray
=============================================================================
