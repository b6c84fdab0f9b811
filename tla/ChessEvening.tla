---------------------------- MODULE ChessEvening ----------------------------
(***************************************************************************)
(* An evening of chess (rau/games/chess: board.py, session.py, pump.py,    *)
(* player.py, level.py): the board that is out and the one parked on disk, *)
(* the user's requests, Rau's turn - he searches, answers an offer, minds  *)
(* his mood, takes his time, moves, perhaps offers a draw - the booking of *)
(* a result, and a restart anywhere.                                       *)
(*                                                                         *)
(* The rules of chess are abstract: the seats alternate, and any move may  *)
(* end the game.  GameTables has the handing over to the card table and    *)
(* the pump's own life; here a pump is always there.                       *)
(***************************************************************************)
EXTENDS Integers, Sequences, FiniteSetsExt

CONSTANTS
    ResignStreak, ResignPly, \* RESIGN_STREAK, RESIGN_MIN_PLY
    OfferStreak, OfferPly,   \* OFFER_STREAK, OFFER_MIN_PLY
    ClaimPly,   \* a repetition takes this many plies
    Ratings,    \* what games.json may hold to begin with
    Weeks,      \* weeks that may lie between two results
    Unhurried,  \* a request comes when the handlers before it are through, and a search, a
                \* think or a line of Rau's does not end in the moment a board is set up
    MaxBoards,  \* bound: boards set up or restored
    MaxPlies,   \* bound: plies of a game
    MaxCrashes  \* bound: restarts

USER == "user"
RAU == "rau"
Other(s) == IF s = RAU THEN USER ELSE RAU
Boards == 1..MaxBoards
NoSave == [id |-> 0, rau |-> "black", plies |-> 0, over |-> "no"]
Calm == [hopeless |-> 0, dead |-> 0, offered |-> FALSE]

VARIABLES
    table,   \* _game: the board that is out, or 0
    boards,  \* every board there has been, and which are set up
    saved,   \* current.json
    score,   \* the chess record of games.json
    booked,  \* history: the games folded into it, in order
    finished,\* _finished_id
    mood,    \* _mood, by game
    user,    \* the thread of a request: its place, its board, what it will write
    turn,    \* the thread of Rau's turn
    pump,    \* the pump's thread
    sins,    \* history: what Rau did that he should not have
    crashes

vars == <<table, boards, saved, score, booked, finished, mood, user, turn, pump, sins, crashes>>

NoBoard == [id |-> 0, rau |-> "black", plies |-> 0, mate |-> "no", over |-> "no",
            offer |-> "nobody", asked |-> FALSE]
Idle == [at |-> "idle", board |-> 0, page |-> NoSave]
Resting == [at |-> "idle", id |-> 0, board |-> 0, plies |-> 0, kind |-> "fine",
            offers |-> FALSE, then |-> "idle"]

Init ==
    /\ table = 0 /\ boards = <<>> /\ saved = NoSave /\ finished = 0 /\ booked = <<>>
    /\ score \in [elo : Ratings, last : {"none"}]
    /\ mood = [i \in Boards |-> Calm]
    /\ user = Idle /\ pump = Idle /\ turn = Resting /\ sins = {} /\ crashes = 0

(***************************************************************************)
(* A board.                                                                *)
(***************************************************************************)
Seat(b) == IF (b.plies % 2 = 0) = (b.rau = "white") THEN RAU ELSE USER
Live(i) == i # 0 /\ boards[i].over = "no"
On(i) == boards[i]

\* save(): the position, not how the game ended
Page(b) == [id |-> b.id, rau |-> b.rau, plies |-> b.plies, over |-> b.mate]

Ended(b, winner) == [b EXCEPT !.over = winner, !.offer = "nobody"]
\* play(): a move answers the other seat's offer, and may end the game
Moves(b, s) ==
    LET moved == [b EXCEPT !.plies = @ + 1, !.offer = IF @ = Other(s) THEN "nobody" ELSE @] IN
    {moved} \union {[Ended(moved, w) EXCEPT !.mate = w] : w \in {s, "draw"}}
OfferDraw(b, s) ==
    IF b.offer = Other(s) THEN Ended(b, "draw") ELSE [b EXCEPT !.offer = s]

\* what a seat may do to a live board
Acts(b, s) ==
    (IF Seat(b) = s /\ b.plies < MaxPlies THEN Moves(b, s) ELSE {})
    \union {Ended(b, Other(s)), OfferDraw(b, s)}
    \union (IF b.offer = Other(s) THEN {Ended(b, "draw"), [b EXCEPT !.offer = "nobody"]} ELSE {})
    \union (IF b.plies >= ClaimPly THEN {Ended(b, "draw")} ELSE {})

(***************************************************************************)
(* The record: how hard he plays follows the score (level.py).             *)
(***************************************************************************)
START == 1500
Clamp(elo) == Max({1320, Min({1900, elo})})
Toward(elo, target, by) ==
    IF elo < target THEN Min({target, elo + by}) ELSE Max({target, elo - by})
Drifted(elo, weeks) == Toward(elo, START, 10 * weeks)
Rated(elo, winner) ==
    Clamp(CASE winner = USER -> elo + 60 [] winner = RAU -> elo - 60
            [] OTHER -> Toward(elo, START, 15))
NextColour == IF score.last = "black" THEN "white" ELSE "black"

(***************************************************************************)
(* _finish(), by the pump or by end(): claimed once by the game's id, the  *)
(* result booked, the parked position thrown away.                         *)
(***************************************************************************)
Claimed(th, id) ==
    IF finished = id THEN th' = Idle /\ UNCHANGED finished
    ELSE th' = [th EXCEPT !.at = "books"] /\ finished' = id

Booked(th) ==
    LET b == On(th.board) IN
    /\ th' = [th EXCEPT !.at = "clears"] /\ booked' = Append(booked, b.id)
    /\ \E w \in IF booked = <<>> THEN {0} ELSE Weeks :
        score' = [elo |-> Rated(Drifted(score.elo, w), b.over), last |-> b.rau]

Finish(th) ==
    \/ /\ th.at = "claims" /\ Claimed(th, On(th.board).id)
       /\ UNCHANGED <<score, booked, saved>>
    \/ th.at = "books" /\ Booked(th) /\ UNCHANGED <<finished, saved>>
    \/ /\ th.at = "clears" /\ saved' = NoSave /\ th' = Idle
       /\ UNCHANGED <<score, booked, finished>>
FinishRest == UNCHANGED <<table, boards, mood, sins, crashes>>

PumpSees ==
    /\ pump.at = "idle" /\ table # 0 /\ ~Live(table) /\ finished # On(table).id
    /\ pump' = [Idle EXCEPT !.at = "claims", !.board = table]
    /\ UNCHANGED <<table, boards, saved, score, booked, finished, mood, user, turn, sins, crashes>>
PumpFinishes == Finish(pump) /\ FinishRest /\ UNCHANGED <<user, turn>>
UserFinishes == Finish(user) /\ FinishRest /\ UNCHANGED <<pump, turn>>

(***************************************************************************)
(* The user's requests, one at a time.                                     *)
(***************************************************************************)
Quiet ==
    /\ pump.at = "idle" /\ turn.at \in {"idle", "searches", "waits", "offers"}
    /\ table # 0 => Live(table) \/ finished = On(table).id
Asks == user.at = "idle" /\ (Unhurried => Quiet)

\* press play: a parked game comes back, else a new one is set up
Restored == [NoBoard EXCEPT !.id = saved.id, !.rau = saved.rau, !.plies = saved.plies]
SetUp(colour) == [NoBoard EXCEPT !.id = Len(boards) + 1, !.rau = colour]
ComesBack == table = 0 /\ saved # NoSave /\ saved.over = "no"

Press ==
    /\ Asks /\ ~Live(table) /\ Len(boards) < MaxBoards
    /\ boards' = Append(boards, IF ComesBack THEN Restored ELSE SetUp(NextColour))
    /\ user' = [Idle EXCEPT !.board = Len(boards) + 1,
                            !.at = IF ComesBack THEN "returns" ELSE "puts"]
    /\ saved' = IF table = 0 /\ ~ComesBack THEN NoSave ELSE saved
    /\ UNCHANGED <<table, score, booked, finished, mood, turn, pump, sins, crashes>>

\* _open(): the board is out, then the mood is forgotten; a new game is parked as it stands
Open ==
    /\ user.at \in {"puts", "returns"} /\ table' = user.board
    /\ user' = [user EXCEPT !.at = IF @ = "puts" THEN "resets" ELSE "recalls"]
    /\ UNCHANGED <<boards, saved, score, booked, finished, mood, turn, pump, sins, crashes>>
Reset ==
    /\ user.at \in {"resets", "recalls"} /\ mood' = [i \in Boards |-> Calm]
    /\ user' = IF user.at = "resets" THEN [user EXCEPT !.at = "parks"] ELSE Idle
    /\ UNCHANGED <<table, boards, saved, score, booked, finished, turn, pump, sins, crashes>>
Copy ==
    /\ user.at = "parks"
    /\ user' = [user EXCEPT !.at = "writes", !.page = Page(On(user.board))]
    /\ UNCHANGED <<table, boards, saved, score, booked, finished, mood, turn, pump, sins, crashes>>
Write ==
    /\ user.at = "writes" /\ saved' = user.page /\ user' = Idle
    /\ UNCHANGED <<table, boards, score, booked, finished, mood, turn, pump, sins, crashes>>

\* end(): a finished game is booked by then
PutAway ==
    /\ Asks /\ table # 0 /\ table' = 0
    /\ user' = IF Live(table) THEN Idle ELSE [Idle EXCEPT !.at = "claims", !.board = table]
    /\ UNCHANGED <<boards, saved, score, booked, finished, mood, turn, pump, sins, crashes>>

\* apply_move(): done to the board, then written down if it is still the board that is out
UserActs ==
    /\ Asks /\ Live(table)
    /\ \E b \in Acts(On(table), USER) : boards' = [boards EXCEPT ![table] = b]
    /\ user' = [Idle EXCEPT !.at = "records", !.board = table]
    /\ UNCHANGED <<table, saved, score, booked, finished, mood, turn, pump, sins, crashes>>

Park(i) == saved' = IF table = i THEN Page(On(i)) ELSE saved
UserRecords ==
    /\ user.at = "records" /\ Park(user.board) /\ user' = Idle
    /\ UNCHANGED <<table, boards, score, booked, finished, mood, turn, pump, sins, crashes>>

(***************************************************************************)
(* A turn of Rau's.                                                        *)
(***************************************************************************)
StartTurn ==
    /\ turn.at = "idle" /\ Live(table) /\ Seat(On(table)) = RAU
    /\ turn' = [Resting EXCEPT !.at = "searches", !.id = On(table).id,
                               !.plies = On(table).plies]
    /\ UNCHANGED <<table, boards, saved, score, booked, finished, mood, user, pump, sins, crashes>>

SettingUp == user.at \notin {"idle", "records", "claims", "books", "clears"}
GoesOn == Unhurried => ~SettingUp

SameGame == table # 0 /\ On(table).id = turn.id
StillLive == SameGame /\ Live(table)

\* the engine fails, or the position is lost, worse, dead or fine
Search ==
    /\ turn.at = "searches" /\ GoesOn
    /\ turn' \in {Resting} \union
          (IF ~SameGame THEN {}
           ELSE {[turn EXCEPT !.at = "acts", !.board = table, !.kind = k] :
                    k \in {"lost", "worse", "dead", "fine"}})
    /\ UNCHANGED <<table, boards, saved, score, booked, finished, mood, user, pump, sins, crashes>>

\* apply_move() by Rau: it acts on whatever board is out
RauDoes(b, goOn) ==
    /\ boards' = [boards EXCEPT ![table] = b]
    /\ turn' = [turn EXCEPT !.at = "records", !.board = table, !.then = goOn]

Offered == On(turn.board).offer = USER
Answer ==
    /\ turn.at = "acts" /\ Offered
    /\ IF ~Live(table) \/ On(table).offer # USER
       THEN turn' = [turn EXCEPT !.at = "minds"] /\ UNCHANGED boards
       ELSE IF turn.kind # "fine" THEN RauDoes(Ended(On(table), "draw"), "idle")
       ELSE RauDoes([On(table) EXCEPT !.offer = "nobody"], "minds")
    /\ UNCHANGED <<table, saved, score, booked, finished, mood, user, pump, sins, crashes>>

Streak(n, holds, cap) == IF holds THEN Min({cap, n + 1}) ELSE 0
Mood ==
    LET m == mood[turn.id] IN
    [m EXCEPT !.hopeless = Streak(@, turn.kind = "lost", ResignStreak),
              !.dead = Streak(@, turn.kind = "dead", OfferStreak)]
WouldOffer ==
    /\ ~Mood.offered /\ Mood.dead >= OfferStreak
    /\ On(turn.board).plies >= OfferPly /\ On(turn.board).offer = "nobody"
WouldResign == Mood.hopeless >= ResignStreak /\ On(turn.board).plies >= ResignPly

Mind ==
    /\ turn.at = "minds" \/ (turn.at = "acts" /\ ~Offered)
    /\ mood' = [mood EXCEPT ![turn.id] = Mood]
    /\ turn' = IF WouldResign THEN [turn EXCEPT !.at = "resigns"]
               ELSE [turn EXCEPT !.at = "waits", !.offers = WouldOffer]
    /\ UNCHANGED <<table, boards, saved, score, booked, finished, user, pump, sins, crashes>>

Resign ==
    /\ turn.at = "resigns"
    /\ IF Live(table)
       THEN /\ RauDoes(Ended(On(table), USER), "idle")
            /\ sins' = IF On(table).plies >= ResignPly THEN sins ELSE sins \union {"early"}
       ELSE turn' = Resting /\ UNCHANGED <<boards, sins>>
    /\ UNCHANGED <<table, saved, score, booked, finished, mood, user, pump, crashes>>

\* the think is over, or was given up because the board is gone
Waited ==
    /\ turn.at = "waits" /\ GoesOn
    /\ turn' = [turn EXCEPT !.at = IF StillLive THEN "moves"
                                   ELSE IF turn.offers THEN "offers" ELSE "leaves"]
    /\ UNCHANGED <<table, boards, saved, score, booked, finished, mood, user, pump, sins, crashes>>

Refused == [turn EXCEPT !.at = IF turn.offers THEN "offers" ELSE "leaves"]
Land ==
    /\ turn.at = "moves"
    /\ IF Live(table) /\ Seat(On(table)) = RAU
       THEN /\ On(table).plies < MaxPlies
            /\ \E b \in Moves(On(table), RAU) :
                RauDoes(b, IF turn.offers THEN "offers" ELSE "leaves")
            /\ sins' = IF SameGame /\ On(table).plies = turn.plies THEN sins
                       ELSE sins \union {"stray"}
       ELSE turn' = Refused /\ UNCHANGED <<boards, sins>>
    /\ UNCHANGED <<table, saved, score, booked, finished, mood, user, pump, crashes>>

\* after his move, if the same game is still quietly in play
MayOffer == StillLive /\ On(table).offer = "nobody"
Offers ==
    /\ turn.at = "offers" /\ GoesOn
    /\ IF MayOffer
       THEN /\ RauDoes([OfferDraw(On(table), RAU) EXCEPT !.asked = TRUE], "offered")
            /\ sins' = IF On(table).asked THEN sins \union {"twice"} ELSE sins
       ELSE turn' = Resting /\ UNCHANGED <<boards, sins>>
    /\ UNCHANGED <<table, saved, score, booked, finished, mood, user, pump, crashes>>

\* a draw that was taken on a board that has gone is no draw: he goes on
IfGone == IF turn.then = "idle" /\ On(turn.board).over = "draw" THEN "minds"
         ELSE IF turn.then = "offered" THEN "leaves" ELSE turn.then
TurnRecords ==
    /\ turn.at = "records" /\ Park(turn.board)
    /\ LET next == IF table = turn.board THEN turn.then ELSE IfGone IN
        turn' = IF next = "idle" THEN Resting ELSE [turn EXCEPT !.at = next]
    /\ UNCHANGED <<table, boards, score, booked, finished, mood, user, pump, sins, crashes>>

TurnEnds ==
    /\ turn.at \in {"offered", "leaves"} /\ turn' = Resting
    /\ mood' = IF turn.at = "offered" THEN [mood EXCEPT ![turn.id].offered = TRUE] ELSE mood
    /\ UNCHANGED <<table, boards, saved, score, booked, finished, user, pump, sins, crashes>>

\* the process dies; the record and the parked position stay
Crash ==
    /\ crashes < MaxCrashes /\ crashes' = crashes + 1
    /\ table' = 0 /\ finished' = 0 /\ mood' = [i \in Boards |-> Calm]
    /\ user' = Idle /\ pump' = Idle /\ turn' = Resting
    /\ UNCHANGED <<boards, saved, score, booked, sins>>

RausTurn ==
    \/ StartTurn \/ Search \/ Answer \/ Mind \/ Resign \/ Waited \/ Land \/ Offers
    \/ TurnRecords \/ TurnEnds
Next ==
    \/ PumpSees \/ PumpFinishes \/ UserFinishes
    \/ Press \/ Open \/ Reset \/ Copy \/ Write \/ PutAway \/ UserActs \/ UserRecords
    \/ RausTurn \/ Crash

Spec == Init /\ [][Next]_vars

-----------------------------------------------------------------------------
TypeOK ==
    /\ table \in 0..Len(boards) /\ score.elo \in 1320..1900
    /\ \A i \in DOMAIN boards : boards[i].over = "no" => boards[i].mate = "no"
    /\ user.board \in 0..Len(boards) /\ turn.board \in 0..Len(boards)

\* "losing it to a restart is the kind of thing that stops people playing": when nobody is in
\* the middle of anything, the game that is out is parked as it stands, whatever was put away,
\* resumed, begun, or moved by a thought of before.
ParkedAsItStands ==
    (user.at = "idle" /\ pump.at = "idle" /\ turn.at \in {"idle", "searches", "waits"} /\ Live(table))
        => saved = Page(On(table))

\* "a move chosen for a game that no longer exists is thrown away": a think lands on the
\* position it was about; he resigns no game in its opening, and offers a draw once.
KeepsHisManners == sins = {}

\* A game that ended is not played on.
EndedIsEnded ==
    \A i, j \in DOMAIN boards : i < j /\ boards[i].id = boards[j].id => Live(i)

\* A result is folded in once.
BookedOnce == \A i, j \in DOMAIN booked : booked[i] = booked[j] => i = j
=============================================================================
