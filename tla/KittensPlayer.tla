--------------------------- MODULE KittensPlayer ---------------------------
(***************************************************************************)
(* Rau's player half over the rules of Kittens                             *)
(* (rau/games/kittens/player.py, pump.py): a turn asks the model twice and *)
(* then falls back on a move of its own, and a Nope is decided by the pump *)
(* within the window of the card it answers.  The user plays meanwhile.    *)
(***************************************************************************)
EXTENDS Integers, Sequences, FiniteSets

CONSTANTS
    CatCards, \* CAT_CARDS
    Deals,    \* the deals a game may begin with
    Prompt    \* a decision is made within its Nope window: 1.2 s in one of 5 s

VARIABLES
    draw, hands, discard, current, turns, phase, pending, awaiting, known, winner, \* the game
    acted,    \* actions_this_turn is not 0
    turn,     \* the turn thread: idle, asks, asks again, falls back
    deciding, \* the action in whose window decide_nope was asked
    decided,  \* _decided holds this window's key
    wrong     \* history: what the player half got wrong

Rules == INSTANCE Kittens
game == <<draw, hands, discard, current, turns, phase, pending, awaiting, known, winner>>
vars == <<game, acted, turn, deciding, decided, wrong>>

RAU == Rules!RAU
USER == Rules!USER
None == Rules!None
Over == phase = "over"

Init ==
    /\ Rules!Init /\ acted = FALSE /\ turn = "idle"
    /\ deciding = Rules!NoPending /\ decided = FALSE /\ wrong = {}

(***************************************************************************)
(* actions_this_turn: a play counts, the end of a turn and an Attack start *)
(* again.  A new window, or a hand on the table, is decided again.         *)
(***************************************************************************)
Counted(plays) ==
    acted' = (<<current, turns>>' = <<current, turns>> /\ (plays \/ acted))
Fresh == decided' = (decided /\ pending' = pending)

(***************************************************************************)
(* What a seat may do by apply_move.                                       *)
(***************************************************************************)
Plays(s) ==
    \/ \E c \in Rules!Cards : Rules!PlayCard(s, c) \/ Rules!Combo(s, c, 2, None)
    \/ \E c, named \in Rules!Cards : Rules!Combo(s, c, 3, named)
    \/ \E five \in SUBSET Rules!Holding(hands[s]) : Rules!ComboFive(s, five)
Answers(s) ==
    \/ \E c \in Rules!Cards : Rules!GiveFavor(s, c) \/ Rules!TakeFromDiscard(s, c)
    \/ \E i \in 0..Len(draw) : Rules!InsertKitten(s, i)

\* one move of the menu; the open choices are filled in
Do(m) ==
    \/ m.move = "play" /\ Rules!PlayCard(RAU, m.card) /\ Counted(TRUE)
    \/ m.move = "combo_two" /\ Rules!Combo(RAU, m.card, 2, None) /\ Counted(TRUE)
    \/ m.move = "draw" /\ Rules!Draw(RAU) /\ Counted(FALSE)
    \/ m.move = "give_favor" /\ Rules!GiveFavor(RAU, m.card) /\ Counted(FALSE)
    \/ m.move = "take_from_discard" /\ Rules!TakeFromDiscard(RAU, m.card) /\ Counted(FALSE)
    \/ m.move = "insert_kitten" /\ Rules!InsertKitten(RAU, 0) /\ Counted(FALSE)
    \/ m.move = "concede" /\ Rules!Concede(RAU) /\ Counted(FALSE)

(***************************************************************************)
(* _preferred_proactive_move: the first rung of the ladder that is in the  *)
(* menu; _fallback_move: that, or the menu's last entry.                   *)
(***************************************************************************)
MyMenu == Rules!Menu(RAU)
KittenKnown == known[RAU] # <<>> /\ Head(known[RAU]) = Rules!KITTEN
Offered(what) == {m \in MyMenu : m.move = what}
Card(c) == {m \in Offered("play") : m.card = c}

Ladder(interactive) ==
    LET when(b, S) == IF b THEN S ELSE {} IN
    <<when(KittenKnown, Card("attack")), when(KittenKnown, Card("skip")),
      when(KittenKnown, Card("shuffle")),
      when(~acted, Card("attack")),
      when(~acted /\ known[RAU] = <<>>, Card("see_the_future")),
      when(~acted /\ Rules!Holding(hands[USER]) # {}, Offered("combo_two")),
      when(~acted /\ Rules!Holding(hands[USER]) # {} /\ interactive, Card("favor"))>>

Preferred(interactive) ==
    LET ladder == Ladder(interactive)
        taken == {k \in DOMAIN ladder : ladder[k] # {}}
    IN  IF taken = {} THEN {} ELSE ladder[CHOOSE k \in taken : \A j \in taken : k <= j]

Last == IF Offered("draw") # {} THEN Offered("draw") ELSE MyMenu
Fallback ==
    IF MyMenu = {} THEN {Rules!Move("concede", None)}
    ELSE IF Preferred(FALSE) # {} THEN Preferred(FALSE)
    ELSE Last

(***************************************************************************)
(* take_turn.                                                              *)
(***************************************************************************)
RauMustAct ==
    IF awaiting # None THEN awaiting = RAU ELSE phase = "playing" /\ current = RAU

Same == UNCHANGED <<deciding, wrong>> /\ Fresh
Untouched == UNCHANGED <<game, acted, deciding, decided>>

StartTurn ==
    /\ turn = "idle" /\ ~Over /\ RauMustAct /\ turn' = "asks"
    /\ UNCHANGED wrong /\ Untouched

\* a legal answer; a draw becomes something more useful where there is one
GoodAnswer ==
    /\ turn \in {"asks", "asks again"} /\ turn' = "idle" /\ Same
    /\ \/ Plays(RAU) /\ Counted(TRUE)
       \/ Answers(RAU) /\ Counted(FALSE)
       \/ Rules!Concede(RAU) /\ Counted(FALSE)
       \/ Preferred(TRUE) = {} /\ Rules!Draw(RAU) /\ Counted(FALSE)
       \/ Rules!MayDraw(RAU) /\ \E m \in Preferred(TRUE) : Do(m)

\* not JSON, or a move the rules refuse: asked again, and then no more
BadAnswer ==
    /\ turn \in {"asks", "asks again"}
    /\ turn' = IF turn = "asks" THEN "asks again" ELSE "falls back"
    /\ UNCHANGED wrong /\ Untouched

ModelFails ==
    /\ turn \in {"asks", "asks again"} /\ turn' = "falls back"
    /\ UNCHANGED wrong /\ Untouched

\* a concession after the end changes nothing and is no error
Guaranteed(m) == m.move = "concede" \/ Rules!Accepted(RAU, m)
FallBack ==
    /\ turn = "falls back" /\ turn' = "idle"
    /\ \E m \in Fallback :
        IF ~Guaranteed(m)
        THEN wrong' = wrong \union {"stuck"} /\ Untouched
        ELSE /\ wrong' = wrong \union
                    (IF ~Over /\ m.move = "concede" THEN {"gave up"} ELSE {})
             /\ IF Over THEN Untouched ELSE Do(m) /\ Fresh /\ UNCHANGED deciding

(***************************************************************************)
(* The pump: a window that waits on Rau is decided once, and a decision    *)
(* blocks the pump, which is what lets windows expire.                     *)
(***************************************************************************)
NotDeciding == deciding = Rules!NoPending
WindowForRau == phase = "nope_window" /\ Rules!Other(pending.last) = RAU

Decide ==
    /\ NotDeciding /\ WindowForRau /\ ~decided /\ decided' = TRUE
    /\ IF Rules!Holds(hands[RAU], Rules!NOPE) THEN deciding' = pending ELSE UNCHANGED deciding
    /\ UNCHANGED <<game, acted, turn, wrong>>

\* the model says so, or does not answer in time and the reflex does
Pass ==
    /\ ~NotDeciding /\ deciding' = Rules!NoPending
    /\ UNCHANGED <<game, acted, turn, decided, wrong>>
SayNope ==
    /\ ~NotDeciding /\ deciding' = Rules!NoPending /\ UNCHANGED turn
    /\ IF Rules!MayNope(RAU)
       THEN /\ Rules!Nope(RAU) /\ Counted(FALSE) /\ Fresh
            /\ wrong' = IF pending = deciding THEN wrong ELSE wrong \union {"noped another card"}
       ELSE UNCHANGED <<game, acted, decided, wrong>>

WindowShuts ==
    /\ Prompt => NotDeciding
    /\ Rules!Expire /\ Counted(FALSE) /\ Same /\ UNCHANGED turn

(***************************************************************************)
(* The user's hand on the table wakes the pump.                            *)
(***************************************************************************)
UserMoves ==
    /\ \/ Plays(USER) /\ Counted(TRUE)
       \/ Answers(USER) /\ Counted(FALSE)
       \/ Rules!Draw(USER) /\ Counted(FALSE)
       \/ Rules!Nope(USER) /\ Counted(FALSE)
       \/ Rules!PassNope(USER) /\ Counted(FALSE)
       \/ Rules!Concede(USER) /\ Counted(FALSE)
    /\ decided' = FALSE /\ UNCHANGED <<turn, deciding, wrong>>

Next ==
    \/ StartTurn \/ GoodAnswer \/ BadAnswer \/ ModelFails \/ FallBack
    \/ Decide \/ Pass \/ SayNope \/ WindowShuts \/ UserMoves

Spec == Init /\ [][Next]_vars

-----------------------------------------------------------------------------
TypeOK ==
    /\ Rules!TypeOK /\ acted \in BOOLEAN /\ decided \in BOOLEAN
    /\ turn \in {"idle", "asks", "asks again", "falls back"}
    /\ ~NotDeciding => Rules!Holds(hands[RAU], Rules!NOPE) \/ Over

\* "a guaranteed fallback (the last legal move) fires so the pump can never stall forever":
\* whatever the model said and wherever the game is, the rules take the fallback, it does not
\* concede a game that goes on, and a Nope falls on the card it was decided for.
PlaysOn == wrong = {}
=============================================================================
