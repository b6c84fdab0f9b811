------------------------------ MODULE Kittens ------------------------------
(***************************************************************************)
(* The rules of Exploding Kittens for two (rau/games/kittens/engine.py and *)
(* deck.py).  Every operation holds the game's lock.                       *)
(*                                                                         *)
(* A hand and the discard pile count their cards; the draw pile is a       *)
(* sequence, its top first.  A Nope window may run out at any time: a move *)
(* that first finds it has (tick) is the step Expire and then the move.    *)
(* The log and the counter of a turn's plays are left out.                 *)
(***************************************************************************)
EXTENDS Integers, Sequences, FiniteSets, SequencesExt

CONSTANTS
    CatCards, \* CAT_CARDS
    Deals     \* the deals a game may begin with: [draw |-> pile, hands |-> counts of each seat]

USER == "user"
RAU == "rau"
SEATS == {USER, RAU}
Other(s) == IF s = USER THEN RAU ELSE USER

KITTEN == "exploding_kitten"
DEFUSE == "defuse"
NOPE == "nope"
UNPLAYABLE == {KITTEN, DEFUSE}
Effects == {"attack", "skip", "favor", "shuffle", "see_the_future"}
Cards == UNPLAYABLE \union {NOPE} \union Effects \union CatCards
FUTURE_DEPTH == 3
ATTACK_TURNS == 2
COMBO_FIVE == 5

None == "none"
NoPending == [kind |-> None, actor |-> None, card |-> None, named |-> None, nopes |-> 0, last |-> None]

VARIABLES
    draw,     \* the draw pile
    hands,    \* each seat's hand
    discard,  \* the discard pile
    current,  \* whose turn it is
    turns,    \* turns_to_take
    phase,    \* playing, nope_window, or what a seat is asked
    pending,  \* the action in its Nope window
    awaiting, \* awaiting_seat
    known,    \* known_top: what See the Future revealed
    winner

vars == <<draw, hands, discard, current, turns, phase, pending, awaiting, known, winner>>
piles == <<draw, hands, discard>>

Init ==
    /\ \E deal \in Deals : draw = deal.draw /\ hands = deal.hands
    /\ discard = [c \in Cards |-> 0]
    /\ current = USER /\ turns = 1 /\ phase = "playing"
    /\ pending = NoPending /\ awaiting = None /\ winner = None
    /\ known = [s \in SEATS |-> <<>>]

Holds(hand, c) == hand[c] > 0
Holding(hand) == {c \in Cards : Holds(hand, c)}
Without(hand, c, n) == [hand EXCEPT ![c] = @ - n]
With(hand, c, n) == [hand EXCEPT ![c] = @ + n]
\* Slip: the giver keeps the card.
PassedCopy(h, from, c) == [h EXCEPT ![Other(from)] = With(@, c, 1)]
\* the hands after a card goes from one seat to the other
Passed(h, from, c) == [h EXCEPT ![from] = Without(@, c, 1), ![Other(from)] = With(@, c, 1)]
Forgotten == [s \in SEATS |-> <<>>]

(***************************************************************************)
(* The turn, and an action that survived its window (_apply).  h and d are *)
(* the hands and the discard pile the action finds.                        *)
(***************************************************************************)
Hold(h, d) == hands' = h /\ discard' = d
Play == phase' = "playing" /\ awaiting' = None
AskFor(what, s) == phase' = what /\ awaiting' = s
SameTurn == UNCHANGED <<current, turns>>

EndTurn ==
    IF turns > 1 THEN turns' = turns - 1 /\ UNCHANGED current
    ELSE turns' = 1 /\ current' = Other(current)

Owed == IF turns <= 1 THEN ATTACK_TURNS ELSE turns + ATTACK_TURNS

Steal(p, h, d) ==
    LET victim == Other(p.actor) IN
    /\ IF Holding(h[victim]) = {} THEN Hold(h, d)
       ELSE \E c \in Holding(h[victim]) : Hold(Passed(h, victim, c), d)
    /\ Play /\ SameTurn /\ UNCHANGED <<draw, known>>

Demand(p, h, d) ==
    LET victim == Other(p.actor) IN
    /\ Hold(IF Holds(h[victim], p.named) THEN Passed(h, victim, p.named) ELSE h, d)
    /\ Play /\ SameTurn /\ UNCHANGED <<draw, known>>

Salvage(p, h, d) ==
    /\ Hold(h, d) /\ AskFor("salvage", p.actor) /\ SameTurn /\ UNCHANGED <<draw, known>>

Shuffles == {s \in [1..Len(draw) -> ToSet(draw)] :
                \A c \in ToSet(draw) : Cardinality({i \in DOMAIN s : s[i] = c})
                                     = Cardinality({i \in DOMAIN draw : draw[i] = c})}
Reshuffle == draw' \in Shuffles /\ known' = Forgotten

Effect(p, h, d) ==
    /\ Hold(h, d)
    /\ \/ p.card = "attack" /\ current' = Other(p.actor) /\ turns' = Owed
          /\ Play /\ UNCHANGED <<draw, known>>
       \/ p.card = "skip" /\ EndTurn /\ Play /\ UNCHANGED <<draw, known>>
       \/ p.card = "shuffle" /\ Reshuffle /\ Play /\ SameTurn
       \/ p.card = "see_the_future" /\ Play /\ SameTurn /\ UNCHANGED draw
          /\ known' = [known EXCEPT ![p.actor] = SubSeq(draw, 1, IF Len(draw) < FUTURE_DEPTH THEN Len(draw) ELSE FUTURE_DEPTH)]
       \/ p.card = "favor" /\ SameTurn /\ UNCHANGED <<draw, known>>
          /\ IF Holding(h[Other(p.actor)]) = {} THEN Play ELSE AskFor("favor", Other(p.actor))

Resolve(p, h, d) ==
    /\ pending' = NoPending /\ UNCHANGED winner
    /\ IF p.nopes % 2 = 1
       THEN Hold(h, d) /\ Play /\ SameTurn /\ UNCHANGED <<draw, known>>
       ELSE CASE p.kind = "combo_two"   -> Steal(p, h, d)
              [] p.kind = "combo_three" -> Demand(p, h, d)
              [] p.kind = "combo_five"  -> Salvage(p, h, d)
              [] OTHER                  -> Effect(p, h, d)

\* the user's own window is closed at once when the user holds no Nope
OpenWindow(p, h, d) ==
    IF Other(p.last) = USER /\ ~Holds(h[USER], NOPE) THEN Resolve(p, h, d)
    ELSE /\ pending' = p /\ phase' = "nope_window" /\ Hold(h, d)
         /\ UNCHANGED <<draw, current, turns, awaiting, known, winner>>

Expire ==
    /\ phase = "nope_window" /\ Resolve(pending, hands, discard)

(***************************************************************************)
(* The moves.                                                              *)
(***************************************************************************)
MyTurn(s) == phase = "playing" /\ current = s

MayPlay(s, c) == MyTurn(s) /\ c \in Effects /\ Holds(hands[s], c)
PlayCard(s, c) ==
    /\ MayPlay(s, c)
    /\ OpenWindow([kind |-> "card", actor |-> s, card |-> c, named |-> None, nopes |-> 0, last |-> s],
                  [hands EXCEPT ![s] = Without(@, c, 1)], With(discard, c, 1))

MayMatch(s, c, n) == MyTurn(s) /\ c \notin UNPLAYABLE /\ hands[s][c] >= n
Combo(s, c, n, named) ==
    /\ MayMatch(s, c, n)
    /\ OpenWindow([kind |-> IF n = 2 THEN "combo_two" ELSE "combo_three", actor |-> s, card |-> c,
                   named |-> named, nopes |-> 0, last |-> s],
                  [hands EXCEPT ![s] = Without(@, c, n)], With(discard, c, n))

\* five different cards: whether they may be played from a hand is not asked here
MayFive(s, five) ==
    /\ MyTurn(s) /\ Cardinality(five) = COMBO_FIVE
    /\ five \subseteq Holding(hands[s]) /\ Holding(discard) # {}
ComboFive(s, five) ==
    /\ MayFive(s, five)
    /\ LET moved(pile, n) == [c \in Cards |-> IF c \in five THEN pile[c] + n ELSE pile[c]] IN
       OpenWindow([kind |-> "combo_five", actor |-> s, card |-> CHOOSE c \in five : TRUE,
                   named |-> None, nopes |-> 0, last |-> s],
                  [hands EXCEPT ![s] = moved(@, -1)], moved(discard, 1))

MayNope(s) == phase = "nope_window" /\ Other(pending.last) = s /\ Holds(hands[s], NOPE)
Nope(s) ==
    /\ MayNope(s)
    /\ OpenWindow([pending EXCEPT !.nopes = @ + 1, !.last = s],
                  [hands EXCEPT ![s] = Without(@, NOPE, 1)], With(discard, NOPE, 1))

MayPass(s) == phase = "nope_window" /\ Other(pending.last) = s
PassNope(s) == MayPass(s) /\ Resolve(pending, hands, discard)

\* Slip: only the seat that draws moves its peek along.
PeeksOfDrawer == [known EXCEPT ![current] = IF @ = <<>> THEN @ ELSE Tail(@)]
PeeksAfterDraw == [s \in SEATS |-> IF known[s] = <<>> THEN <<>> ELSE Tail(known[s])]

MayDraw(s) == MyTurn(s) /\ draw # <<>>
Draw(s) ==
    /\ MayDraw(s) /\ draw' = Tail(draw)
    /\ known' = PeeksAfterDraw
    /\ UNCHANGED pending
    /\ IF Head(draw) # KITTEN
       THEN /\ hands' = [hands EXCEPT ![s] = With(@, Head(draw), 1)]
            /\ EndTurn /\ UNCHANGED <<discard, phase, awaiting, winner>>
       ELSE IF ~Holds(hands[s], DEFUSE)
       THEN /\ discard' = With(discard, KITTEN, 1)
            /\ phase' = "over" /\ winner' = Other(s) /\ awaiting' = None
            /\ UNCHANGED <<hands, current, turns>>
       ELSE /\ hands' = [hands EXCEPT ![s] = Without(@, DEFUSE, 1)]
            /\ discard' = With(With(discard, KITTEN, 1), DEFUSE, 1)
            /\ AskFor("defuse", s) /\ SameTurn /\ UNCHANGED winner

MayInsert(s, i) == phase = "defuse" /\ awaiting = s /\ i \in 0..Len(draw)
InsertKitten(s, i) ==
    /\ MayInsert(s, i)
    /\ draw' = InsertAt(draw, i + 1, KITTEN) /\ discard' = Without(discard, KITTEN, 1)
    /\ known' = Forgotten /\ Play /\ EndTurn
    /\ UNCHANGED <<hands, pending, winner>>

MayGive(s, c) == phase = "favor" /\ awaiting = s /\ Holds(hands[s], c)
GiveFavor(s, c) ==
    /\ MayGive(s, c) /\ hands' = Passed(hands, s, c) /\ Play
    /\ UNCHANGED <<draw, discard, current, turns, pending, known, winner>>

MayTake(s, c) == phase = "salvage" /\ awaiting = s /\ Holds(discard, c) /\ c # KITTEN
TakeFromDiscard(s, c) ==
    /\ MayTake(s, c) /\ Play
    /\ discard' = Without(discard, c, 1) /\ hands' = [hands EXCEPT ![s] = With(@, c, 1)]
    /\ UNCHANGED <<draw, current, turns, pending, known, winner>>

Concede(s) ==
    /\ phase # "over" /\ phase' = "over" /\ winner' = Other(s)
    /\ pending' = NoPending /\ awaiting' = None
    /\ UNCHANGED <<piles, current, turns, known>>

Next ==
    \/ Expire
    \/ \E s \in SEATS :
        \/ Nope(s) \/ PassNope(s) \/ Draw(s) \/ Concede(s)
        \/ \E c \in Cards : PlayCard(s, c) \/ GiveFavor(s, c) \/ TakeFromDiscard(s, c)
        \/ \E c \in Cards : Combo(s, c, 2, None)
        \/ \E c, named \in Cards : Combo(s, c, 3, named)
        \/ \E five \in SUBSET Holding(hands[s]) : ComboFive(s, five)
        \/ \E i \in 0..Len(draw) : InsertKitten(s, i)

Spec == Init /\ [][Next]_vars

(***************************************************************************)
(* legal_moves: the menu the model and the page are given.                 *)
(***************************************************************************)
Move(what, c) == [move |-> what, card |-> c]
Window(s) == phase = "nope_window" /\ Other(pending.last) = s
Asked(s, what) == phase = what /\ awaiting = s

\* Slip: five cards are offered whatever lies in the discard pile.
OffersFive(s) == Cardinality(Holding(hands[s]) \ UNPLAYABLE) >= COMBO_FIVE
MenuFive(s) == Cardinality(Holding(hands[s]) \ UNPLAYABLE) >= COMBO_FIVE /\ Holding(discard) # {}

Menu(s) ==
    IF Window(s) THEN {Move("pass_nope", None)} \union
                      (IF Holds(hands[s], NOPE) THEN {Move("nope", None)} ELSE {})
    ELSE IF Asked(s, "favor") THEN {Move("give_favor", c) : c \in Holding(hands[s])}
    ELSE IF Asked(s, "defuse") THEN {Move("insert_kitten", None)}
    ELSE IF Asked(s, "salvage")
         THEN {Move("take_from_discard", c) : c \in Holding(discard) \ {KITTEN}}
    ELSE IF ~MyTurn(s) THEN {}
    ELSE {Move("play", c) : c \in Holding(hands[s]) \cap Effects}
         \union {Move("combo_two", c) : c \in {x \in Cards \ UNPLAYABLE : hands[s][x] >= 2}}
         \union {Move("combo_three", c) : c \in {x \in Cards \ UNPLAYABLE : hands[s][x] >= 3}}
         \union (IF MenuFive(s) THEN {Move("combo_five", None)} ELSE {})
         \union {Move("draw", None)}

-----------------------------------------------------------------------------
Count(c) == discard[c] + hands[USER][c] + hands[RAU][c] + Cardinality({i \in DOMAIN draw : draw[i] = c})

TypeOK ==
    /\ \A s \in SEATS : DOMAIN hands[s] = Cards
    /\ \A c \in Cards : {discard[c], hands[USER][c], hands[RAU][c]} \subseteq Nat
    /\ current \in SEATS /\ turns \in Nat \ {0} /\ awaiting \in SEATS \union {None}
    /\ (phase = "nope_window") = (pending # NoPending)
    /\ (awaiting # None) = (phase \in {"favor", "defuse", "salvage"})
    /\ (winner # None) = (phase = "over")

\* No play, theft, favor, salvage or explosion makes a card, loses one or turns it into another:
\* what lies about is what one of the deals put on the table.
Dealt(d, c) == d.hands[USER][c] + d.hands[RAU][c] + Cardinality({i \in DOMAIN d.draw : d.draw[i] = c})
CardsConserved == \E d \in Deals : \A c \in Cards : Count(c) = Dealt(d, c)

\* "a stale peek is a lie": whatever was drawn, shuffled or put back since, what a seat remembers
\* of See the Future is the top of the pile as it lies there.
PeekIsTrue == \A s \in SEATS : IsPrefix(known[s], draw)

\* The menu is kept: every move it lists is one the rules accept, and until the game is over
\* somebody has one: neither the pile nor a hand that is asked for a card runs out.
Accepted(s, m) ==
    CASE m.move = "nope"              -> MayNope(s)
      [] m.move = "pass_nope"         -> MayPass(s)
      [] m.move = "give_favor"        -> MayGive(s, m.card)
      [] m.move = "insert_kitten"     -> \A i \in 0..Len(draw) : MayInsert(s, i)
      [] m.move = "take_from_discard" -> MayTake(s, m.card)
      [] m.move = "play"              -> MayPlay(s, m.card)
      [] m.move = "combo_two"         -> MayMatch(s, m.card, 2)
      [] m.move = "combo_three"       -> MayMatch(s, m.card, 3)
      [] m.move = "combo_five"        -> \E five \in SUBSET (Holding(hands[s]) \ UNPLAYABLE) : MayFive(s, five)
      [] m.move = "draw"              -> MayDraw(s)
MenuIsHonest ==
    /\ \A s \in SEATS : \A m \in Menu(s) : Accepted(s, m)
    /\ phase # "over" => \E s \in SEATS : Menu(s) # {}

\* deck.py: "Cards that may not be played from hand as an action. Defuse is spent by the engine
\* when a kitten is drawn": a hand loses a Defuse to a theft, a favor or a kitten.
DefuseMeetsKitten ==
    [][\A s \in SEATS : hands'[s][DEFUSE] < hands[s][DEFUSE] =>
            phase' = "defuse" \/ hands'[Other(s)][DEFUSE] > hands[Other(s)][DEFUSE]]_vars
=============================================================================
