----------------------------- MODULE GameProofs -----------------------------
(***************************************************************************)
(* What the games keep, for all values of the constants: the table and its *)
(* pump (GameTables), the rules of Exploding Kittens and Rau's seat at     *)
(* them (Kittens, KittensPlayer), an evening of chess (ChessEvening). Each *)
(* is a specification of its own, instantiated under a name of its own.    *)
(***************************************************************************)
EXTENDS Integers, Sequences, FiniteSets, TLAPS, FiniteSetTheorems

(* The table and its games.                                                   *)

CONSTANTS Guests, Thinkers, MaxGames, MaxPumps
VARIABLES laid, dealt, tableOf, toMove, finished, booked, notes, playing, atTable, board, away,
          files, mine, stray, pump, pumps, pumpAt, pumpOn, pumpGame, told, thinking
Table == INSTANCE GameTables WITH
    Requests <- Guests, Turns <- Thinkers, out <- laid, pc <- playing, on <- atTable, obj <- board

\* The callers from outside are not threads of Rau's turns, and the bounds are numbers.
TableAssumption == Guests \cap Thinkers = {} /\ MaxGames \in Nat /\ MaxPumps \in Nat

Tables == Table!Tables
Callers == Table!Callers
Pumps == Table!Pumps
Games == Table!Games
Seats == {"idle", "sweep", "swept", "put", "reset", "ensure", "take", "taken", "play", "record",
          "leaves", "wakes", "chooses", "moves"}
Rounds == {"none", "looks", "ticks", "books", "files", "quits", "starts", "dead"}

TableTypes ==
    /\ laid \in [Tables -> Nat] /\ dealt \in 0..MaxGames /\ tableOf \in [Games -> Tables]
    /\ finished \in Seq(Nat) /\ booked \in Seq(Nat)
    /\ away \in [Guests -> Nat] /\ files \in [Guests -> Nat]
    /\ playing \in [Callers -> Seats] /\ atTable \in [Callers -> Tables]
    /\ board \in [Callers -> Nat]
    /\ pump \in [Tables -> Nat] /\ pumps \in 0..MaxPumps
    /\ pumpAt \in [Pumps -> Rounds] /\ pumpOn \in [Pumps -> Tables]
    /\ pumpGame \in [Pumps -> Nat] /\ mine \in [Thinkers -> Nat]

\* A game is at one table; one that is being set up is nowhere else; what a pump watches, what a
\* guest takes away and what was booked has been dealt.
Laid == \A g \in Tables : laid[g] # 0 => laid[g] \in 1..dealt /\ tableOf[laid[g]] = g
SettingUp == {"sweep", "swept", "put"}
Nowhere(i) ==
    /\ \A g \in Tables : laid[g] # i
    /\ \A p \in Pumps : pumpGame[p] # i
    /\ \A r \in Guests : away[r] # i /\ files[r] # i
    /\ \A k \in 1..Len(booked) : booked[k] # i
Unplayed ==
    \A r \in Guests : playing[r] \in SettingUp
        => /\ board[r] \in 1..dealt /\ Nowhere(board[r])
           /\ \A q \in Guests \ {r} : playing[q] \in SettingUp => board[q] # board[r]
Watched ==
    \A p \in Pumps :
        /\ pumpGame[p] # 0 => pumpGame[p] \in 1..dealt /\ tableOf[pumpGame[p]] = pumpOn[p]
        /\ pumpAt[p] \in {"books", "files"} => pumpGame[p] # 0
        /\ p > pumps => pumpGame[p] = 0 /\ pumpAt[p] = "none"
InTheBooks == \A k \in 1..Len(booked) : booked[k] \in 1..dealt
ChessGame(i) == i \in 1..dealt /\ tableOf[i] = "chess"
Carried ==
    \A r \in Guests : (away[r] # 0 => ChessGame(away[r])) /\ (files[r] # 0 => ChessGame(files[r]))

\* What is written up, or is about to be, was claimed; and while no other game was claimed, at
\* most one writes a game up, and it is not in the books yet.
Claimed(i) == \E a \in 1..Len(finished) : finished[a] = i
OnlyOne(i) == \A a \in 1..Len(finished) : finished[a] = i
PumpFiles(p, i) == pumpAt[p] = "files" /\ pumpGame[p] = i
InBooks(i) == \E k \in 1..Len(booked) : booked[k] = i
Touched(i) == InBooks(i) \/ (\E p \in Pumps : PumpFiles(p, i)) \/ (\E r \in Guests : files[r] = i)
Once(i) ==
    /\ \A p, q \in Pumps : PumpFiles(p, i) /\ PumpFiles(q, i) => p = q
    /\ \A r, q \in Guests : files[r] = i /\ files[q] = i => r = q
    /\ \A p \in Pumps, r \in Guests : ~(PumpFiles(p, i) /\ files[r] = i)
    /\ InBooks(i) => (\A p \in Pumps : ~PumpFiles(p, i)) /\ (\A r \in Guests : files[r] # i)
    /\ \A j, k \in 1..Len(booked) : booked[j] = i /\ booked[k] = i => j = k
Accounted == \A i : ChessGame(i) /\ Touched(i) => Claimed(i)
OncePerClaim == \A i : ChessGame(i) /\ OnlyOne(i) => Once(i)
BooksAreRight == Laid /\ Unplayed /\ Watched /\ InTheBooks /\ Carried /\ Accounted /\ OncePerClaim

LEMMA TablesAre ==
    ASSUME TableAssumption
    PROVE  /\ Tables = {"chess", "kittens"} /\ Callers = Guests \cup Thinkers
           /\ Games = 1..MaxGames /\ Pumps = 1..MaxPumps /\ MaxGames \in Nat /\ MaxPumps \in Nat
           /\ \A g : Table!Other(g) \in Tables
BY DEF Tables, Table!Tables, Callers, Table!Callers, Games, Table!Games, Pumps, Table!Pumps,
       Table!Other, TableAssumption

\* What a guest, a thread of Rau's and a pump do.
Guest(r) ==
    \/ \E g \in Tables : Table!Start(r, g) \/ Table!End(r, g) \/ Table!Move(r, g)
    \/ Table!Put(r) \/ Table!Reset(r) \/ Table!Take(r) \/ Table!Taken(r)
    \/ Table!ClaimTaken(r) \/ Table!WriteTaken(r)
Player(c) == Table!Play(c) \/ Table!Record(c) \/ Table!EnsurePump(c)
Thinker(t) ==
    Table!Wake(t) \/ Table!Choose(t) \/ Table!GiveUp(t) \/ Table!TurnMoves(t) \/ Table!TurnEnds(t)
Round(p) ==
    \/ Table!Look(p) \/ Table!Tick(p) \/ Table!Book(p) \/ Table!File(p) \/ Table!Quit(p)
    \/ Table!Die(p)
    \/ \E t \in Thinkers : Table!StartTurn(p, t)

LEMMA TableMoves ==
    ASSUME [Table!Next]_(Table!vars)
    PROVE  \/ UNCHANGED Table!vars
           \/ \E r \in Guests : Guest(r)
           \/ \E c \in Callers : Player(c)
           \/ \E p \in Pumps : Round(p)
           \/ \E t \in Thinkers : Thinker(t)
BY Zenon DEF Table!Next, Table!Request, Table!Pump, Table!Turn, Guest, Player, Round, Thinker,
             Tables, Callers, Pumps

LEMMA TableTypesInit == ASSUME TableAssumption, Table!Init PROVE TableTypes
<1>1. laid = [g \in Tables |-> 0] /\ tableOf = [i \in Games |-> "chess"] /\ pump = [g \in Tables |-> 0]
  BY DEF Table!Init, Tables, Games
<1>2. /\ playing = [c \in Callers |-> "idle"] /\ atTable = [c \in Callers |-> "chess"]
      /\ board = [c \in Callers |-> 0] /\ mine = [t \in Thinkers |-> 0]
  BY DEF Table!Init, Callers
<1>3. /\ pumpAt = [p \in Pumps |-> "none"] /\ pumpOn = [p \in Pumps |-> "chess"]
      /\ pumpGame = [p \in Pumps |-> 0]
  BY DEF Table!Init, Pumps
<1>4. /\ dealt = 0 /\ finished = <<>> /\ booked = <<>> /\ pumps = 0
      /\ away = [r \in Guests |-> 0] /\ files = [r \in Guests |-> 0]
  BY DEF Table!Init
<1>5. "idle" \in Seats /\ "none" \in Rounds /\ {"chess"} \subseteq Tables
  BY TablesAre DEF Seats, Rounds
<1> QED
  BY <1>1, <1>2, <1>3, <1>4, <1>5, TablesAre DEF TableTypes

LEMMA Sits == ASSUME TableTypes, NEW c, NEW s \in Seats, Table!Goto(c, s)
              PROVE  playing' \in [Callers -> Seats]
BY DEF TableTypes, Table!Goto

LEMMA LeavesTyped == ASSUME TableTypes, NEW c, Table!Leave(c)
                     PROVE  playing' \in [Callers -> Seats] /\ board' \in [Callers -> Nat]
<1>1. (IF c \in Thinkers THEN "leaves" ELSE "idle") \in Seats
  BY DEF Seats
<1>2. playing' \in [Callers -> Seats]
  BY <1>1, Sits DEF Table!Leave
<1> QED
  BY <1>2 DEF Table!Leave, TableTypes

LEMMA ClaimTyped == ASSUME TableTypes, NEW i \in Nat, Table!Claim(i) PROVE finished' \in Seq(Nat)
BY DEF TableTypes, Table!Claim

LEMMA WriteTyped == ASSUME TableTypes, NEW i \in Nat, Table!WriteUp(i) PROVE booked' \in Seq(Nat)
BY DEF TableTypes, Table!WriteUp

LEMMA EnsureTyped ==
    ASSUME TableAssumption, TableTypes, NEW g \in Tables, Table!Ensure(g)
    PROVE  /\ pump' \in [Tables -> Nat] /\ pumps' \in 0..MaxPumps /\ pumpAt' \in [Pumps -> Rounds]
           /\ pumpOn' \in [Pumps -> Tables] /\ pumpGame' = pumpGame
<1>1. CASE UNCHANGED Table!pumpVars
  BY <1>1 DEF Table!pumpVars, TableTypes
<1>2. CASE /\ pumps < MaxPumps /\ pumps' = pumps + 1
           /\ pump' = [pump EXCEPT ![g] = pumps + 1]
           /\ pumpAt' = [pumpAt EXCEPT ![pumps + 1] = "looks"]
           /\ pumpOn' = [pumpOn EXCEPT ![pumps + 1] = g]
           /\ pumpGame' = pumpGame
  <2>1. pumps' \in 0..MaxPumps /\ pumps + 1 \in Nat
    BY <1>2, TablesAre DEF TableTypes
  <2>2. pumpAt' \in [Pumps -> Rounds]
    BY <1>2 DEF TableTypes, Rounds
  <2> QED
    BY <1>2, <2>1, <2>2 DEF TableTypes
<1> QED
  BY <1>1, <1>2 DEF Table!Ensure

LEMMA GuestTypes ==
    ASSUME TableAssumption, TableTypes, NEW r \in Guests, Guest(r)
    PROVE  TableTypes'
<1>0. r \in Callers
  BY TablesAre
<1>1. ASSUME NEW g \in Tables, Table!Start(r, g) PROVE TableTypes'
  <2>1. (IF laid[Table!Other(g)] # 0 THEN "sweep" ELSE "put") \in Seats
    BY DEF Seats
  <2>2. playing' \in [Callers -> Seats]
    BY <1>1, <2>1, Sits DEF Table!Start
  <2>3. dealt' \in 0..MaxGames /\ dealt + 1 \in Nat
    BY <1>1, TablesAre DEF Table!Start, TableTypes
  <2>4. atTable' \in [Callers -> Tables] /\ board' \in [Callers -> Nat]
    BY <1>1, <2>3 DEF Table!Start, TableTypes
  <2> QED
    BY <1>1, <2>2, <2>3, <2>4
    DEF Table!Start, TableTypes, Table!fileVars, Table!bookVars, Table!turnVars, Table!pumpVars
<1>2. ASSUME NEW g \in Tables, Table!End(r, g) PROVE TableTypes'
  <2>1. playing' \in [Callers -> Seats]
    BY <1>2, Sits DEF Table!End, Seats
  <2> QED
    BY <1>2, <2>1 DEF Table!End, TableTypes, Table!fileVars, Table!gameVars, Table!bookVars,
                      Table!turnVars, Table!pumpVars
<1>3. ASSUME NEW g \in Tables, Table!Move(r, g) PROVE TableTypes'
  <2>1. playing' \in [Callers -> Seats]
    BY <1>3, Sits DEF Table!Move, Seats
  <2> QED
    BY <1>3, <2>1 DEF Table!Move, TableTypes, Table!fileVars, Table!gameVars, Table!bookVars,
                      Table!turnVars, Table!pumpVars
<1>4. CASE Table!Put(r)
  <2>1. playing' \in [Callers -> Seats]
    BY <1>4, Sits DEF Table!Put, Seats
  <2>2. board[r] \in Nat /\ atTable[r] \in Tables
    BY <1>0 DEF TableTypes
  <2>3. laid' \in [Tables -> Nat] /\ tableOf' \in [Games -> Tables]
    BY <1>4, <2>2 DEF Table!Put, TableTypes
  <2> QED
    BY <1>4, <2>1, <2>3 DEF Table!Put, TableTypes, Table!fileVars, Table!bookVars, Table!turnVars,
                            Table!pumpVars
<1>5. CASE Table!Reset(r)
  <2>1. playing' \in [Callers -> Seats]
    BY <1>5, Sits DEF Table!Reset, Seats
  <2> QED
    BY <1>5, <2>1 DEF Table!Reset, TableTypes, Table!fileVars, Table!gameVars, Table!turnVars,
                      Table!pumpVars
<1>6. CASE Table!Take(r)
  <2>1. (IF Table!At(r, "sweep") THEN "swept" ELSE "taken") \in Seats
    BY DEF Seats
  <2>2. playing' \in [Callers -> Seats]
    BY <1>6, <2>1, Sits DEF Table!Take
  <2>3. Table!Leaving(r) \in Tables
    BY <1>0, TablesAre DEF Table!Leaving, TableTypes
  <2>4. laid' \in [Tables -> Nat]
    BY <1>6 DEF Table!Take, TableTypes
  <2>5. away' \in [Guests -> Nat]
    <3>1. laid[Table!Leaving(r)] \in Nat /\ away \in [Guests -> Nat]
      BY <2>3 DEF TableTypes
    <3>2. away' = away \/ away' = [away EXCEPT ![r] = laid[Table!Leaving(r)]]
      BY <1>6 DEF Table!Take
    <3> QED
      BY <3>1, <3>2
  <2> QED
    BY <1>6, <2>2, <2>4, <2>5
    DEF Table!Take, TableTypes, Table!fileVars, Table!bookVars, Table!turnVars, Table!pumpVars
<1>7. CASE Table!Taken(r)
  <2>1. (IF Table!At(r, "swept") THEN "put" ELSE "idle") \in Seats
    BY DEF Seats
  <2>2. playing' \in [Callers -> Seats]
    BY <1>7, <2>1, Sits DEF Table!Taken
  <2> QED
    BY <1>7, <2>2 DEF Table!Taken, Table!StopPump, TableTypes, Table!fileVars, Table!gameVars,
                      Table!turnVars
<1>8. CASE Table!ClaimTaken(r)
  <2>1. away[r] \in Nat
    BY DEF TableTypes
  <2>2. away' \in [Guests -> Nat] /\ files' \in [Guests -> Nat]
    BY <1>8, <2>1 DEF Table!ClaimTaken, TableTypes
  <2>3. finished' \in Seq(Nat)
    BY <1>8, <2>1, ClaimTyped DEF Table!ClaimTaken
  <2> QED
    BY <1>8, <2>2, <2>3 DEF Table!ClaimTaken, TableTypes, Table!fileVars, Table!gameVars,
                            Table!callVars, Table!turnVars, Table!pumpVars
<1>9. CASE Table!WriteTaken(r)
  <2>1. files[r] \in Nat /\ files' \in [Guests -> Nat]
    BY <1>9 DEF Table!WriteTaken, TableTypes
  <2>2. booked' \in Seq(Nat)
    BY <1>9, <2>1, WriteTyped DEF Table!WriteTaken
  <2> QED
    BY <1>9, <2>1, <2>2 DEF Table!WriteTaken, TableTypes, Table!fileVars, Table!gameVars,
                            Table!callVars, Table!turnVars, Table!pumpVars
<1> QED
  BY <1>1, <1>2, <1>3, <1>4, <1>5, <1>6, <1>7, <1>8, <1>9 DEF Guest

LEMMA PlayerTypes ==
    ASSUME TableAssumption, TableTypes, NEW c \in Callers, Player(c)
    PROVE  TableTypes'
<1>1. CASE Table!Play(c)
  <2>1. (IF atTable[c] = "chess" THEN "record" ELSE "ensure") \in Seats
    BY DEF Seats
  <2>2. playing' \in [Callers -> Seats] /\ board' \in [Callers -> Nat]
    <3>1. CASE Table!Leave(c)
      BY <3>1, LeavesTyped
    <3>2. CASE Table!Goto(c, IF atTable[c] = "chess" THEN "record" ELSE "ensure")
               /\ UNCHANGED board
      BY <2>1, <3>2, Sits DEF TableTypes
    <3> QED
      BY <1>1, <3>1, <3>2 DEF Table!Play
  <2> QED
    BY <1>1, <2>2 DEF Table!Play, TableTypes, Table!fileVars, Table!bookVars, Table!pumpVars
<1>2. CASE Table!Record(c)
  <2>1. playing' \in [Callers -> Seats] /\ board' \in [Callers -> Nat]
    <3>1. CASE Table!Leave(c)
      BY <3>1, LeavesTyped
    <3>2. CASE Table!Goto(c, "ensure") /\ UNCHANGED board
      BY <3>2, Sits DEF TableTypes, Table!fileVars, Seats
    <3> QED
      BY <1>2, <3>1, <3>2 DEF Table!Record
  <2> QED
    BY <1>2, <2>1 DEF Table!Record, TableTypes, Table!fileVars, Table!gameVars, Table!turnVars,
                      Table!pumpVars
<1>3. CASE Table!EnsurePump(c)
  <2>1. atTable[c] \in Tables
    BY DEF TableTypes
  <2> QED
    BY <1>3, <2>1, LeavesTyped, EnsureTyped
    DEF Table!EnsurePump, TableTypes, Table!fileVars, Table!gameVars, Table!bookVars, Table!turnVars
<1> QED
  BY <1>1, <1>2, <1>3 DEF Player

LEMMA PumpGoes == ASSUME TableTypes, NEW p, NEW from, NEW to \in Rounds, Table!PumpMoves(p, from, to)
                  PROVE  pumpAt' \in [Pumps -> Rounds]
BY DEF TableTypes, Table!fileVars, Table!PumpMoves

LEMMA RoundTypes ==
    ASSUME TableAssumption, TableTypes, NEW p \in Pumps, Round(p)
    PROVE  TableTypes'
<1>1. CASE Table!Look(p)
  <2>1. pumpAt' \in [Pumps -> Rounds]
    BY <1>1, PumpGoes DEF Table!Look, Rounds
  <2> QED
    BY <1>1, <2>1 DEF Table!Look, TableTypes, Table!fileVars, Table!gameVars, Table!bookVars,
                      Table!callVars, Table!turnVars
<1>2. CASE Table!Tick(p)
  <2>1. pumpAt' \in [Pumps -> Rounds]
    BY <1>2, PumpGoes DEF Table!Tick, Rounds
  <2>2. pumpGame' \in [Pumps -> Nat]
    BY <1>2 DEF Table!Tick, Table!TickDone, TableTypes
  <2> QED
    BY <1>2, <2>1, <2>2 DEF Table!Tick, TableTypes, Table!fileVars, Table!gameVars, Table!bookVars,
                            Table!callVars, Table!turnVars
<1>3. CASE Table!Book(p)
  <2>1. (IF Table!Unclaimed(pumpGame[p]) THEN "files" ELSE "quits") \in Rounds /\ "files" \in Rounds
    BY DEF Rounds
  <2>2. pumpAt' \in [Pumps -> Rounds]
    BY <1>3, <2>1, PumpGoes DEF Table!Book
  <2>3. pumpGame[p] \in Nat
    BY DEF TableTypes
  <2>4. finished' \in Seq(Nat)
    BY <1>3, <2>3, ClaimTyped DEF Table!Book, TableTypes
  <2> QED
    BY <1>3, <2>2, <2>4 DEF Table!Book, TableTypes, Table!fileVars, Table!gameVars, Table!callVars,
                            Table!turnVars
<1>6. CASE Table!File(p)
  <2>1. pumpAt' \in [Pumps -> Rounds]
    BY <1>6, PumpGoes DEF Table!File, Rounds
  <2>2. pumpGame[p] \in Nat
    BY DEF TableTypes
  <2>3. booked' \in Seq(Nat)
    BY <1>6, <2>2, WriteTyped DEF Table!File
  <2> QED
    BY <1>6, <2>1, <2>3 DEF Table!File, TableTypes, Table!fileVars, Table!gameVars, Table!callVars,
                            Table!turnVars
<1>4. CASE Table!Quit(p) \/ Table!Die(p)
  <2>1. pumpAt' \in [Pumps -> Rounds]
    BY <1>4, PumpGoes DEF Table!Quit, Table!Die, Rounds
  <2>2. pumpGame' = [pumpGame EXCEPT ![p] = 0] \/ pumpGame' = pumpGame
    BY <1>4 DEF Table!Quit, Table!Die, Table!TickDone
  <2>3. pumpGame' \in [Pumps -> Nat]
    <3>1. pumpGame \in [Pumps -> Nat]
      BY DEF TableTypes
    <3> QED
      BY <2>2, <3>1
  <2> QED
    BY <1>4, <2>1, <2>3 DEF Table!Quit, Table!Die, TableTypes, Table!fileVars, Table!gameVars,
                            Table!bookVars, Table!callVars, Table!turnVars
<1>5. ASSUME NEW t \in Thinkers, Table!StartTurn(p, t) PROVE TableTypes'
  <2>1. pumpAt' \in [Pumps -> Rounds]
    BY <1>5, PumpGoes DEF Table!StartTurn, Rounds
  <2>2. playing' \in [Callers -> Seats]
    BY <1>5, Sits DEF Table!StartTurn, Seats
  <2>3. atTable' \in [Callers -> Tables] /\ pumpGame' \in [Pumps -> Nat]
    BY <1>5 DEF Table!StartTurn, Table!TickDone, TableTypes
  <2> QED
    BY <1>5, <2>1, <2>2, <2>3 DEF Table!StartTurn, TableTypes, Table!fileVars, Table!gameVars,
                                  Table!bookVars
<1> QED
  BY <1>1, <1>2, <1>3, <1>4, <1>5, <1>6 DEF Round

LEMMA ThinkerTypes ==
    ASSUME TableAssumption, TableTypes, NEW t \in Thinkers, Thinker(t)
    PROVE  TableTypes'
<1>0. t \in Callers
  BY TablesAre
<1>1. playing' \in [Callers -> Seats]
  BY Sits DEF Thinker, Table!Wake, Table!Choose, Table!GiveUp, Table!TurnMoves, Table!TurnEnds,
              Seats
<1>2. laid[atTable[t]] \in Nat
  BY <1>0 DEF TableTypes
<1>3. CASE Table!Wake(t)
  <2>1. mine' \in [Thinkers -> Nat]
    BY <1>2, <1>3 DEF Table!Wake, TableTypes
  <2> QED
    BY <1>1, <1>3, <2>1 DEF Table!Wake, TableTypes, Table!fileVars, Table!gameVars, Table!bookVars,
                            Table!pumpVars
<1>4. CASE Table!Choose(t) \/ Table!GiveUp(t)
  BY <1>1, <1>4 DEF Table!Choose, Table!GiveUp, TableTypes, Table!fileVars, Table!gameVars,
                    Table!bookVars, Table!turnVars, Table!pumpVars
<1>5. CASE Table!TurnMoves(t)
  BY <1>1, <1>2, <1>5 DEF Table!TurnMoves, TableTypes, Table!fileVars, Table!gameVars,
                          Table!bookVars, Table!turnVars, Table!pumpVars
<1>6. CASE Table!TurnEnds(t)
  BY <1>1, <1>6 DEF Table!TurnEnds, TableTypes, Table!fileVars, Table!gameVars, Table!bookVars,
                    Table!pumpVars
<1> QED
  BY <1>3, <1>4, <1>5, <1>6 DEF Thinker

LEMMA TableTypesStep ==
    ASSUME TableAssumption, TableTypes, [Table!Next]_(Table!vars)
    PROVE  TableTypes'
<1>1. CASE UNCHANGED Table!vars
  BY <1>1 DEF Table!vars, Table!gameVars, Table!bookVars, Table!callVars, Table!fileVars,
              Table!turnVars, Table!pumpVars, TableTypes
<1> QED
  BY <1>1, TableMoves, GuestTypes, PlayerTypes, RoundTypes, ThinkerTypes

\* The accounts stand while nothing is claimed or written up.
LEMMA AccountsStand ==
    ASSUME BooksAreRight, UNCHANGED <<booked, finished>>,
           \A i : ChessGame(i)' =>
               \/ ~Touched(i)'
               \/ /\ ChessGame(i) /\ \A r \in Guests : files'[r] = i => files[r] = i
                  /\ \A p \in Pumps : PumpFiles(p, i)' => PumpFiles(p, i)
    PROVE  Accounted' /\ OncePerClaim'
<1>1. ASSUME NEW i, ChessGame(i)' PROVE (Touched(i)' => Claimed(i)') /\ (OnlyOne(i)' => Once(i)')
  <2>1. CASE ~Touched(i)'
    BY <2>1 DEF Touched, Once, InBooks
  <2>2. CASE /\ ChessGame(i) /\ \A r \in Guests : files'[r] = i => files[r] = i
             /\ \A p \in Pumps : PumpFiles(p, i)' => PumpFiles(p, i)
    <3>1. InBooks(i)' = InBooks(i) /\ Claimed(i)' = Claimed(i) /\ OnlyOne(i)' = OnlyOne(i)
      BY DEF InBooks, Claimed, OnlyOne
    <3>2. Touched(i)' => Touched(i)
      BY <2>2, <3>1, Zenon DEF Touched
    <3>3. Once(i) => Once(i)'
      BY <2>2, <3>1 DEF Once
    <3> QED
      BY <2>2, <3>1, <3>2, <3>3 DEF BooksAreRight, Accounted, OncePerClaim
  <2> QED
    BY <1>1, <2>1, <2>2
<1> QED
  BY <1>1 DEF Accounted, OncePerClaim

\* A claim of the first game to be claimed finds it untouched.
LEMMA FirstClaim ==
    ASSUME TableTypes, BooksAreRight, UNCHANGED <<tableOf, dealt>>,
           NEW m \in Nat, Table!Claim(m), Table!Unclaimed(m),
           NEW i, ChessGame(i), OnlyOne(i)'
    PROVE  i = m /\ ~Touched(i)
<1>1. finished \in Seq(Nat) /\ finished' = Append(finished, m) /\ Len(finished) \in Nat
  BY DEF TableTypes, Table!Claim
<1>2. /\ Len(finished') = Len(finished) + 1 /\ finished'[Len(finished) + 1] = m
      /\ \A a \in 1..Len(finished) : finished'[a] = finished[a]
  BY <1>1
<1>3. i = m
  BY <1>1, <1>2 DEF OnlyOne
<1>4. finished = <<>>
  <2>1. finished # <<>> => Len(finished) \in 1..Len(finished)
    BY <1>1
  <2>2. finished # <<>> => finished[Len(finished)] # m
    BY DEF Table!Unclaimed, Table!FinishedId
  <2> QED
    BY <1>1, <1>2, <1>3, <2>1, <2>2 DEF OnlyOne
<1>5. ~Claimed(i)
  BY <1>4 DEF Claimed
<1> QED
  BY <1>3, <1>5 DEF BooksAreRight, Accounted

\* A claim adds to what was claimed.
LEMMA ClaimAdds ==
    ASSUME TableTypes, NEW m \in Nat, Table!Claim(m)
    PROVE  /\ \A i : Claimed(i) => Claimed(i)'
           /\ Table!Unclaimed(m) => Claimed(m)'
           /\ ~Table!Unclaimed(m) => finished' = finished
<1>1. finished \in Seq(Nat) /\ Len(finished) \in Nat
  BY DEF TableTypes
<1>2. CASE Table!Unclaimed(m)
  <2>1. /\ Len(finished') = Len(finished) + 1 /\ finished'[Len(finished) + 1] = m
        /\ \A a \in 1..Len(finished) : finished'[a] = finished[a]
    BY <1>1, <1>2 DEF Table!Claim
  <2>2. Claimed(m)'
    BY <1>1, <2>1 DEF Claimed
  <2>3. ASSUME NEW i, Claimed(i) PROVE Claimed(i)'
    <3>1. PICK a \in 1..Len(finished) : finished[a] = i
      BY <2>3 DEF Claimed
    <3>2. a \in 1..Len(finished') /\ finished'[a] = i
      BY <1>1, <2>1, <3>1
    <3> QED
      BY <3>2 DEF Claimed
  <2> QED
    BY <1>2, <2>2, <2>3
<1>3. CASE ~Table!Unclaimed(m)
  BY <1>3 DEF Table!Claim, Claimed
<1> QED
  BY <1>2, <1>3

\* One more that writes up the game it has claimed.
LEMMA ClaimAccounts ==
    ASSUME TableTypes, BooksAreRight, UNCHANGED <<tableOf, dealt, booked>>,
           NEW m \in Nat, Table!Claim(m), Table!Unclaimed(m),
           \A i : i # m => /\ \A r \in Guests : files'[r] = i => files[r] = i \/ i = 0
                          /\ \A p \in Pumps : PumpFiles(p, i)' => PumpFiles(p, i),
           ~Touched(m) => Once(m)'
    PROVE  Accounted' /\ OncePerClaim'
<1>1. ASSUME NEW i, ChessGame(i)', Touched(i)' PROVE Claimed(i)'
  <2>1. CASE i = m
    BY <2>1, ClaimAdds
  <2>2. CASE i # m
    <3>1. ChessGame(i) /\ i # 0
      BY <1>1 DEF ChessGame
    <3>2. Touched(i)
      BY <1>1, <2>2, <3>1, Zenon DEF Touched, InBooks
    <3> QED
      BY <3>1, <3>2, ClaimAdds DEF BooksAreRight, Accounted
  <2> QED
    BY <2>1, <2>2
<1>2. ASSUME NEW i, ChessGame(i)', OnlyOne(i)' PROVE Once(i)'
  <2>1. ChessGame(i)
    BY <1>2 DEF ChessGame
  <2> QED
    BY <1>2, <2>1, FirstClaim
<1> QED
  BY <1>1, <1>2 DEF Accounted, OncePerClaim

\* The one that claimed a game writes it up.
LEMMA WriteAccounts ==
    ASSUME TableTypes, BooksAreRight, UNCHANGED <<tableOf, dealt, finished>>,
           NEW m \in 1..dealt, booked' = Append(booked, m),
           \A i : ChessGame(i) =>
               /\ \A r \in Guests : files'[r] = i => files[r] = i
               /\ \A p \in Pumps : PumpFiles(p, i)' => PumpFiles(p, i),
           ChessGame(m) => Touched(m),
           ChessGame(m) /\ OnlyOne(m) =>
               /\ ~InBooks(m) /\ \A p \in Pumps : ~PumpFiles(p, m)'
               /\ \A r \in Guests : files'[r] # m
    PROVE  InTheBooks' /\ Accounted' /\ OncePerClaim'
<1>0. booked \in Seq(Nat) /\ Len(booked) \in Nat /\ m \in Nat
  BY DEF TableTypes
<1>1. /\ Len(booked') = Len(booked) + 1 /\ booked'[Len(booked) + 1] = m
      /\ \A k \in 1..Len(booked) : booked'[k] = booked[k]
      /\ \A k \in 1..Len(booked') : k \in 1..Len(booked) \/ k = Len(booked) + 1
  BY <1>0
<1>2. InTheBooks'
  BY <1>1 DEF BooksAreRight, InTheBooks
<1>3. \A i : InBooks(i)' => InBooks(i) \/ i = m
  BY <1>1 DEF InBooks
<1>4. \A i : /\ ChessGame(i)' = ChessGame(i) /\ Claimed(i)' = Claimed(i)
            /\ OnlyOne(i)' = OnlyOne(i)
  BY DEF ChessGame, Claimed, OnlyOne
<1>5. ASSUME NEW i, ChessGame(i), Touched(i)' PROVE Claimed(i)
  <2>1. Touched(i)
    BY <1>3, <1>5, Zenon DEF Touched
  <2> QED
    BY <1>5, <2>1 DEF BooksAreRight, Accounted
<1>6. ASSUME NEW i, ChessGame(i), OnlyOne(i) PROVE Once(i)'
  <2>1. Once(i)
    BY <1>6 DEF BooksAreRight, OncePerClaim
  <2>2. CASE i = m
    <3>1. \A k \in 1..Len(booked) : booked'[k] # m
      BY <1>1, <1>6, <2>2 DEF InBooks
    <3>2. \A j, k \in 1..Len(booked') : booked'[j] = m /\ booked'[k] = m => j = k
      BY <1>1, <3>1
    <3> QED
      BY <1>6, <2>2, <3>2 DEF Once
  <2>3. CASE i # m
    <3>1. \A j, k \in 1..Len(booked') : booked'[j] = i /\ booked'[k] = i => j = k
      BY <1>1, <2>1, <2>3 DEF Once
    <3>2. InBooks(i)' => InBooks(i)
      BY <1>3, <2>3
    <3> QED
      BY <1>6, <2>1, <3>1, <3>2 DEF Once
  <2> QED
    BY <2>2, <2>3
<1> QED
  BY <1>2, <1>4, <1>5, <1>6 DEF Accounted, OncePerClaim

\* The results that were booked stand while no game is put out, taken away, claimed or written up.
LEMMA BooksStand ==
    ASSUME TableAssumption, TableTypes, TableTypes', BooksAreRight,
           UNCHANGED <<laid, tableOf, booked, finished, dealt, away, files>>, Watched',
           \A p \in Pumps : pumpGame'[p] # 0 =>
               pumpGame'[p] = pumpGame[p] \/ \E g \in Tables : pumpGame'[p] = laid[g],
           \A p \in Pumps : pumpAt'[p] = "files" =>
               /\ pumpGame'[p] = pumpGame[p]
               /\ pumpAt[p] = "files" \/ ~ChessGame(pumpGame[p]),
           \A r \in Guests : playing'[r] \in SettingUp
               => playing[r] \in SettingUp /\ board'[r] = board[r]
    PROVE  BooksAreRight'
<1>1. Laid' /\ InTheBooks' /\ Carried' /\ \A i : ChessGame(i)' = ChessGame(i)
  BY DEF BooksAreRight, Laid, InTheBooks, Carried, ChessGame
<1>2. Accounted' /\ OncePerClaim'
  <2>1. \A i : ChessGame(i) => \A p \in Pumps : PumpFiles(p, i)' => PumpFiles(p, i)
    BY DEF PumpFiles
  <2> QED
    BY <1>1, <2>1, AccountsStand
<1>3. ASSUME NEW i \in 1..dealt, Nowhere(i) PROVE Nowhere(i)'
  <2>1. i # 0
    BY <1>3 DEF TableTypes
  <2> QED
    BY <1>3, <2>1 DEF Nowhere
<1>4. Unplayed'
  BY <1>3 DEF BooksAreRight, Unplayed
<1> QED
  BY <1>1, <1>2, <1>4 DEF BooksAreRight

LEMMA PumpsStand ==
    ASSUME TableTypes, Watched, UNCHANGED <<tableOf, dealt, pumps, pumpAt, pumpOn, pumpGame>>
    PROVE  Watched'
BY DEF Watched

\* Where a caller goes, the others stay.
LEMMA CallerMoves ==
    ASSUME TableAssumption, TableTypes, NEW c \in Callers, NEW s, Table!Goto(c, s)
    PROVE  playing'[c] = s /\ \A d \in Callers \ {c} : playing'[d] = playing[d]
BY DEF TableTypes, Table!Goto

LEMMA SettingUpGoesOn ==
    ASSUME TableAssumption, TableTypes, NEW c \in Callers, NEW s, Table!Goto(c, s),
           \/ s \notin SettingUp
           \/ playing[c] \in SettingUp /\ board'[c] = board[c],
           \A d \in Callers \ {c} : board'[d] = board[d]
    PROVE  \A r \in Guests : playing'[r] \in SettingUp
               => playing[r] \in SettingUp /\ board'[r] = board[r]
BY CallerMoves, TablesAre

LEMMA PlayerBooks ==
    ASSUME TableAssumption, TableTypes, TableTypes', BooksAreRight, NEW c \in Callers, Player(c)
    PROVE  BooksAreRight'
<1>1. \A d \in Callers \ {c} : board'[d] = board[d]
  BY DEF Player, Table!Play, Table!Record, Table!EnsurePump, Table!Leave, TableTypes
<1>2. PICK s : Table!Goto(c, s) /\ s \notin SettingUp
  BY DEF Player, Table!Play, Table!Record, Table!EnsurePump, Table!Leave, SettingUp
<1>3. \A r \in Guests : playing'[r] \in SettingUp => playing[r] \in SettingUp /\ board'[r] = board[r]
  BY <1>1, <1>2, SettingUpGoesOn
<1>4. UNCHANGED <<laid, tableOf, booked, finished, dealt, away, files>>
  BY DEF Player, Table!Play, Table!Record, Table!EnsurePump, Table!gameVars, Table!bookVars,
         Table!fileVars
<1>5. CASE UNCHANGED Table!pumpVars
  <2>1. Watched'
    BY <1>4, <1>5, PumpsStand DEF Table!pumpVars, BooksAreRight
  <2> QED
    BY <1>3, <1>4, <1>5, <2>1, BooksStand DEF Table!pumpVars
<1>6. CASE Table!EnsurePump(c) /\ ~UNCHANGED Table!pumpVars
  <2>1. /\ pumps' = pumps + 1 /\ pumpGame' = pumpGame
        /\ pumpAt' = [pumpAt EXCEPT ![pumps + 1] = "looks"]
        /\ pumpOn' = [pumpOn EXCEPT ![pumps + 1] = atTable[c]]
    BY <1>6 DEF Table!EnsurePump, Table!Ensure
  <2>2. pumps \in Nat /\ Pumps = 1..MaxPumps /\ MaxPumps \in Nat
    BY TablesAre DEF TableTypes
  <2>3. Watched'
    <3> SUFFICES ASSUME NEW p \in Pumps
                 PROVE  /\ pumpGame[p] # 0 => pumpGame[p] \in 1..dealt
                                              /\ tableOf[pumpGame[p]] = pumpOn'[p]
                        /\ pumpAt'[p] \in {"books", "files"} => pumpGame[p] # 0
                        /\ p > pumps + 1 => pumpGame[p] = 0 /\ pumpAt'[p] = "none"
      BY <1>4, <2>1 DEF Watched
    <3>1. pumpAt \in [Pumps -> Rounds] /\ pumpOn \in [Pumps -> Tables]
      BY DEF TableTypes
    <3>2. CASE p = pumps + 1
      <4>1. pumpGame[p] = 0 /\ pumpAt'[p] = "looks"
        BY <2>1, <2>2, <3>1, <3>2 DEF BooksAreRight, Watched
      <4> QED
        BY <2>2, <3>2, <4>1
    <3>3. CASE p # pumps + 1
      BY <2>1, <2>2, <3>1, <3>3 DEF BooksAreRight, Watched
    <3> QED
      BY <3>2, <3>3
  <2>4. \A p \in Pumps : pumpAt'[p] = "files" => pumpAt[p] = "files"
    BY <2>1, <2>2 DEF TableTypes
  <2> QED
    BY <1>3, <1>4, <2>1, <2>3, <2>4, BooksStand
<1> QED
  BY <1>5, <1>6 DEF Player, Table!Play, Table!Record

LEMMA ThinkerBooks ==
    ASSUME TableAssumption, TableTypes, TableTypes', BooksAreRight, NEW t \in Thinkers, Thinker(t)
    PROVE  BooksAreRight'
<1>0. t \in Callers
  BY TablesAre
<1>1. \A d \in Callers \ {t} : board'[d] = board[d]
  BY DEF Thinker, Table!Wake, Table!Choose, Table!GiveUp, Table!TurnMoves, Table!TurnEnds,
         TableTypes
<1>2. PICK s : Table!Goto(t, s) /\ s \notin SettingUp
  BY DEF Thinker, Table!Wake, Table!Choose, Table!GiveUp, Table!TurnMoves, Table!TurnEnds,
         SettingUp
<1>3. \A r \in Guests : playing'[r] \in SettingUp => playing[r] \in SettingUp /\ board'[r] = board[r]
  BY <1>0, <1>1, <1>2, SettingUpGoesOn
<1>4. UNCHANGED <<laid, tableOf, booked, finished, dealt, away, files>> /\ UNCHANGED Table!pumpVars
  BY DEF Thinker, Table!Wake, Table!Choose, Table!GiveUp, Table!TurnMoves, Table!TurnEnds,
         Table!gameVars, Table!bookVars, Table!fileVars
<1>5. Watched'
  BY <1>4, PumpsStand DEF Table!pumpVars, BooksAreRight
<1> QED
  BY <1>3, <1>4, <1>5, BooksStand DEF Table!pumpVars

\* A pump's own step, which leaves the tables and the callers' boards alone.
LEMMA OwnRound ==
    ASSUME TableAssumption, TableTypes, Watched, NEW p \in Pumps, NEW to \in Rounds,
           UNCHANGED <<tableOf, dealt, pumps, pumpOn>>,
           pumpAt[p] # "none", pumpAt' = [pumpAt EXCEPT ![p] = to],
           \A q \in Pumps \ {p} : pumpGame'[q] = pumpGame[q],
           pumpGame'[p] # 0 => pumpGame'[p] \in 1..dealt /\ tableOf[pumpGame'[p]] = pumpOn[p],
           to \in {"books", "files"} => pumpGame'[p] # 0
    PROVE  Watched'
<1> SUFFICES ASSUME NEW q \in Pumps
             PROVE  /\ pumpGame'[q] # 0 => pumpGame'[q] \in 1..dealt
                                            /\ tableOf[pumpGame'[q]] = pumpOn[q]
                    /\ pumpAt'[q] \in {"books", "files"} => pumpGame'[q] # 0
                    /\ q > pumps => pumpGame'[q] = 0 /\ pumpAt'[q] = "none"
  BY DEF Watched
<1>1. pumpAt \in [Pumps -> Rounds] /\ pumps \in Nat
  BY DEF TableTypes
<1>0. ~(p > pumps)
  BY DEF Watched
<1>2. CASE q = p
  <2>1. pumpAt'[p] = to
    BY <1>1
  <2> QED
    BY <1>0, <1>1, <1>2, <2>1
<1>3. CASE q # p
  BY <1>1, <1>3 DEF Watched
<1> QED
  BY <1>2, <1>3

LEMMA Unbooked ==
    ASSUME booked \in Seq(Nat), NEW i, NEW j \in Nat, j # i,
           \A k \in 1..Len(booked) : booked[k] # i,
           booked' = booked \/ booked' = Append(booked, j)
    PROVE  \A k \in 1..Len(booked') : booked'[k] # i
<1>1. CASE booked' = booked
  BY <1>1
<1>2. CASE booked' = Append(booked, j)
  <2> SUFFICES ASSUME NEW k \in 1..Len(booked') PROVE booked'[k] # i
    OBVIOUS
  <2>1. Len(booked') = Len(booked) + 1 /\ Len(booked) \in Nat
    BY <1>2
  <2>2. CASE k = Len(booked) + 1
    BY <1>2, <2>1, <2>2
  <2>3. CASE k # Len(booked) + 1
    <3>1. k \in 1..Len(booked)
      BY <2>1, <2>3
    <3>2. booked'[k] = booked[k]
      BY <1>2, <3>1
    <3> QED
      BY <3>1, <3>2
  <2> QED
    BY <2>2, <2>3
<1> QED
  BY <1>1, <1>2

\* A game that is nowhere stays so when tables are cleared and other games are booked.
LEMMA StaysNowhere ==
    ASSUME TableTypes, NEW i \in 1..dealt, Nowhere(i),
           \A g \in Tables : laid'[g] \in {laid[g], 0}, pumpGame' = pumpGame,
           \A r \in Guests : away'[r] # i /\ files'[r] # i,
           NEW j \in Nat, j # i, booked' = booked \/ booked' = Append(booked, j)
    PROVE  Nowhere(i)'
<1>1. booked \in Seq(Nat)
  BY DEF TableTypes
<1>2. \A k \in 1..Len(booked') : booked'[k] # i
  BY <1>1, Unbooked DEF Nowhere
<1> QED
  BY <1>2 DEF Nowhere

\* A game is claimed by the pump that found it over.
LEMMA BookBooks ==
    ASSUME TableAssumption, TableTypes, TableTypes', BooksAreRight, NEW p \in Pumps, Table!Book(p)
    PROVE  BooksAreRight'
<1> DEFINE m == pumpGame[p]
<1>0. pumpAt \in [Pumps -> Rounds] /\ pumpOn[p] \in Tables /\ Tables = {"chess", "kittens"}
  BY TablesAre DEF TableTypes
<1>1. /\ pumpAt[p] = "books"
      /\ UNCHANGED <<laid, tableOf, booked, dealt, away, files, playing, board, pumps, pumpOn,
                     pumpGame>>
  BY DEF Table!Book, Table!PumpMoves, Table!gameVars, Table!callVars, Table!fileVars
<1>2. PICK to \in {"files", "quits"} : pumpAt' = [pumpAt EXCEPT ![p] = to]
  BY DEF Table!Book, Table!PumpMoves
<1>3. m \in 1..dealt /\ m \in Nat /\ tableOf[m] = pumpOn[p] /\ m # 0
  BY <1>1 DEF BooksAreRight, Watched, TableTypes
<1>4. Watched'
  BY <1>1, <1>2, <1>3, OwnRound DEF Rounds, BooksAreRight
<1>5. \A q \in Pumps \ {p} : pumpAt'[q] = pumpAt[q]
  BY <1>0, <1>2
<1>6. CASE finished' = finished /\ (to = "files" => ~ChessGame(m))
  BY <1>0, <1>1, <1>2, <1>4, <1>5, <1>6, BooksStand
<1>7. CASE Table!Claim(m) /\ Table!Unclaimed(m)
  <2>1. \A i : i # m => \A q \in Pumps : PumpFiles(q, i)' => PumpFiles(q, i)
    BY <1>1, <1>5 DEF PumpFiles
  <2>2. ~Touched(m) => Once(m)'
    BY <1>1, <1>5 DEF Touched, Once, InBooks, PumpFiles
  <2>3. Accounted' /\ OncePerClaim'
    BY <1>1, <1>3, <1>7, <2>1, <2>2, ClaimAccounts
  <2>4. Laid' /\ InTheBooks' /\ Carried'
    BY <1>1 DEF BooksAreRight, Laid, InTheBooks, Carried, ChessGame
  <2>5. Unplayed'
    BY <1>1 DEF BooksAreRight, Unplayed, Nowhere
  <2> QED
    BY <1>4, <2>3, <2>4, <2>5 DEF BooksAreRight
<1>8. pumpOn[p] = "chess" => /\ Table!Claim(m)
                             /\ ~Table!Unclaimed(m) => to # "files" /\ finished' = finished
  BY <1>0, <1>2 DEF Table!Book, Table!PumpMoves, Table!Claim
<1>9. pumpOn[p] = "kittens" => finished' = finished /\ ~ChessGame(m)
  BY <1>3 DEF Table!Book, ChessGame
<1> QED
  BY <1>0, <1>6, <1>7, <1>8, <1>9

\* And written up by it.
LEMMA FileBooks ==
    ASSUME TableAssumption, TableTypes, TableTypes', BooksAreRight, NEW p \in Pumps, Table!File(p)
    PROVE  BooksAreRight'
<1> DEFINE m == pumpGame[p]
<1>0. pumpAt \in [Pumps -> Rounds]
  BY DEF TableTypes
<1>1. /\ pumpAt[p] = "files" /\ pumpAt' = [pumpAt EXCEPT ![p] = "quits"]
      /\ booked' = Append(booked, m)
      /\ UNCHANGED <<laid, tableOf, finished, dealt, away, files, playing, board, pumps, pumpOn,
                     pumpGame>>
  BY DEF Table!File, Table!PumpMoves, Table!WriteUp, Table!gameVars, Table!callVars, Table!fileVars
<1>2. m \in 1..dealt /\ m \in Nat /\ tableOf[m] = pumpOn[p]
  BY <1>1 DEF BooksAreRight, Watched, TableTypes
<1>3. Watched'
  BY <1>1, <1>2, OwnRound DEF Rounds, BooksAreRight
<1>4. pumpAt'[p] = "quits" /\ \A q \in Pumps \ {p} : pumpAt'[q] = pumpAt[q]
  BY <1>0, <1>1
<1>5. \A i : \A q \in Pumps : PumpFiles(q, i)' => PumpFiles(q, i) /\ q # p
  BY <1>1, <1>4 DEF PumpFiles
<1>6. PumpFiles(p, m) /\ Touched(m)
  BY <1>1 DEF PumpFiles, Touched
<1>7. ASSUME ChessGame(m), OnlyOne(m)
      PROVE  /\ ~InBooks(m) /\ \A q \in Pumps : ~PumpFiles(q, m)'
             /\ \A r \in Guests : files'[r] # m
  <2>1. Once(m)
    BY <1>7 DEF BooksAreRight, OncePerClaim
  <2> QED
    BY <1>1, <1>5, <1>6, <2>1 DEF Once
<1>8. InTheBooks' /\ Accounted' /\ OncePerClaim'
  BY <1>1, <1>2, <1>5, <1>6, <1>7, WriteAccounts
<1>9. Laid' /\ Carried'
  BY <1>1 DEF BooksAreRight, Laid, Carried, ChessGame
<1>10. ASSUME NEW i \in 1..dealt, Nowhere(i) PROVE Nowhere(i)'
  <2>1. m # i /\ \A g \in Tables : laid'[g] \in {laid[g], 0}
    BY <1>1, <1>10 DEF Nowhere
  <2>2. \A r \in Guests : away'[r] # i /\ files'[r] # i
    BY <1>1, <1>10 DEF Nowhere
  <2> QED
    BY <1>1, <1>2, <1>10, <2>1, <2>2, StaysNowhere
<1>11. Unplayed'
  BY <1>1, <1>10 DEF BooksAreRight, Unplayed
<1> QED
  BY <1>3, <1>8, <1>9, <1>11 DEF BooksAreRight

LEMMA RoundBooks ==
    ASSUME TableAssumption, TableTypes, TableTypes', BooksAreRight, NEW p \in Pumps, Round(p)
    PROVE  BooksAreRight'
<1>0. /\ pumpAt \in [Pumps -> Rounds] /\ pumpGame \in [Pumps -> Nat] /\ Watched
      /\ pumpOn[p] \in Tables /\ laid \in [Tables -> Nat]
  BY DEF TableTypes, BooksAreRight
<1>1. ASSUME UNCHANGED <<laid, tableOf, booked, finished, dealt, away, files, playing, board>>,
             Watched', \A q \in Pumps \ {p} : pumpGame'[q] = pumpGame[q],
             pumpGame'[p] # 0 => \/ pumpGame'[p] = pumpGame[p]
                                 \/ \E g \in Tables : pumpGame'[p] = laid[g],
             NEW to, pumpAt' = [pumpAt EXCEPT ![p] = to],
             to = "files" => pumpGame'[p] = pumpGame[p] /\ ~ChessGame(pumpGame[p])
      PROVE  BooksAreRight'
  <2>1. \A q \in Pumps : pumpAt'[q] = "files" =>
               /\ pumpGame'[q] = pumpGame[q]
               /\ pumpAt[q] = "files" \/ ~ChessGame(pumpGame[q])
    BY <1>0, <1>1
  <2> QED
    BY <1>1, <2>1, BooksStand
<1>2. CASE Table!Look(p)
  <2>1. /\ pumpAt[p] = "looks" /\ pumpAt' = [pumpAt EXCEPT ![p] = "ticks"]
        /\ pumpGame' = [pumpGame EXCEPT ![p] = laid[pumpOn[p]]]
        /\ UNCHANGED <<laid, tableOf, booked, finished, dealt, away, files, playing, board, pumps,
                       pumpOn>>
    BY <1>2 DEF Table!Look, Table!PumpMoves, Table!gameVars, Table!bookVars, Table!callVars,
                Table!fileVars
  <2>2. pumpGame'[p] = laid[pumpOn[p]] /\ \A q \in Pumps \ {p} : pumpGame'[q] = pumpGame[q]
    BY <1>0, <2>1
  <2>3. pumpGame'[p] # 0 => pumpGame'[p] \in 1..dealt /\ tableOf[pumpGame'[p]] = pumpOn[p]
    BY <1>0, <2>2 DEF BooksAreRight, Laid
  <2>4. Watched'
    BY <1>0, <2>1, <2>2, <2>3, OwnRound DEF Rounds
  <2> QED
    BY <1>0, <1>1, <2>1, <2>2, <2>4
<1>3. CASE Table!Tick(p)
  <2>1. /\ pumpAt[p] = "ticks"
        /\ UNCHANGED <<laid, tableOf, booked, finished, dealt, away, files, playing, board, pumps,
                       pumpOn>>
    BY <1>3 DEF Table!Tick, Table!PumpMoves, Table!gameVars, Table!bookVars, Table!callVars,
                Table!fileVars
  <2>2. \/ /\ pumpAt' = [pumpAt EXCEPT ![p] = "books"] /\ pumpGame' = pumpGame
           /\ pumpGame[p] # 0
        \/ pumpAt' = [pumpAt EXCEPT ![p] = "starts"] /\ pumpGame' = pumpGame
        \/ pumpAt' = [pumpAt EXCEPT ![p] = "looks"] /\ pumpGame' = [pumpGame EXCEPT ![p] = 0]
    BY <1>3, Zenon DEF Table!Tick, Table!PumpMoves, Table!TickDone
  <2>3. pumpGame'[p] \in {pumpGame[p], 0} /\ \A q \in Pumps \ {p} : pumpGame'[q] = pumpGame[q]
    BY <1>0, <2>2
  <2>4. pumpGame'[p] # 0 => pumpGame'[p] \in 1..dealt /\ tableOf[pumpGame'[p]] = pumpOn[p]
    BY <1>0, <2>3 DEF Watched
  <2>5. PICK to \in Rounds : /\ pumpAt' = [pumpAt EXCEPT ![p] = to]
                             /\ to \in {"books", "files"} => pumpGame'[p] # 0
                             /\ to # "files"
    BY <2>2 DEF Rounds
  <2>6. Watched'
    BY <1>0, <2>1, <2>3, <2>4, <2>5, OwnRound
  <2> QED
    BY <1>1, <2>1, <2>3, <2>5, <2>6
<1>4. CASE Table!Quit(p) \/ Table!Die(p)
  <2>1. /\ pumpAt[p] \in {"quits", "looks"}
        /\ UNCHANGED <<laid, tableOf, booked, finished, dealt, away, files, playing, board, pumps,
                       pumpOn>>
        /\ pumpGame' = [pumpGame EXCEPT ![p] = 0] \/ pumpGame' = pumpGame
        /\ \E to \in {"looks", "dead"} : pumpAt' = [pumpAt EXCEPT ![p] = to]
    BY <1>4 DEF Table!Quit, Table!Die, Table!PumpMoves, Table!TickDone, Table!gameVars,
                Table!bookVars, Table!callVars, Table!fileVars
  <2>2. pumpGame'[p] \in {pumpGame[p], 0} /\ \A q \in Pumps \ {p} : pumpGame'[q] = pumpGame[q]
    BY <1>0, <2>1
  <2>3. pumpGame'[p] # 0 => pumpGame'[p] \in 1..dealt /\ tableOf[pumpGame'[p]] = pumpOn[p]
    BY <1>0, <2>2 DEF Watched
  <2>4. Watched'
    BY <1>0, <2>1, <2>2, <2>3, OwnRound DEF Rounds
  <2>5. PICK to \in {"looks", "dead"} : pumpAt' = [pumpAt EXCEPT ![p] = to]
    BY <2>1
  <2> QED
    BY <1>1, <2>1, <2>2, <2>4, <2>5
<1>5. ASSUME NEW t \in Thinkers, Table!StartTurn(p, t) PROVE BooksAreRight'
  <2>0. t \in Callers
    BY TablesAre
  <2>1. /\ pumpAt[p] = "starts" /\ pumpAt' = [pumpAt EXCEPT ![p] = "looks"]
        /\ UNCHANGED <<laid, tableOf, booked, finished, dealt, away, files, board, pumps, pumpOn>>
        /\ pumpGame' = [pumpGame EXCEPT ![p] = 0] /\ Table!Goto(t, "wakes")
    BY <1>5 DEF Table!StartTurn, Table!PumpMoves, Table!TickDone, Table!gameVars, Table!bookVars,
                Table!fileVars
  <2>2. pumpGame'[p] = 0 /\ \A q \in Pumps \ {p} : pumpGame'[q] = pumpGame[q]
    BY <1>0, <2>1
  <2>3. Watched'
    BY <1>0, <2>1, <2>2, OwnRound DEF Rounds
  <2>4. \A r \in Guests : playing'[r] \in SettingUp
            => playing[r] \in SettingUp /\ board'[r] = board[r]
    BY <2>0, <2>1, SettingUpGoesOn DEF SettingUp
  <2>5. \A q \in Pumps : pumpAt'[q] = "files" => pumpAt[q] = "files" /\ q # p
    BY <1>0, <2>1
  <2> QED
    BY <2>1, <2>2, <2>3, <2>4, <2>5, BooksStand
<1>6. CASE Table!Book(p) \/ Table!File(p)
  BY <1>6, BookBooks, FileBooks
<1> QED
  BY <1>2, <1>3, <1>4, <1>5, <1>6 DEF Round

LEMMA StartBooks ==
    ASSUME TableAssumption, TableTypes, TableTypes', BooksAreRight,
           NEW r \in Guests, NEW g \in Tables, Table!Start(r, g)
    PROVE  BooksAreRight'
<1>0. dealt \in Nat /\ Tables = {"chess", "kittens"} /\ r \in Callers
  BY TablesAre DEF TableTypes
<1>1. /\ dealt' = dealt + 1 /\ board' = [board EXCEPT ![r] = dealt + 1]
      /\ UNCHANGED <<laid, tableOf, finished, booked, away, files, pumps, pumpAt, pumpOn, pumpGame>>
  BY DEF Table!Start, Table!bookVars, Table!fileVars, Table!pumpVars
<1>2. board'[r] = dealt + 1 /\ \A q \in Callers \ {r} : board'[q] = board[q]
  BY <1>0, <1>1 DEF TableTypes
<1>3. \A q \in Guests \ {r} : playing'[q] = playing[q] /\ board'[q] = board[q]
  BY <1>0, <1>2, CallerMoves, TablesAre DEF Table!Start
<1>4. \A i \in 1..dealt : i \in 1..dealt' /\ i # dealt + 1
  BY <1>0, <1>1
<1>5. Laid' /\ Watched' /\ InTheBooks' /\ Carried'
  BY <1>1, <1>4 DEF BooksAreRight, Laid, Watched, InTheBooks, Carried, ChessGame
<1>6. Nowhere(dealt + 1)
  <2>1. dealt + 1 # 0
    BY <1>0
  <2> QED
    BY <1>4, <2>1 DEF BooksAreRight, Laid, Watched, InTheBooks, Carried, ChessGame, Nowhere
<1>10. Accounted' /\ OncePerClaim'
  <2>0. PICK n : n = dealt + 1
    OBVIOUS
  <2>1. ASSUME NEW i, ChessGame(i)' PROVE ChessGame(i) \/ i = n
    BY <1>0, <1>1, <2>0, <2>1 DEF ChessGame
  <2>2. ~Touched(n)'
    BY <1>1, <1>6, <2>0 DEF Nowhere, Touched, InBooks, PumpFiles
  <2>3. \A i : \A p \in Pumps : PumpFiles(p, i)' => PumpFiles(p, i)
    BY <1>1 DEF PumpFiles
  <2> QED
    BY <1>1, <2>1, <2>2, <2>3, AccountsStand
<1>7. ASSUME NEW i, Nowhere(i) PROVE Nowhere(i)'
  BY <1>1, <1>7 DEF Nowhere
<1>8. dealt + 1 \in 1..dealt'
  BY <1>0, <1>1
<1>9. Unplayed'
  <2> SUFFICES ASSUME NEW s \in Guests, playing'[s] \in SettingUp
               PROVE  /\ board'[s] \in 1..dealt' /\ Nowhere(board[s])'
                      /\ \A q \in Guests \ {s} : playing'[q] \in SettingUp => board'[s] # board'[q]
    BY DEF Unplayed
  <2>1. CASE s = r
    BY <1>2, <1>3, <1>4, <1>6, <1>7, <1>8, <2>1 DEF BooksAreRight, Unplayed
  <2>2. CASE s # r
    BY <1>2, <1>3, <1>4, <1>7, <2>2 DEF BooksAreRight, Unplayed
  <2> QED
    BY <2>1, <2>2
<1> QED
  BY <1>5, <1>9, <1>10 DEF BooksAreRight

LEMMA PutBooks ==
    ASSUME TableAssumption, TableTypes, TableTypes', BooksAreRight,
           NEW r \in Guests, Table!Put(r)
    PROVE  BooksAreRight'
<1> DEFINE i == board[r]
<1>0. r \in Callers /\ dealt \in 0..MaxGames /\ Games = 1..MaxGames /\ MaxGames \in Nat
  BY TablesAre DEF TableTypes
<1>1. /\ playing[r] = "put" /\ atTable[r] \in Tables
      /\ laid' = [laid EXCEPT ![atTable[r]] = i] /\ tableOf' = [tableOf EXCEPT ![i] = atTable[r]]
      /\ UNCHANGED <<dealt, finished, booked, away, files, board, pumps, pumpAt, pumpOn, pumpGame>>
  BY <1>0 DEF Table!Put, Table!At, Table!bookVars, Table!fileVars, Table!pumpVars, TableTypes
<1>2. /\ i \in 1..dealt /\ Nowhere(i)
      /\ \A q \in Guests \ {r} : playing[q] \in SettingUp => board[q] # i
  BY <1>1 DEF BooksAreRight, Unplayed, SettingUp
<1>3. i \in Games
  BY <1>0, <1>2
<1>4. tableOf'[i] = atTable[r] /\ \A j : j # i => tableOf'[j] = tableOf[j]
  BY <1>1, <1>3 DEF TableTypes
<1>5. laid'[atTable[r]] = i /\ \A g \in Tables \ {atTable[r]} : laid'[g] = laid[g]
  BY <1>1 DEF TableTypes
<1>6. Laid'
  BY <1>1, <1>2, <1>4, <1>5 DEF BooksAreRight, Laid, Nowhere
<1>7. Watched' /\ InTheBooks' /\ Carried'
  <2>1. Watched'
    BY <1>1, <1>2, <1>4 DEF BooksAreRight, Watched, Nowhere
  <2>2. Carried'
    BY <1>1, <1>2, <1>4 DEF BooksAreRight, Carried, ChessGame, Nowhere
  <2> QED
    BY <1>1, <2>1, <2>2 DEF BooksAreRight, InTheBooks
<1>11. Accounted' /\ OncePerClaim'
  <2>1. ~Touched(i)'
    BY <1>1, <1>2 DEF Nowhere, Touched, InBooks, PumpFiles
  <2>2. \A j : ChessGame(j)' => ChessGame(j) \/ j = i
    BY <1>1, <1>4 DEF ChessGame
  <2>3. \A j : \A p \in Pumps : PumpFiles(p, j)' => PumpFiles(p, j)
    BY <1>1 DEF PumpFiles
  <2> QED
    BY <1>1, <2>1, <2>2, <2>3, AccountsStand
<1>8. \A q \in Guests : playing'[q] \in SettingUp => q # r /\ playing[q] \in SettingUp
  BY <1>0, CallerMoves, TablesAre DEF Table!Put, SettingUp
<1>9. ASSUME NEW j, j # i, Nowhere(j) PROVE Nowhere(j)'
  BY <1>1, <1>5, <1>9 DEF Nowhere
<1>10. Unplayed'
  BY <1>1, <1>2, <1>8, <1>9 DEF BooksAreRight, Unplayed
<1> QED
  BY <1>6, <1>7, <1>10, <1>11 DEF BooksAreRight

LEMMA TakeBooks ==
    ASSUME TableAssumption, TableTypes, TableTypes', BooksAreRight,
           NEW r \in Guests, Table!Take(r)
    PROVE  BooksAreRight'
<1> DEFINE g == Table!Leaving(r)
           i == laid[g]
<1>0. r \in Callers /\ g \in Tables
  BY TablesAre DEF Table!Leaving, TableTypes
<1>1. /\ laid' = [laid EXCEPT ![g] = 0] /\ playing[r] \in {"take", "sweep"}
      /\ UNCHANGED <<dealt, tableOf, finished, booked, files, board, pumps, pumpAt, pumpOn, pumpGame>>
  BY DEF Table!Take, Table!bookVars, Table!pumpVars
<1>2. i \in Nat /\ \A h \in Tables : laid'[h] \in {laid[h], 0}
  BY <1>0, <1>1 DEF TableTypes
<1>3. \A q \in Guests : away'[q] = away[q] \/ (away'[q] = i /\ i # 0 /\ g = "chess")
  BY DEF Table!Take, TableTypes
<1>4. Laid' /\ Watched'
  BY <1>1, <1>2 DEF BooksAreRight, Laid, Watched
<1>8. InTheBooks' /\ Carried'
  <2>1. i # 0 => i \in 1..dealt /\ tableOf[i] = g
    BY <1>0 DEF BooksAreRight, Laid
  <2> QED
    BY <1>1, <1>3, <2>1 DEF BooksAreRight, InTheBooks, Carried, ChessGame
<1>9. Accounted' /\ OncePerClaim'
  <2>1. \A j : /\ ChessGame(j)' = ChessGame(j)
              /\ \A p \in Pumps : PumpFiles(p, j)' => PumpFiles(p, j)
    BY <1>1 DEF ChessGame, PumpFiles
  <2> QED
    BY <1>1, <2>1, AccountsStand
<1>5. \A q \in Guests : playing'[q] \in SettingUp => playing[q] \in SettingUp
  <2>1. Table!At(r, "sweep") => playing[r] \in SettingUp
    BY DEF Table!At, SettingUp
  <2> QED
    BY <1>0, <2>1, CallerMoves, TablesAre DEF Table!Take, SettingUp
<1>6. ASSUME NEW q \in Guests, playing[q] \in SettingUp PROVE Nowhere(board[q])'
  <2>1. board[q] \in 1..dealt /\ Nowhere(board[q])
    BY <1>6 DEF BooksAreRight, Unplayed
  <2>2. i # board[q]
    BY <1>0, <2>1 DEF Nowhere
  <2>3. \A s \in Guests : away'[s] # board[q] /\ files'[s] # board[q]
    BY <1>1, <1>3, <2>1, <2>2 DEF Nowhere
  <2> QED
    BY <1>1, <1>2, <2>1, <2>2, <2>3, StaysNowhere
<1>7. Unplayed'
  BY <1>1, <1>5, <1>6 DEF BooksAreRight, Unplayed
<1> QED
  BY <1>4, <1>7, <1>8, <1>9 DEF BooksAreRight

\* The end() that took a game of chess away over claims it, and writes it up.
LEMMA ClaimTakenBooks ==
    ASSUME TableAssumption, TableTypes, TableTypes', BooksAreRight,
           NEW r \in Guests, Table!ClaimTaken(r)
    PROVE  BooksAreRight'
<1>0. PICK m : m = away[r]
  OBVIOUS
<1>1. /\ m # 0 /\ away' = [away EXCEPT ![r] = 0] /\ Table!Claim(m)
      /\ files' = [files EXCEPT ![r] = IF Table!Unclaimed(m) THEN m ELSE 0]
      /\ UNCHANGED <<laid, tableOf, dealt, booked, playing, board, pumps, pumpAt, pumpOn, pumpGame>>
  BY <1>0 DEF Table!ClaimTaken, Table!gameVars, Table!callVars, Table!pumpVars
<1>2. m \in Nat /\ ChessGame(m) /\ m \in 1..dealt
  BY <1>0, <1>1 DEF BooksAreRight, Carried, ChessGame, TableTypes
<1>3. /\ away'[r] = 0 /\ files'[r] = IF Table!Unclaimed(m) THEN m ELSE 0
      /\ \A q \in Guests \ {r} : away'[q] = away[q] /\ files'[q] = files[q]
  BY <1>1 DEF TableTypes
<1>4. Laid' /\ Watched' /\ InTheBooks'
  BY <1>1 DEF BooksAreRight, Laid, Watched, InTheBooks
<1>5. Carried'
  BY <1>1, <1>2, <1>3 DEF BooksAreRight, Carried, ChessGame
<1>6. \A i : /\ ChessGame(i)' = ChessGame(i) /\ (ChessGame(i) => i # 0)
            /\ \A p \in Pumps : PumpFiles(p, i)' = PumpFiles(p, i)
  BY <1>1 DEF ChessGame, PumpFiles
<1>7. Accounted' /\ OncePerClaim'
  <2>1. CASE Table!Unclaimed(m)
    <3>1. ~Touched(m) => Once(m)'
      BY <1>1, <1>3, <1>6, <2>1 DEF Touched, Once, InBooks
    <3>2. \A i : i # m => \A q \in Guests : files'[q] = i => files[q] = i \/ i = 0
      BY <1>3, <2>1
    <3> QED
      BY <1>1, <1>2, <1>6, <2>1, <3>1, <3>2, ClaimAccounts
  <2>2. CASE ~Table!Unclaimed(m)
    <3>1. finished' = finished
      BY <1>1, <2>2 DEF Table!Claim
    <3>2. \A i : ChessGame(i) => \A q \in Guests : files'[q] = i => files[q] = i
      BY <1>3, <1>6, <2>2
    <3> QED
      BY <1>1, <1>6, <3>1, <3>2, AccountsStand
  <2> QED
    BY <2>1, <2>2
<1>8. ASSUME NEW i \in 1..dealt, Nowhere(i) PROVE Nowhere(i)'
  <2>1. m # i /\ i # 0 /\ \A g \in Tables : laid'[g] \in {laid[g], 0}
    BY <1>0, <1>1, <1>8 DEF Nowhere, TableTypes
  <2>2. \A q \in Guests : away'[q] # i /\ files'[q] # i
    BY <1>3, <1>8, <2>1 DEF Nowhere
  <2> QED
    BY <1>1, <1>2, <1>8, <2>1, <2>2, StaysNowhere
<1>9. Unplayed'
  BY <1>1, <1>8 DEF BooksAreRight, Unplayed
<1> QED
  BY <1>4, <1>5, <1>7, <1>9 DEF BooksAreRight

LEMMA WriteTakenBooks ==
    ASSUME TableAssumption, TableTypes, TableTypes', BooksAreRight,
           NEW r \in Guests, Table!WriteTaken(r)
    PROVE  BooksAreRight'
<1>0. PICK m : m = files[r]
  OBVIOUS
<1>1. /\ m # 0 /\ files' = [files EXCEPT ![r] = 0] /\ booked' = Append(booked, m)
      /\ UNCHANGED <<laid, tableOf, dealt, finished, away, playing, board, pumps, pumpAt, pumpOn,
                     pumpGame>>
  BY <1>0 DEF Table!WriteTaken, Table!WriteUp, Table!gameVars, Table!callVars, Table!pumpVars
<1>2. m \in Nat /\ ChessGame(m) /\ m \in 1..dealt
  BY <1>0, <1>1 DEF BooksAreRight, Carried, ChessGame, TableTypes
<1>3. files'[r] = 0 /\ \A q \in Guests \ {r} : files'[q] = files[q]
  BY <1>1 DEF TableTypes
<1>4. Laid' /\ Watched'
  BY <1>1 DEF BooksAreRight, Laid, Watched
<1>5. Carried'
  BY <1>1, <1>3 DEF BooksAreRight, Carried, ChessGame
<1>6. \A i : /\ ChessGame(i)' = ChessGame(i) /\ (ChessGame(i) => i # 0)
            /\ \A p \in Pumps : PumpFiles(p, i)' = PumpFiles(p, i)
  BY <1>1 DEF ChessGame, PumpFiles
<1>7. \A i : ChessGame(i) => \A q \in Guests : files'[q] = i => files[q] = i
  BY <1>3, <1>6
<1>8. Touched(m)
  BY <1>0 DEF Touched
<1>9. ASSUME OnlyOne(m)
      PROVE  /\ ~InBooks(m) /\ \A p \in Pumps : ~PumpFiles(p, m)'
             /\ \A q \in Guests : files'[q] # m
  <2>1. Once(m)
    BY <1>2, <1>9 DEF BooksAreRight, OncePerClaim
  <2> QED
    BY <1>0, <1>1, <1>3, <1>6, <2>1 DEF Once
<1>10. InTheBooks' /\ Accounted' /\ OncePerClaim'
  BY <1>1, <1>2, <1>6, <1>7, <1>8, <1>9, WriteAccounts
<1>11. ASSUME NEW i \in 1..dealt, Nowhere(i) PROVE Nowhere(i)'
  <2>1. m # i /\ i # 0 /\ \A g \in Tables : laid'[g] \in {laid[g], 0}
    BY <1>0, <1>1, <1>11 DEF Nowhere, TableTypes
  <2>2. \A q \in Guests : away'[q] # i /\ files'[q] # i
    BY <1>1, <1>3, <1>11, <2>1 DEF Nowhere
  <2> QED
    BY <1>1, <1>2, <1>11, <2>1, <2>2, StaysNowhere
<1>12. Unplayed'
  BY <1>1, <1>11 DEF BooksAreRight, Unplayed
<1> QED
  BY <1>4, <1>5, <1>10, <1>12 DEF BooksAreRight

LEMMA GuestBooks ==
    ASSUME TableAssumption, TableTypes, TableTypes', BooksAreRight, NEW r \in Guests, Guest(r)
    PROVE  BooksAreRight'
<1>0. r \in Callers
  BY TablesAre
<1>1. ASSUME NEW s, Table!Goto(r, s), \A d \in Callers \ {r} : board'[d] = board[d],
             s \notin SettingUp \/ (playing[r] \in SettingUp /\ board'[r] = board[r]),
             UNCHANGED <<laid, tableOf, booked, finished, dealt, away, files, pumps, pumpAt, pumpOn,
                         pumpGame>>
      PROVE  BooksAreRight'
  <2>1. \A q \in Guests : playing'[q] \in SettingUp
            => playing[q] \in SettingUp /\ board'[q] = board[q]
    BY <1>0, <1>1, SettingUpGoesOn
  <2>2. Watched'
    BY <1>1, PumpsStand DEF BooksAreRight
  <2> QED
    BY <1>1, <2>1, <2>2, BooksStand
<1>2. ASSUME NEW g \in Tables, Table!End(r, g) PROVE BooksAreRight'
  <2>1. Table!Goto(r, "take") /\ "take" \notin SettingUp
    BY <1>2 DEF Table!End, SettingUp
  <2> QED
    BY <1>1, <1>2, <2>1 DEF Table!End, Table!fileVars, Table!gameVars, Table!bookVars,
                            Table!pumpVars
<1>3. ASSUME NEW g \in Tables, Table!Move(r, g) PROVE BooksAreRight'
  <2>1. Table!Goto(r, "play") /\ "play" \notin SettingUp
    BY <1>3 DEF Table!Move, SettingUp
  <2>2. \A d \in Callers \ {r} : board'[d] = board[d]
    BY <1>3 DEF Table!Move, TableTypes
  <2> QED
    BY <1>1, <1>3, <2>1, <2>2 DEF Table!Move, Table!fileVars, Table!gameVars, Table!bookVars,
                                  Table!pumpVars
<1>4. CASE Table!Reset(r)
  <2>1. Table!Goto(r, "ensure") /\ "ensure" \notin SettingUp
    BY <1>4 DEF Table!Reset, SettingUp
  <2> QED
    BY <1>1, <1>4, <2>1 DEF Table!Reset, Table!fileVars, Table!gameVars, Table!pumpVars
<1>5. CASE Table!Taken(r)
  <2>1. \E s : Table!Goto(r, s) /\ (s \notin SettingUp \/ playing[r] \in SettingUp)
    BY <1>5 DEF Table!Taken, Table!At, SettingUp
  <2> QED
    BY <1>1, <1>5, <2>1 DEF Table!Taken, Table!StopPump, Table!fileVars, Table!gameVars
<1> QED
  BY <1>2, <1>3, <1>4, <1>5, StartBooks, PutBooks, TakeBooks,
     ClaimTakenBooks, WriteTakenBooks DEF Guest

LEMMA BooksInit == ASSUME TableAssumption, Table!Init PROVE BooksAreRight
<1>1. /\ \A g \in Tables : laid[g] = 0
      /\ \A r \in Callers : playing[r] = "idle"
      /\ \A p \in Pumps : pumpGame[p] = 0 /\ pumpAt[p] = "none"
  BY DEF Table!Init, Tables, Callers, Pumps
<1>2. /\ booked = <<>> /\ Len(booked) = 0 /\ dealt = 0
      /\ \A r \in Guests : away[r] = 0 /\ files[r] = 0
  BY DEF Table!Init
<1>3. Laid /\ Watched
  BY <1>1 DEF Laid, Watched
<1>4. Unplayed
  BY <1>1, TablesAre DEF Unplayed, SettingUp
<1>5. InTheBooks /\ Carried /\ Accounted /\ OncePerClaim
  BY <1>2 DEF InTheBooks, Carried, Accounted, OncePerClaim, ChessGame
<1> QED
  BY <1>3, <1>4, <1>5 DEF BooksAreRight

LEMMA BooksStep ==
    ASSUME TableAssumption, TableTypes, BooksAreRight, [Table!Next]_(Table!vars)
    PROVE  BooksAreRight'
<1>0. TableTypes'
  BY TableTypesStep
<1>1. CASE UNCHANGED Table!vars
  <2>1. UNCHANGED <<laid, tableOf, booked, finished, dealt, away, files, pumps, pumpAt, pumpOn,
                    pumpGame, playing, board>>
    BY <1>1 DEF Table!vars, Table!gameVars, Table!bookVars, Table!callVars, Table!fileVars,
                Table!pumpVars
  <2>2. Watched'
    BY <2>1, PumpsStand DEF BooksAreRight
  <2> QED
    BY <1>0, <2>1, <2>2, BooksStand
<1> QED
  BY <1>0, <1>1, TableMoves, GuestBooks, PlayerBooks, RoundBooks, ThinkerBooks

\* However many requests, pump threads and turns of Rau's there are, and however often a game that
\* is over is found to be so - by the pump that books it, by the end() that takes it away, by a
\* pump started again for it - chess folds its result in once, though the claim and the writing are
\* steps apart, unless another game was claimed as well (_finish's check of _finished_id).
THEOREM ResultsAreBookedOnce == ASSUME TableAssumption PROVE Table!Spec => []Table!ChessBooksOnce
<1>1. Table!Init => TableTypes /\ BooksAreRight
  BY TableTypesInit, BooksInit
<1>2. TableTypes /\ BooksAreRight /\ [Table!Next]_(Table!vars) => (TableTypes /\ BooksAreRight)'
  BY TableTypesStep, BooksStep
<1>3. TableTypes /\ BooksAreRight => Table!ChessBooksOnce
  <2> SUFFICES ASSUME TableTypes, BooksAreRight,
                      NEW j \in DOMAIN booked, NEW k \in DOMAIN booked, j # k,
                      booked[j] = booked[k], tableOf[booked[j]] = "chess"
               PROVE  \E a \in DOMAIN finished : finished[a] # booked[j]
    BY DEF Table!ChessBooksOnce
  <2>1. DOMAIN booked = 1..Len(booked) /\ DOMAIN finished = 1..Len(finished)
    BY DEF TableTypes
  <2>2. ChessGame(booked[j])
    BY <2>1 DEF BooksAreRight, InTheBooks, ChessGame
  <2>3. ~Once(booked[j])
    BY <2>1 DEF Once
  <2> QED
    BY <2>1, <2>2, <2>3 DEF BooksAreRight, OncePerClaim, OnlyOne
<1> QED
  BY <1>1, <1>2, <1>3, PTL DEF Table!Spec

\* A game of chess is being put out or taken away: the journal is behind.
Unsettled(r) ==
    \/ playing[r] = "swept" /\ atTable[r] = "kittens"
    \/ playing[r] \in {"taken", "reset"} /\ atTable[r] = "chess"
SpeaksOf(lines, i) == \A n \in lines : n.of = "moves" => n.game = i
InStep == (\A r \in Guests : ~Unsettled(r)) => SpeaksOf(notes, laid["chess"])
PutOut == \A r \in Guests : playing[r] = "reset" => laid[atTable[r]] = board[r]
JournalIsRight == InStep /\ PutOut

\* Whoever asks from outside asks one thing at a time.
OneGuest == \A r, q \in Guests : r = q

\* What the guest does not do leaves the boards alone, and notes the move of the game that is out.
LEMMA JournalStands ==
    ASSUME JournalIsRight, UNCHANGED laid,
           \A n \in notes' : n \in notes \/ n.of # "moves" \/ n.game = laid["chess"],
           \A r \in Guests : /\ Unsettled(r)' = Unsettled(r)
                             /\ playing'[r] = "reset" => /\ playing[r] = "reset"
                                                         /\ atTable'[r] = atTable[r]
                                                         /\ board'[r] = board[r]
    PROVE  JournalIsRight'
<1>1. InStep'
  <2> SUFFICES ASSUME \A r \in Guests : ~Unsettled(r)' PROVE SpeaksOf(notes', laid["chess"])
    BY DEF InStep
  <2>1. \A r \in Guests : ~Unsettled(r)
    OBVIOUS
  <2> QED
    BY <2>1 DEF JournalIsRight, InStep, SpeaksOf
<1>2. PutOut'
  BY DEF JournalIsRight, PutOut
<1> QED
  BY <1>1, <1>2 DEF JournalIsRight

\* A guest whose chess is settled before its step, or after it with the journal in order.
LEMMA GuestJournal ==
    ASSUME TableAssumption, OneGuest, TableTypes, JournalIsRight, NEW r \in Guests, Guest(r)
    PROVE  JournalIsRight'
<1>0. r \in Callers /\ Tables = {"chess", "kittens"} /\ atTable[r] \in Tables
  BY TablesAre DEF TableTypes
<1>1. ASSUME Unsettled(r)' \/ SpeaksOf(notes', laid'["chess"]),
             playing'[r] = "reset" => laid'[atTable'[r]] = board'[r]
      PROVE  JournalIsRight'
  <2>1. \A q \in Guests : q = r
    BY DEF OneGuest
  <2>2. InStep'
    BY <1>1 DEF InStep
  <2>3. PutOut'
    BY <1>1, <2>1 DEF PutOut
  <2> QED
    BY <2>2, <2>3 DEF JournalIsRight
<1>2. ~Unsettled(r) => SpeaksOf(notes, laid["chess"])
  BY DEF JournalIsRight, InStep, OneGuest
<1>3. ASSUME NEW s, Table!Goto(r, s) PROVE playing'[r] = s
  BY <1>0, <1>3, CallerMoves
<1>4. ASSUME NEW g \in Tables, Table!Start(r, g) PROVE JournalIsRight'
  <2>1. /\ playing[r] = "idle" /\ playing'[r] \in {"sweep", "put"}
        /\ UNCHANGED <<laid, notes>>
    BY <1>3, <1>4 DEF Table!Start, Table!At, Table!bookVars
  <2> QED
    BY <1>1, <1>2, <2>1 DEF Unsettled
<1>5. ASSUME NEW g \in Tables, Table!End(r, g) \/ Table!Move(r, g) PROVE JournalIsRight'
  <2>1. playing[r] = "idle" /\ playing'[r] \in {"take", "play"} /\ UNCHANGED <<laid, notes>>
    BY <1>3, <1>5 DEF Table!End, Table!Move, Table!At, Table!gameVars, Table!bookVars
  <2> QED
    BY <1>1, <1>2, <2>1 DEF Unsettled
<1>6. CASE Table!Put(r)
  <2>1. /\ playing[r] = "put" /\ playing'[r] = "reset" /\ UNCHANGED <<notes, atTable, board>>
        /\ laid' = [laid EXCEPT ![atTable[r]] = board[r]]
    BY <1>3, <1>6 DEF Table!Put, Table!At, Table!bookVars
  <2>2. laid'[atTable[r]] = board[r] /\ (atTable[r] # "chess" => laid'["chess"] = laid["chess"])
    BY <1>0, <2>1 DEF TableTypes
  <2> QED
    BY <1>1, <1>2, <2>1, <2>2 DEF Unsettled
<1>7. CASE Table!Reset(r)
  <2>1. /\ playing[r] = "reset" /\ playing'[r] = "ensure" /\ UNCHANGED <<laid, atTable, board>>
        /\ notes' = IF atTable[r] = "chess" THEN {Table!Line(board[r], "moves")} ELSE notes
    BY <1>3, <1>7 DEF Table!Reset, Table!At, Table!gameVars
  <2>2. laid[atTable[r]] = board[r]
    BY <2>1 DEF JournalIsRight, PutOut
  <2>3. atTable[r] = "chess" => SpeaksOf(notes', laid["chess"])
    BY <2>1, <2>2 DEF SpeaksOf, Table!Line
  <2> QED
    BY <1>0, <1>1, <1>2, <2>1, <2>3 DEF Unsettled
<1>8. CASE Table!Take(r)
  <2>1. /\ playing[r] \in {"take", "sweep"} /\ UNCHANGED <<notes, atTable>>
        /\ playing'[r] = IF playing[r] = "sweep" THEN "swept" ELSE "taken"
        /\ laid' = [laid EXCEPT ![Table!Leaving(r)] = 0]
    BY <1>3, <1>8 DEF Table!Take, Table!At, Table!bookVars
  <2>2. Table!Leaving(r) # "chess" => laid'["chess"] = laid["chess"]
    BY <1>0, <2>1 DEF TableTypes
  <2>3. CASE playing[r] = "sweep" /\ atTable[r] = "kittens"
    BY <1>1, <2>1, <2>3 DEF Unsettled
  <2>4. CASE playing[r] = "take" /\ atTable[r] = "chess"
    BY <1>1, <2>1, <2>4 DEF Unsettled
  <2>5. CASE Table!Leaving(r) # "chess"
    BY <1>1, <1>2, <2>1, <2>2, <2>5 DEF Unsettled
  <2>6. Table!Leaving(r) = "chess"
           => \/ playing[r] = "sweep" /\ atTable[r] = "kittens"
              \/ playing[r] = "take" /\ atTable[r] = "chess"
    BY <1>0, <2>1 DEF Table!Leaving, Table!At, Table!Other
  <2> QED
    BY <2>3, <2>4, <2>5, <2>6
<1>9. CASE Table!Taken(r)
  <2>1. /\ playing[r] \in {"taken", "swept"} /\ UNCHANGED <<laid, atTable>>
        /\ playing'[r] = IF playing[r] = "swept" THEN "put" ELSE "idle"
        /\ notes' = IF Table!Leaving(r) = "chess" THEN {} ELSE notes
    BY <1>3, <1>9 DEF Table!Taken, Table!At, Table!gameVars
  <2>2. CASE notes' = {}
    BY <1>1, <2>1, <2>2 DEF SpeaksOf
  <2>3. CASE Table!Leaving(r) # "chess" /\ notes' = notes
    <3>1. ~Unsettled(r)
      BY <1>0, <2>1, <2>3 DEF Unsettled, Table!Leaving, Table!Other
    <3> QED
      BY <1>1, <1>2, <2>1, <2>3, <3>1 DEF Unsettled
  <2> QED
    BY <2>1, <2>2, <2>3
<1>10. CASE Table!ClaimTaken(r) \/ Table!WriteTaken(r)
  <2>1. UNCHANGED <<laid, playing, atTable, board>>
    BY <1>10 DEF Table!ClaimTaken, Table!WriteTaken, Table!gameVars, Table!callVars
  <2>2. \A n \in notes' : n \in notes \/ n.of # "moves"
    BY <1>10 DEF Table!ClaimTaken, Table!WriteTaken, Table!WriteUp, Table!Line
  <2> QED
    BY <2>1, <2>2, JournalStands DEF Unsettled
<1> QED
  BY <1>4, <1>5, <1>6, <1>7, <1>8, <1>9, <1>10 DEF Guest

LEMMA PlayerJournal ==
    ASSUME TableAssumption, OneGuest, TableTypes, JournalIsRight, NEW c \in Callers, Player(c)
    PROVE  JournalIsRight'
<1>1. /\ UNCHANGED <<laid, atTable>>
      /\ \A n \in notes' : n \in notes \/ n.game = laid["chess"]
  BY DEF Player, Table!Play, Table!Record, Table!EnsurePump, Table!gameVars, Table!bookVars,
         Table!Line
<1>2. playing[c] \in {"play", "record", "ensure"}
  BY DEF Player, Table!Play, Table!Record, Table!EnsurePump, Table!At
<1>3. PICK s \in {"record", "ensure", "leaves", "idle"} : Table!Goto(c, s)
  BY DEF Player, Table!Play, Table!Record, Table!EnsurePump, Table!Leave
<1>4. playing'[c] = s /\ \A d \in Callers \ {c} : playing'[d] = playing[d] /\ board'[d] = board[d]
  <2>1. \A d \in Callers \ {c} : board'[d] = board[d]
    BY DEF Player, Table!Play, Table!Record, Table!EnsurePump, Table!Leave, TableTypes
  <2> QED
    BY <1>3, <2>1, CallerMoves
<1>5. ASSUME NEW r \in Guests
      PROVE  /\ Unsettled(r)' = Unsettled(r)
             /\ playing'[r] = "reset" => /\ playing[r] = "reset" /\ atTable'[r] = atTable[r]
                                         /\ board'[r] = board[r]
  <2>1. CASE r = c
    BY <1>2, <1>3, <1>4, <2>1, Zenon DEF Unsettled
  <2>2. CASE r # c
    BY <1>1, <1>4, <2>2, TablesAre, Zenon DEF Unsettled
  <2> QED
    BY <2>1, <2>2
<1> QED
  BY <1>1, <1>5, JournalStands

LEMMA OthersJournal ==
    ASSUME TableAssumption, OneGuest, TableTypes, JournalIsRight, UNCHANGED laid,
           \A n \in notes' : n \in notes \/ n.of # "moves",
           \A r \in Guests : /\ playing'[r] = playing[r] /\ atTable'[r] = atTable[r]
                             /\ board'[r] = board[r]
    PROVE  JournalIsRight'
<1>1. \A r \in Guests : Unsettled(r)' = Unsettled(r)
  BY Zenon DEF Unsettled
<1> QED
  BY <1>1, JournalStands

LEMMA JournalStep ==
    ASSUME TableAssumption, OneGuest, TableTypes, JournalIsRight, [Table!Next]_(Table!vars)
    PROVE  JournalIsRight'
<1>1. CASE UNCHANGED Table!vars
  BY <1>1, OthersJournal DEF Table!vars, Table!gameVars, Table!bookVars, Table!callVars
<1>2. ASSUME NEW t \in Callers \ Guests, UNCHANGED <<laid, notes>>, NEW s, Table!Goto(t, s),
             \A d \in Callers \ {t} : atTable'[d] = atTable[d] /\ board'[d] = board[d]
      PROVE  JournalIsRight'
  <2>1. \A r \in Guests : playing'[r] = playing[r] /\ atTable'[r] = atTable[r] /\ board'[r] = board[r]
    BY <1>2, CallerMoves, TablesAre
  <2> QED
    BY <1>2, <2>1, OthersJournal
<1>3. \A t \in Thinkers : t \in Callers \ Guests
  BY TablesAre DEF TableAssumption
<1>4. ASSUME NEW t \in Thinkers, Thinker(t) PROVE JournalIsRight'
  <2>1. UNCHANGED <<laid, notes>> /\ \E s : Table!Goto(t, s)
    BY <1>4 DEF Thinker, Table!Wake, Table!Choose, Table!GiveUp, Table!TurnMoves, Table!TurnEnds,
                Table!gameVars, Table!bookVars
  <2>2. \A d \in Callers \ {t} : atTable'[d] = atTable[d] /\ board'[d] = board[d]
    BY <1>4 DEF Thinker, Table!Wake, Table!Choose, Table!GiveUp, Table!TurnMoves, Table!TurnEnds,
                TableTypes
  <2> QED
    BY <1>2, <1>3, <2>1, <2>2
<1>5. ASSUME NEW p \in Pumps, Round(p) PROVE JournalIsRight'
  <2>1. ASSUME NEW t \in Thinkers, Table!StartTurn(p, t) PROVE JournalIsRight'
    <3>1. UNCHANGED <<laid, notes, board>> /\ Table!Goto(t, "wakes")
      BY <2>1 DEF Table!StartTurn, Table!gameVars, Table!bookVars
    <3>2. \A d \in Callers \ {t} : atTable'[d] = atTable[d]
      BY <2>1 DEF Table!StartTurn, TableTypes
    <3> QED
      BY <1>2, <1>3, <3>1, <3>2
  <2>2. CASE \/ Table!Look(p) \/ Table!Tick(p) \/ Table!Book(p) \/ Table!File(p)
             \/ Table!Quit(p) \/ Table!Die(p)
    <3>1. UNCHANGED <<laid, playing, atTable, board>>
      BY <2>2 DEF Table!Look, Table!Tick, Table!Book, Table!File, Table!Quit, Table!Die,
                  Table!gameVars, Table!callVars
    <3>2. \A n \in notes' : n \in notes \/ n.of # "moves"
      BY <2>2 DEF Table!Look, Table!Tick, Table!Book, Table!File, Table!WriteUp, Table!Line,
                  Table!Quit, Table!Die, Table!bookVars
    <3> QED
      BY <3>1, <3>2, OthersJournal
  <2> QED
    BY <1>5, <2>1, <2>2 DEF Round
<1> QED
  BY <1>1, <1>4, <1>5, TableMoves, GuestJournal, PlayerJournal

\* While no board is being set up or taken away, the moves in the chess journal are those of the
\* game that is out, whatever turns of Rau's are under way: a move that outlived its board is not
\* written down (apply_move's second look at _game, _open, end).  Of the line "Game over", which
\* _finish writes on no such condition, it does not hold.
THEOREM NoMoveOutlivesItsBoard ==
    ASSUME TableAssumption, OneGuest PROVE Table!Spec => []Table!MovesOfThisGame
<1>1. Table!Init => TableTypes /\ JournalIsRight
  <2>1. ASSUME Table!Init PROVE JournalIsRight
    <3>1. notes = {} /\ \A r \in Guests : playing[r] = "idle"
      BY <2>1 DEF Table!Init, Table!Callers
    <3> QED
      BY <3>1 DEF JournalIsRight, InStep, PutOut, SpeaksOf
  <2> QED
    BY <2>1, TableTypesInit
<1>2. TableTypes /\ JournalIsRight /\ [Table!Next]_(Table!vars) => (TableTypes /\ JournalIsRight)'
  BY TableTypesStep, JournalStep
<1>3. JournalIsRight => Table!MovesOfThisGame
  BY DEF JournalIsRight, InStep, SpeaksOf, Unsettled, Table!MovesOfThisGame, Table!Settled
<1> QED
  BY <1>1, <1>2, <1>3, PTL DEF Table!Spec

-----------------------------------------------------------------------------
(* No card of Exploding Kittens is lost, and the menu is honest.           *)

CONSTANTS CatCards, Deals, Prompt
VARIABLES draw, hands, discard, onTurn, turns, phase, action, awaiting, known, winner,
          acted, thread, deciding, decided, wrong
Rau == INSTANCE KittensPlayer WITH current <- onTurn, pending <- action, turn <- thread

\* The rules alone (module Kittens) are Rau!Rules.
Cards == Rau!Rules!Cards
Sides == {"user", "rau"}
Kitten == "exploding_kitten"
Hands == [Sides -> [Cards -> Nat]]

\* How often a card lies in a pile.
Depths(s, c) == {i \in DOMAIN s : s[i] = c}
Lie(s, c) == Cardinality(Depths(s, c))

\* There are finitely many cards; a deal puts one kitten into the pile, and none in a hand
\* (deal_two_player of deck.py).
DealAssumption ==
    /\ IsFiniteSet(CatCards)
    /\ \A d \in Deals :
        /\ d.draw \in Seq(Cards) /\ d.hands \in Hands
        /\ Lie(d.draw, Kitten) = 1 /\ \A s \in Sides : d.hands[s][Kitten] = 0

LEMMA CardsAre ==
    /\ Kitten \in Cards /\ "defuse" \in Cards /\ "nope" \in Cards
         /\ Rau!Rules!Effects \subseteq Cards
    /\ Rau!Rules!KITTEN = Kitten /\ Rau!Rules!DEFUSE = "defuse" /\ Rau!Rules!NOPE = "nope"
    /\ Rau!Rules!UNPLAYABLE = {Kitten, "defuse"} /\ Kitten \notin Rau!Rules!Effects
BY DEF Cards, Kitten, Rau!Rules!Cards, Rau!Rules!UNPLAYABLE, Rau!Rules!KITTEN, Rau!Rules!DEFUSE,
   Rau!Rules!NOPE, Rau!Rules!Effects

LEMMA SeatsAre ==
    /\ Rau!Rules!SEATS = Sides /\ Rau!Rules!USER = "user" /\ Rau!Rules!RAU = "rau"
         /\ Rau!Rules!None = "none"
    /\ "user" \in Sides /\ "rau" \in Sides /\ "none" \notin Sides
    /\ \A s \in Sides : Rau!Rules!Other(s) \in Sides /\ Rau!Rules!Other(s) # s
    /\ Rau!Rules!Other("user") = "rau" /\ Rau!Rules!Other("rau") = "user"
BY DEF Sides, Rau!Rules!SEATS, Rau!Rules!USER, Rau!Rules!RAU, Rau!Rules!None, Rau!Rules!Other

LEMMA CatCountsAre == \A S : Rau!Rules!Cardinality(S) = Cardinality(S)
BY DEF Cardinality, Rau!Rules!Cardinality

-----------------------------------------------------------------------------
(* Counting the cards of a pile.                                           *)

LEMMA LieIsNat ==
    ASSUME NEW s \in Seq(Cards), NEW c PROVE IsFiniteSet(Depths(s, c)) /\ Lie(s, c) \in Nat
<1>1. IsFiniteSet(1..Len(s)) /\ DOMAIN s = 1..Len(s)
  BY FS_Interval
<1>2. IsFiniteSet(Depths(s, c))
  BY <1>1, FS_Subset DEF Depths
<1> QED
  BY <1>2, FS_CardinalityType DEF Lie

Same(d, c) == IF d = c THEN 1 ELSE 0

\* t is s with a card put in at place k.
PutIn(s, t, k, e) ==
    /\ Len(t) = Len(s) + 1 /\ k \in 1..Len(t) /\ t[k] = e
    /\ \A j \in 1..Len(s) : s[j] = t[IF j < k THEN j ELSE j + 1]

LEMMA LieOfPutIn ==
    ASSUME NEW s \in Seq(Cards), NEW t \in Seq(Cards), NEW k, NEW e, PutIn(s, t, k, e), NEW c
    PROVE  Lie(t, c) = Lie(s, c) + Same(e, c)
<1> DEFINE A == Depths(s, c)
           B == Depths(t, c) \ {k}
           f == [j \in A |-> IF j < k THEN j ELSE j + 1]
<1>1. /\ DOMAIN s = 1..Len(s) /\ DOMAIN t = 1..Len(t) /\ Len(s) \in Nat /\ Len(t) = Len(s) + 1
      /\ k \in 1..Len(t) /\ t[k] = e
  BY DEF PutIn
<1>2. A \subseteq 1..Len(s) /\ B \subseteq 1..Len(t)
  BY <1>1 DEF Depths
<1>3. ASSUME NEW j \in A PROVE f[j] \in B
  <2>1. j \in 1..Len(s) /\ s[j] = c /\ s[j] = t[f[j]]
    BY <1>1 DEF Depths, PutIn
  <2>2. f[j] \in 1..Len(t) /\ f[j] # k
    BY <1>1, <2>1
  <2> QED
    BY <1>1, <2>1, <2>2 DEF Depths
<1>4. ASSUME NEW i \in B PROVE \E j \in A : f[j] = i
  <2> DEFINE j == IF i < k THEN i ELSE i - 1
  <2>1. i \in 1..Len(t) /\ i # k /\ t[i] = c
    BY <1>1 DEF Depths
  <2>2. j \in 1..Len(s) /\ i = IF j < k THEN j ELSE j + 1
    BY <1>1, <2>1
  <2>3. s[j] = t[i]
    BY <2>2 DEF PutIn
  <2> HIDE DEF j
  <2>4. j \in A
    BY <1>1, <2>1, <2>2, <2>3 DEF Depths
  <2>5. f[j] = i
    BY <2>2, <2>4
  <2> QED
    BY <2>4, <2>5
<1>5. \A i, j \in A : f[i] = f[j] => i = j
  <2>1. \A i, j \in 1..Len(s) :
            (IF i < k THEN i ELSE i + 1) = (IF j < k THEN j ELSE j + 1) => i = j
    BY <1>1
  <2> QED
    BY <1>2, <2>1
<1>6. f \in [A -> B]
  BY <1>3
<1> HIDE DEF f
<1>7. f \in Bijection(A, B)
  BY <1>4, <1>5, <1>6 DEF Bijection, Injection, Surjection, IsInjective
<1>8. IsFiniteSet(A) /\ IsFiniteSet(Depths(t, c))
  BY LieIsNat
<1>9. IsFiniteSet(B) /\ Cardinality(B) = Cardinality(A)
  BY <1>7, <1>8, FS_Bijection DEF ExistsBijection
<1>10. Depths(t, c) = IF e = c THEN B \cup {k} ELSE B
  BY <1>1 DEF Depths
<1>11. Cardinality(A) \in Nat /\ k \notin B
  BY <1>8, FS_CardinalityType
<1> HIDE DEF A, B
<1>12. CASE e = c
  <2>1. Cardinality(B \cup {k}) = Cardinality(B) + 1
    BY <1>9, <1>11, FS_AddElement
  <2> QED
    BY <1>9, <1>10, <1>12, <2>1 DEF Lie, A, Same
<1>13. CASE e # c
  BY <1>9, <1>10, <1>11, <1>13 DEF Lie, A, Same
<1> QED
  BY <1>12, <1>13

LEMMA LieOfTail ==
    ASSUME NEW s \in Seq(Cards), s # <<>>, NEW c
    PROVE  /\ Tail(s) \in Seq(Cards) /\ Head(s) \in Cards
           /\ Lie(s, c) = Lie(Tail(s), c) + Same(Head(s), c)
<1>1. /\ Tail(s) \in Seq(Cards) /\ Head(s) \in Cards /\ Head(s) = s[1] /\ Len(s) \in Nat \ {0}
      /\ Len(s) = Len(Tail(s)) + 1 /\ \A j \in 1..Len(Tail(s)) : Tail(s)[j] = s[j + 1]
  OBVIOUS
<1>2. Tail(s) \in Seq(Cards) /\ \E k : PutIn(Tail(s), s, k, Head(s))
  BY <1>1 DEF PutIn
<1>3. Lie(s, c) = Lie(Tail(s), c) + Same(Head(s), c)
  <2> DEFINE u == Tail(s)
             d == Head(s)
  <2>1. u \in Seq(Cards) /\ \E k : PutIn(u, s, k, d)
    BY <1>2
  <2> HIDE DEF u, d
  <2>2. Lie(s, c) = Lie(u, c) + Same(d, c)
    BY <2>1, LieOfPutIn
  <2> QED
    BY <2>2 DEF u, d
<1> QED
  BY <1>1, <1>3

LEMMA LieOfInsert ==
    ASSUME NEW s \in Seq(Cards), NEW i \in 0..Len(s), NEW e \in Cards, NEW c
    PROVE  /\ Rau!Rules!InsertAt(s, i + 1, e) \in Seq(Cards)
           /\ Lie(Rau!Rules!InsertAt(s, i + 1, e), c) = Lie(s, c) + Same(e, c)
<1> DEFINE a == SubSeq(s, 1, i)
           b == SubSeq(s, i + 1, Len(s))
           t == a \o <<e>> \o b
<1>1. Rau!Rules!InsertAt(s, i + 1, e) = t
  <2>1. SubSeq(s, 1, (i + 1) - 1) = SubSeq(s, 1, i)
    <3>1. (i + 1) - 1 = i
      OBVIOUS
    <3> QED
      BY <3>1
  <2> QED
    BY <2>1, Zenon DEF Rau!Rules!InsertAt
<1>2. Len(s) \in Nat /\ i \in Nat /\ i <= Len(s)
  OBVIOUS
<1>3. a \in Seq(Cards) /\ Len(a) = i /\ \A j \in 1..i : a[j] = s[j]
  BY <1>2
<1>4. /\ b \in Seq(Cards) /\ Len(b) = Len(s) - i /\ \A j \in 1..(Len(s) - i) : b[j] = s[i + j]
  BY <1>2
<1> HIDE DEF a, b
<1>5. /\ t \in Seq(Cards) /\ Len(t) = Len(s) + 1 /\ t[i + 1] = e
      /\ \A j \in 1..i : t[j] = a[j]
      /\ \A j \in 1..(Len(s) - i) : t[i + 1 + j] = b[j]
  <2> DEFINE u == a \o <<e>>
  <2>1. u \in Seq(Cards) /\ Len(u) = i + 1 /\ u[i + 1] = e /\ \A j \in 1..i : u[j] = a[j]
    BY <1>2, <1>3
  <2>2. t = u \o b
    OBVIOUS
  <2> HIDE DEF u, t
  <2>3. /\ t \in Seq(Cards) /\ Len(t) = Len(u) + Len(b)
        /\ \A j \in 1..Len(u) : t[j] = u[j]
        /\ \A j \in 1..Len(b) : t[Len(u) + j] = b[j]
    <3>1. u \in Seq(Cards) /\ b \in Seq(Cards)
      BY <1>4, <2>1
    <3>2. u \o b \in Seq(Cards) /\ Len(u \o b) = Len(u) + Len(b)
      BY <3>1
    <3>3. ASSUME NEW j \in 1..Len(u) PROVE (u \o b)[j] = u[j]
      BY <3>1
    <3>4. ASSUME NEW j \in 1..Len(b) PROVE (u \o b)[Len(u) + j] = b[j]
      BY <3>1
    <3> QED
      BY <2>2, <3>2, <3>3, <3>4
  <2>4. Len(t) = Len(s) + 1
    BY <1>2, <1>4, <2>1, <2>3
  <2>5. \A j \in 1..(i + 1) : t[j] = u[j]
    BY <2>1, <2>3
  <2>6. t[i + 1] = e /\ \A j \in 1..i : t[j] = a[j]
    BY <1>2, <2>1, <2>5
  <2> QED
    BY <1>4, <2>1, <2>3, <2>4, <2>6
<1> HIDE DEF t
<1>6. PutIn(s, t, i + 1, e)
  <2>1. ASSUME NEW j \in 1..Len(s), j < i + 1 PROVE t[j] = s[j]
    <3>1. j \in 1..i
      BY <1>2, <2>1
    <3>2. t[j] = a[j]
      BY <1>5, <3>1, Zenon
    <3>3. a[j] = s[j]
      BY <1>3, <3>1, Zenon
    <3> QED
      BY <3>2, <3>3, Zenon
  <2>2. ASSUME NEW j \in 1..Len(s), ~(j < i + 1) PROVE t[j + 1] = s[j]
    <3> DEFINE n == j - i
    <3>1. n \in 1..(Len(s) - i) /\ i + 1 + n = j + 1 /\ i + n = j
      BY <1>2, <2>2
    <3> HIDE DEF n
    <3> QED
      BY <1>4, <1>5, <3>1
  <2>3. i + 1 \in 1..Len(t)
    BY <1>2, <1>5
  <2> QED
    BY <1>5, <2>1, <2>2, <2>3 DEF PutIn
<1> QED
  <2>1. t \in Seq(Cards) /\ \E k : PutIn(s, t, k, e)
    BY <1>5, <1>6
  <2>2. Lie(t, c) = Lie(s, c) + Same(e, c)
    BY <2>1, LieOfPutIn
  <2> QED
    BY <1>1, <2>1, <2>2

LEMMA LieOfShuffle ==
    ASSUME draw \in Seq(Cards), NEW s \in Rau!Rules!Shuffles
    PROVE  s \in Seq(Cards) /\ \A c : Lie(s, c) = Lie(draw, c)
<1>1. /\ s \in [1..Len(draw) -> Rau!Rules!ToSet(draw)] /\ Len(draw) \in Nat
      /\ \A c \in Rau!Rules!ToSet(draw) : Cardinality(Depths(s, c)) = Cardinality(Depths(draw, c))
  <2>1. \A c \in Rau!Rules!ToSet(draw) : Rau!Rules!Cardinality(Depths(s,
          c)) = Rau!Rules!Cardinality(Depths(draw, c))
    BY Zenon DEF Rau!Rules!Shuffles, Depths
  <2>2. s \in [1..Len(draw) -> Rau!Rules!ToSet(draw)]
    BY Zenon DEF Rau!Rules!Shuffles
  <2> QED
    BY <2>1, <2>2, CatCountsAre
<1>2. Rau!Rules!ToSet(draw) \subseteq Cards
  BY DEF Rau!Rules!ToSet
<1>3. s \in Seq(Cards) /\ DOMAIN s = 1..Len(draw)
  BY <1>1, <1>2
<1>4. ASSUME NEW c, c \notin Rau!Rules!ToSet(draw) PROVE Depths(s, c) = {} /\ Depths(draw, c) = {}
  BY <1>1, <1>3, <1>4 DEF Rau!Rules!ToSet, Depths
<1> QED
  BY <1>1, <1>3, <1>4 DEF Lie


-----------------------------------------------------------------------------
(* The invariant.                                                          *)

Phases == {"playing", "nope_window", "favor", "defuse", "salvage", "over"}
Kinds == {"card", "combo_two", "combo_three", "combo_five"}
Actions ==
    [kind : Kinds, actor : Sides, card : Cards, named : Cards \cup {"none"}, nopes : Nat,
     last : Sides]

\* An action in its window finds what it is played for.
Salvageable(d) == \E c \in Cards \ {Kitten} : d[c] > 0
Fits(p, d) ==
    /\ p \in Actions
    /\ p.kind = "combo_three" => p.named \in Cards
    /\ p.kind = "combo_five" => Salvageable(d)

Piles == draw \in Seq(Cards) /\ hands \in Hands /\ discard \in [Cards -> Nat]
KittenApart ==
    /\ \A s \in Sides : hands[s][Kitten] = 0
    /\ phase \notin {"defuse", "over"} => discard[Kitten] = 0
    /\ phase = "defuse" => discard[Kitten] = 1
Turned == onTurn \in Sides /\ turns \in Nat \ {0}
Windowed ==
    /\ phase = "nope_window" => Fits(action, discard)
    /\ phase # "nope_window" => action = Rau!Rules!NoPending
AskedFor ==
    /\ phase \in Phases
    /\ IF phase \in {"favor", "defuse", "salvage"} THEN awaiting \in Sides ELSE awaiting = "none"
    /\ phase = "favor" => \E c \in Cards : hands[awaiting][c] > 0
    /\ phase = "salvage" => Salvageable(discard)
Won == IF phase = "over" THEN winner \in Sides ELSE winner = "none"
Peeked == known \in [Sides -> Seq(Cards)] /\ Rau!Rules!PeekIsTrue

GameInv ==
    Piles /\ KittenApart /\ Turned /\ Windowed /\ AskedFor /\ Won /\ Peeked
      /\ Rau!Rules!CardsConserved

\* Hands and a discard pile that hold together what these do, the kitten where it was.
Held(h, d, c) == d[c] + h["user"][c] + h["rau"][c]
Balanced(h, d) ==
    /\ h \in Hands /\ d \in [Cards -> Nat]
    /\ \A c \in Cards : Held(h, d, c) = Held(hands, discard, c)
    /\ \A s \in Sides : h[s][Kitten] = 0
    /\ d[Kitten] = discard[Kitten]

LEMMA CountIs ==
    \A c : Rau!Rules!Count(c) = Held(hands, discard, c) + Lie(draw, c)
BY CatCountsAre, SeatsAre, Zenon DEF Rau!Rules!Count, Held, Lie, Depths

LEMMA HeldIsNat ==
    ASSUME NEW h \in Hands, NEW d \in [Cards -> Nat], NEW c \in Cards
    PROVE  Held(h, d, c) \in Nat
BY SeatsAre DEF Held, Hands

LEMMA TotalsStay ==
    ASSUME Rau!Rules!CardsConserved, \A c \in Cards : Rau!Rules!Count(c)' = Rau!Rules!Count(c)
    PROVE  Rau!Rules!CardsConserved'
BY Zenon DEF Rau!Rules!CardsConserved, Cards, Rau!Rules!Dealt, Rau!Rules!Cards,
   Rau!Rules!UNPLAYABLE, Rau!Rules!KITTEN,
             Rau!Rules!DEFUSE, Rau!Rules!NOPE, Rau!Rules!Effects

LEMMA KeptTogether ==
    ASSUME GameInv, Balanced(hands', discard'), draw' \in Seq(Cards),
           \A c \in Cards : Lie(draw', c) = Lie(draw, c)
    PROVE  /\ Piles' /\ Rau!Rules!CardsConserved'
           /\ (\A s \in Sides : hands'[s][Kitten] = 0) /\ discard'[Kitten] = discard[Kitten]
<1>1. Piles'
  BY DEF Balanced, Piles
<1>2. ASSUME NEW c \in Cards PROVE Rau!Rules!Count(c)' = Rau!Rules!Count(c)
  <2>1. Rau!Rules!Count(c)' = Held(hands', discard', c) + Lie(draw', c)
    BY CatCountsAre, SeatsAre, Zenon DEF Rau!Rules!Count, Held, Lie, Depths
  <2> QED
    BY <2>1, CountIs DEF Balanced
<1>3. Rau!Rules!CardsConserved'
  BY <1>2, TotalsStay DEF GameInv
<1> QED
  BY <1>1, <1>3 DEF Balanced

\* Until somebody has drawn it, the kitten is in the pile.
LEMMA PileHasTheKitten ==
    ASSUME DealAssumption, GameInv, phase \notin {"defuse", "over"} PROVE draw # <<>>
<1>1. PICK d \in Deals : \A c \in Cards : Rau!Rules!Count(c) = Rau!Rules!Dealt(d, c)
  BY Zenon DEF GameInv, Rau!Rules!CardsConserved, Cards
<1>2. Kitten \in Cards
  BY CardsAre
<1>3. Rau!Rules!Dealt(d, Kitten) = d.hands["user"][Kitten] + d.hands["rau"][Kitten] + Lie(d.draw,
        Kitten)
  BY CatCountsAre, SeatsAre, Zenon DEF Rau!Rules!Dealt, Lie, Depths
<1>4. Rau!Rules!Dealt(d, Kitten) = 1
  BY <1>3, SeatsAre DEF DealAssumption
<1>5. Held(hands, discard, Kitten) = 0
  BY SeatsAre DEF Held, GameInv, KittenApart
<1>6. Lie(draw, Kitten) = 1
  <2>1. draw \in Seq(Cards)
    BY DEF GameInv, Piles
  <2>2. Lie(draw, Kitten) \in Nat
    BY <2>1, LieIsNat
  <2>3. 0 + Lie(draw, Kitten) = 1
    BY <1>1, <1>2, <1>4, <1>5, CountIs
  <2> QED
    BY <2>2, <2>3
<1> QED
  <2> SUFFICES ASSUME draw = <<>> PROVE FALSE
    OBVIOUS
  <2>1. Depths(draw, Kitten) = {}
    BY DEF Depths
  <2> QED
    BY <1>6, <2>1, FS_EmptySet DEF Lie

-----------------------------------------------------------------------------
(* Cards change hands.                                                     *)

LEMMA OnePasses ==
    ASSUME NEW h, NEW d, Balanced(h, d), NEW from \in Sides, NEW c \in Cards, h[from][c] > 0
    PROVE  Balanced(Rau!Rules!Passed(h, from, c), d)
<1> DEFINE to == Rau!Rules!Other(from)
           g == Rau!Rules!Passed(h, from, c)
<1>1. h \in Hands /\ to \in Sides /\ to # from /\ h[from][c] \in Nat /\ c # Kitten
  BY SeatsAre, CardsAre DEF Balanced, Hands
<1>2. g = [h EXCEPT ![from] = Rau!Rules!Without(@, c, 1), ![to] = Rau!Rules!With(@, c, 1)]
  BY Zenon DEF Rau!Rules!Passed
<1>3. /\ Rau!Rules!Without(h[from], c, 1) = [h[from] EXCEPT ![c] = @ - 1]
      /\ Rau!Rules!With(h[to], c, 1) = [h[to] EXCEPT ![c] = @ + 1]
  BY Zenon DEF Rau!Rules!With, Rau!Rules!Without
<1> HIDE DEF g, to
<1>4. /\ g[from] = [h[from] EXCEPT ![c] = @ - 1] /\ g[to] = [h[to] EXCEPT ![c] = @ + 1]
      /\ DOMAIN g = Sides
  BY <1>1, <1>2, <1>3 DEF Hands
<1>5. \A s \in Sides : s = from \/ s = to
  BY <1>1 DEF Sides
<1>6. /\ g[from] \in [Cards -> Nat] /\ g[to] \in [Cards -> Nat]
      /\ g[from][c] = h[from][c] - 1 /\ g[to][c] = h[to][c] + 1
      /\ \A x \in Cards \ {c} : g[from][x] = h[from][x] /\ g[to][x] = h[to][x]
  BY <1>1, <1>4 DEF Hands
<1>7. g \in Hands
  <2>1. g = [s \in Sides |-> g[s]]
    BY <1>2, <1>1 DEF Hands
  <2> QED
    BY <1>5, <1>6, <2>1 DEF Hands
<1>8. ASSUME NEW x \in Cards PROVE Held(g, d, x) = Held(h, d, x)
  <2>0. /\ g[from][x] \in Nat /\ g[to][x] \in Nat /\ h[from][x] \in Nat /\ h[to][x] \in Nat
    BY <1>1, <1>6 DEF Hands
  <2>1. g[from][x] + g[to][x] = h[from][x] + h[to][x]
    <3>1. CASE x = c
      <4>1. g[from][x] = h[from][x] - 1 /\ g[to][x] = h[to][x] + 1
        BY <1>6, <3>1
      <4> QED
        BY <2>0, <4>1
    <3>2. CASE x # c
      <4>1. g[from][x] = h[from][x] /\ g[to][x] = h[to][x]
        BY <1>6, <3>2
      <4> QED
        BY <4>1
    <3> QED
      BY <3>1, <3>2
  <2>2. (from = "user" /\ to = "rau") \/ (from = "rau" /\ to = "user")
    BY <1>1 DEF Sides
  <2>3. /\ g["user"][x] \in Nat /\ g["rau"][x] \in Nat /\ h["user"][x] \in Nat
        /\ h["rau"][x] \in Nat /\ d[x] \in Nat
    BY <1>1, <1>7, SeatsAre DEF Hands, Balanced
  <2> QED
    BY <2>1, <2>2, <2>3 DEF Held
<1>9. \A s \in Sides : g[s][Kitten] = 0
  BY <1>1, <1>5, <1>6, CardsAre DEF Balanced
<1> QED
  BY <1>7, <1>8, <1>9 DEF Balanced, g

\* Cards leave a hand for the discard pile, so many of each.
LEMMA SomeAreLaid ==
    ASSUME Piles, NEW s \in Sides, NEW n \in [Cards -> Nat], n[Kitten] = 0,
           \A c \in Cards : n[c] <= hands[s][c],
           \A r \in Sides : hands[r][Kitten] = 0,
           NEW h \in Hands, NEW d \in [Cards -> Nat],
           \A c \in Cards : h[s][c] = hands[s][c] - n[c] /\ d[c] = discard[c] + n[c],
           \A r \in Sides \ {s} : h[r] = hands[r]
    PROVE  Balanced(h, d)
<1>1. PICK r \in Sides : r # s /\ \A q \in Sides : q = r \/ q = s
  BY DEF Sides
<1>2. ASSUME NEW c \in Cards PROVE Held(h, d, c) = Held(hands, discard, c)
  <2>1. h[s][c] + d[c] = hands[s][c] + discard[c] /\ h[r][c] = hands[r][c]
    BY <1>1 DEF Piles, Hands
  <2>2. (s = "user" /\ r = "rau") \/ (s = "rau" /\ r = "user")
    BY <1>1 DEF Sides
  <2>3. /\ h["user"][c] \in Nat /\ h["rau"][c] \in Nat /\ hands["user"][c] \in Nat
        /\ hands["rau"][c] \in Nat /\ d[c] \in Nat /\ discard[c] \in Nat
    BY SeatsAre DEF Hands, Piles
  <2> QED
    BY <2>1, <2>2, <2>3 DEF Held
<1>3. Kitten \in Cards
  BY CardsAre
<1>4. discard[Kitten] \in Nat /\ hands[s][Kitten] = 0
  BY <1>3 DEF Piles
<1>5. d[Kitten] = discard[Kitten]
  <2>1. d[Kitten] = discard[Kitten] + 0
    BY <1>3
  <2> QED
    BY <1>4, <2>1
<1>6. h[s][Kitten] = 0
  <2>1. h[s][Kitten] = 0 - 0
    BY <1>3, <1>4
  <2> QED
    BY <2>1
<1>7. h[r][Kitten] = 0
  BY <1>1
<1> QED
  BY <1>1, <1>2, <1>5, <1>6, <1>7 DEF Balanced


-----------------------------------------------------------------------------
(* What a seat remembers of the pile.                                      *)

LEMMA PrefixIs ==
    ASSUME NEW k \in Seq(Cards), NEW s \in Seq(Cards)
    PROVE  Rau!Rules!IsPrefix(k, s) <=> Len(k) <= Len(s) /\ \A i \in 1..Len(k) : k[i] = s[i]
<1> DEFINE a == SubSeq(k, 1, Len(k))
           b == SubSeq(s, 1, Len(k))
<1>1. Rau!Rules!IsPrefix(k, s) <=> Len(k) <= Len(s) /\ a = b
  BY Zenon DEF Rau!Rules!IsPrefix
<1>2. /\ Len(k) \in Nat /\ Len(s) \in Nat
      /\ a \in Seq(Cards) /\ Len(a) = Len(k) /\ \A i \in 1..Len(k) : a[i] = k[i]
  OBVIOUS
<1>3. Len(k) <= Len(s) => b \in Seq(Cards) /\ Len(b) = Len(k) /\ \A i \in 1..Len(k) : b[i] = s[i]
  BY <1>2
<1> HIDE DEF a, b
<1>4. ASSUME Len(k) <= Len(s) PROVE a = b <=> \A i \in 1..Len(k) : k[i] = s[i]
  BY <1>2, <1>3, <1>4
<1> QED
  BY <1>1, <1>4

LEMMA PeeksStay ==
    ASSUME Peeked, UNCHANGED <<draw, known>> PROVE Peeked'
BY SeatsAre DEF Peeked, Rau!Rules!PeekIsTrue

LEMMA NothingIsRemembered ==
    ASSUME draw' \in Seq(Cards), known' = Rau!Rules!Forgotten PROVE Peeked'
<1>1. known' = [s \in Sides |-> <<>>]
  BY SeatsAre DEF Rau!Rules!Forgotten
<1>2. \A s \in Sides : known'[s] = <<>> /\ <<>> \in Seq(Cards)
  BY <1>1
<1>3. ASSUME NEW s \in Sides PROVE Rau!Rules!IsPrefix(known'[s], draw')
  <2> DEFINE k == known'[s]
             t == draw'
  <2>1. k = <<>>
    BY <1>2
  <2>2. t \in Seq(Cards)
    OBVIOUS
  <2> HIDE DEF k, t
  <2>3. k \in Seq(Cards) /\ Len(k) = 0 /\ Len(t) \in Nat
    BY <2>1, <2>2
  <2>4. Len(k) <= Len(t) /\ \A i \in 1..Len(k) : k[i] = t[i]
    BY <2>3
  <2>5. Rau!Rules!IsPrefix(k, t)
    BY <2>2, <2>3, <2>4, PrefixIs
  <2> QED
    BY <2>5 DEF k, t
<1> QED
  BY <1>1, <1>2, <1>3, SeatsAre DEF Peeked, Rau!Rules!PeekIsTrue

\* See the Future shows the top of the pile.
LEMMA TheTopIsSeen ==
    ASSUME Peeked, draw \in Seq(Cards), draw' = draw, NEW n \in 0..Len(draw), NEW s \in Sides,
           known' = [known EXCEPT ![s] = SubSeq(draw, 1, n)]
    PROVE  Peeked'
<1> DEFINE k == SubSeq(draw, 1, n)
<1>1. k \in Seq(Cards) /\ Len(k) = n /\ n <= Len(draw) /\ \A i \in 1..n : k[i] = draw[i]
  OBVIOUS
<1> HIDE DEF k
<1>2. Rau!Rules!IsPrefix(k, draw)
  BY <1>1, PrefixIs
<1>3. known' \in [Sides -> Seq(Cards)] /\ known'[s] = k
        /\ \A r \in Sides \ {s} : known'[r] = known[r]
  BY <1>1 DEF Peeked, k
<1> QED
  BY <1>2, <1>3, SeatsAre DEF Peeked, Rau!Rules!PeekIsTrue

\* A drawn card goes from the top of every peek too.
LEMMA PeeksMoveAlong ==
    ASSUME Peeked, draw \in Seq(Cards), draw # <<>>, draw' = Tail(draw),
           known' = Rau!Rules!PeeksAfterDraw
    PROVE  Peeked'
<1>1. known' = [s \in Sides |-> IF known[s] = <<>> THEN <<>> ELSE Tail(known[s])]
  BY SeatsAre DEF Rau!Rules!PeeksAfterDraw
<1>2. ASSUME NEW s \in Sides PROVE known'[s] \in Seq(Cards) /\ Rau!Rules!IsPrefix(known'[s], draw')
  <2> DEFINE k == known[s]
             l == known'[s]
             t == Tail(draw)
  <2>1. k \in Seq(Cards) /\ Rau!Rules!IsPrefix(k, draw) /\ l = IF k = <<>> THEN <<>> ELSE Tail(k)
    BY <1>1, SeatsAre DEF Peeked, Rau!Rules!PeekIsTrue
  <2> HIDE DEF k, l
  <2>2. Len(k) <= Len(draw) /\ \A i \in 1..Len(k) : k[i] = draw[i]
    BY <2>1, PrefixIs
  <2>3. /\ t \in Seq(Cards) /\ Len(draw) \in Nat \ {0} /\ Len(t) = Len(draw) - 1
        /\ \A i \in 1..Len(t) : t[i] = draw[i + 1]
    OBVIOUS
  <2> HIDE DEF t
  <2>4. CASE k = <<>>
    <3>1. l \in Seq(Cards) /\ Len(l) = 0
      BY <2>1, <2>4
    <3>2. Len(l) <= Len(t) /\ \A i \in 1..Len(l) : l[i] = t[i]
      BY <2>3, <3>1
    <3> QED
      BY <2>3, <3>1, <3>2, PrefixIs DEF l, t
  <2>5. CASE k # <<>>
    <3>1. /\ l \in Seq(Cards) /\ Len(k) \in Nat \ {0} /\ Len(l) = Len(k) - 1
          /\ \A i \in 1..Len(l) : l[i] = k[i + 1]
      BY <2>1, <2>5
    <3>2. Len(l) <= Len(t) /\ \A i \in 1..Len(l) : l[i] = t[i]
      BY <2>2, <2>3, <3>1
    <3> QED
      BY <2>3, <3>1, <3>2, PrefixIs DEF l, t
  <2> QED
    BY <2>4, <2>5
<1> QED
  BY <1>1, <1>2, SeatsAre DEF Peeked, Rau!Rules!PeekIsTrue


-----------------------------------------------------------------------------
(* An action that is carried out, or fizzles.                              *)

\* The table after it: nobody has won, the window is shut and no card is gone.
Settled ==
    /\ Balanced(hands', discard') /\ draw' \in Seq(Cards)
    /\ \A c \in Cards : Lie(draw', c) = Lie(draw, c)
    /\ Peeked' /\ Turned' /\ AskedFor' /\ phase' \in {"playing", "favor", "salvage"}

AtEase == GameInv /\ phase \in {"playing", "nope_window"}

LEMMA SettledTable ==
    ASSUME AtEase, Settled, action' = Rau!Rules!NoPending, winner' = winner PROVE GameInv'
<1>1. /\ Piles' /\ Rau!Rules!CardsConserved'
      /\ (\A s \in Sides : hands'[s][Kitten] = 0) /\ discard'[Kitten] = discard[Kitten]
  BY KeptTogether DEF Settled, AtEase
<1>2. discard[Kitten] = 0 /\ winner = "none"
  BY DEF AtEase, GameInv, KittenApart, Won
<1>3. phase' \notin {"defuse", "over", "nope_window"}
  BY DEF Settled
<1>4. KittenApart' /\ Windowed' /\ Won'
  BY <1>1, <1>2, <1>3 DEF KittenApart, Windowed, Won
<1> QED
  BY <1>1, <1>4 DEF GameInv, Settled

LEMMA PlayGoesOn ==
    ASSUME Rau!Rules!Play PROVE AskedFor' /\ phase' = "playing"
BY SeatsAre DEF Rau!Rules!Play, AskedFor, Phases

LEMMA TurnStays == ASSUME Turned, Rau!Rules!SameTurn PROVE Turned'
BY DEF Turned, Rau!Rules!SameTurn

LEMMA TurnEnds == ASSUME Turned, Rau!Rules!EndTurn PROVE Turned'
<1>1. CASE turns > 1
  <2>1. turns' = turns - 1 /\ onTurn' = onTurn
    BY <1>1 DEF Rau!Rules!EndTurn
  <2> QED
    BY <1>1, <2>1 DEF Turned
<1>2. CASE ~(turns > 1)
  <2>1. turns' = 1 /\ onTurn' = Rau!Rules!Other(onTurn)
    BY <1>2 DEF Rau!Rules!EndTurn
  <2> QED
    BY <2>1, SeatsAre DEF Turned
<1> QED
  BY <1>1, <1>2

\* The turn, the pile and the peeks are as they were.
AsItWas == Rau!Rules!Play /\ Rau!Rules!SameTurn /\ UNCHANGED <<draw, known>>

LEMMA NothingElse ==
    ASSUME AtEase, AsItWas, Balanced(hands', discard') PROVE Settled
<1>1. Turned /\ Peeked /\ draw \in Seq(Cards)
  BY DEF AtEase, GameInv, Piles
<1>2. Turned' /\ Peeked' /\ draw' = draw
  BY <1>1, TurnStays, PeeksStay DEF AsItWas
<1> QED
  BY <1>1, <1>2, PlayGoesOn DEF Settled, AsItWas

LEMMA HoldsAre == \A g, c : Rau!Rules!Holds(g, c) <=> g[c] > 0
BY DEF Rau!Rules!Holds

LEMMA HoldingIs == \A g, c : c \in Rau!Rules!Holding(g) <=> c \in Cards /\ g[c] > 0
BY DEF Rau!Rules!Holding, Cards, Rau!Rules!Holds

LEMMA StealSettles ==
    ASSUME AtEase, NEW p, NEW h, NEW d, Balanced(h, d), Fits(p, d), Rau!Rules!Steal(p, h, d)
    PROVE  Settled
<1> DEFINE victim == Rau!Rules!Other(p.actor)
<1>1. victim \in Sides
  BY SeatsAre DEF Fits, Actions
<1>2. AsItWas
  BY Zenon DEF Rau!Rules!Steal, AsItWas
<1>3. \/ hands' = h /\ discard' = d
      \/ \E c \in Rau!Rules!Holding(h[victim]) : hands' = Rau!Rules!Passed(h, victim, c)
           /\ discard' = d
  BY Zenon DEF Rau!Rules!Steal, Rau!Rules!Hold
<1> HIDE DEF victim
<1>4. CASE hands' = h /\ discard' = d
  BY <1>2, <1>4, NothingElse
<1>5. CASE \E c \in Rau!Rules!Holding(h[victim]) : hands' = Rau!Rules!Passed(h, victim, c)
             /\ discard' = d
  <2>1. PICK c \in Rau!Rules!Holding(h[victim]) : hands' = Rau!Rules!Passed(h, victim, c)
               /\ discard' = d
    BY <1>5
  <2>2. c \in Cards /\ h[victim][c] > 0
    BY HoldingIs
  <2>3. Balanced(Rau!Rules!Passed(h, victim, c), d)
    BY <1>1, <2>2, OnePasses
  <2> QED
    BY <1>2, <2>1, <2>3, NothingElse
<1> QED
  BY <1>3, <1>4, <1>5

LEMMA DemandSettles ==
    ASSUME AtEase, NEW p, NEW h, NEW d, Balanced(h, d), Fits(p, d), p.kind = "combo_three",
           Rau!Rules!Demand(p, h, d)
    PROVE  Settled
<1> DEFINE victim == Rau!Rules!Other(p.actor)
<1>1. victim \in Sides /\ p.named \in Cards
  BY SeatsAre DEF Fits, Actions
<1>2. AsItWas
  BY Zenon DEF Rau!Rules!Demand, AsItWas
<1>3. /\ Rau!Rules!Holds(h[victim], p.named) => hands' = Rau!Rules!Passed(h, victim, p.named)
      /\ ~Rau!Rules!Holds(h[victim], p.named) => hands' = h
      /\ discard' = d
  BY Zenon DEF Rau!Rules!Demand, Rau!Rules!Hold
<1> HIDE DEF victim
<1>4. CASE Rau!Rules!Holds(h[victim], p.named)
  <2>1. Balanced(Rau!Rules!Passed(h, victim, p.named), d)
    BY <1>1, <1>4, HoldsAre, OnePasses
  <2> QED
    BY <1>2, <1>3, <1>4, <2>1, NothingElse
<1>5. CASE ~Rau!Rules!Holds(h[victim], p.named)
  BY <1>2, <1>3, <1>5, NothingElse
<1> QED
  BY <1>4, <1>5

LEMMA SalvageSettles ==
    ASSUME AtEase, NEW p, NEW h, NEW d, Balanced(h, d), Fits(p, d), p.kind = "combo_five",
           Rau!Rules!Salvage(p, h, d)
    PROVE  Settled
<1>1. /\ hands' = h /\ discard' = d /\ phase' = "salvage" /\ awaiting' = p.actor
      /\ Rau!Rules!SameTurn /\ UNCHANGED <<draw, known>>
  BY DEF Rau!Rules!Salvage, Rau!Rules!Hold, Rau!Rules!AskFor
<1>2. Salvageable(discard') /\ awaiting' \in Sides
  BY <1>1 DEF Fits, Actions
<1>3. AskedFor'
  BY <1>1, <1>2 DEF AskedFor, Phases, Salvageable
<1>4. Turned /\ Peeked /\ draw \in Seq(Cards)
  BY DEF AtEase, GameInv, Piles
<1>5. Turned' /\ Peeked'
  BY <1>1, <1>4, TurnStays, PeeksStay
<1> QED
  BY <1>1, <1>3, <1>4, <1>5 DEF Settled


LEMMA EffectSettles ==
    ASSUME AtEase, NEW p, NEW h, NEW d, Balanced(h, d), Fits(p, d), Rau!Rules!Effect(p, h, d)
    PROVE  Settled
<1>1. hands' = h /\ discard' = d /\ Rau!Rules!Other(p.actor) \in Sides /\ p.actor \in Sides
  BY SeatsAre DEF Rau!Rules!Effect, Rau!Rules!Hold, Fits, Actions
<1>2. Turned /\ Peeked /\ draw \in Seq(Cards)
  BY DEF AtEase, GameInv, Piles
<1>3. ASSUME UNCHANGED draw, Turned', Peeked', Rau!Rules!Play PROVE Settled
  BY <1>1, <1>2, <1>3, PlayGoesOn DEF Settled
<1>4. \/ onTurn' = Rau!Rules!Other(p.actor) /\ turns' = Rau!Rules!Owed /\ Rau!Rules!Play
           /\ UNCHANGED <<draw, known>>
      \/ Rau!Rules!EndTurn /\ Rau!Rules!Play /\ UNCHANGED <<draw, known>>
      \/ Rau!Rules!Reshuffle /\ Rau!Rules!Play /\ Rau!Rules!SameTurn
      \/ /\ Rau!Rules!Play /\ Rau!Rules!SameTurn /\ UNCHANGED draw
         /\ known' = [known EXCEPT ![p.actor] =
                SubSeq(draw, 1, IF Len(draw) < Rau!Rules!FUTURE_DEPTH
                                    THEN Len(draw) ELSE Rau!Rules!FUTURE_DEPTH)]
      \/ /\ Rau!Rules!SameTurn /\ UNCHANGED <<draw, known>>
         /\ Rau!Rules!Holding(h[Rau!Rules!Other(p.actor)]) = {} /\ Rau!Rules!Play
      \/ /\ Rau!Rules!SameTurn /\ UNCHANGED <<draw, known>>
         /\ Rau!Rules!Holding(h[Rau!Rules!Other(p.actor)]) # {}
              /\ Rau!Rules!AskFor("favor", Rau!Rules!Other(p.actor))
  BY Zenon DEF Rau!Rules!Effect
<1>5. CASE onTurn' = Rau!Rules!Other(p.actor) /\ turns' = Rau!Rules!Owed /\ Rau!Rules!Play
             /\ UNCHANGED <<draw, known>>
  <2>1. Rau!Rules!Owed \in Nat \ {0}
    BY <1>2 DEF Rau!Rules!Owed, Rau!Rules!ATTACK_TURNS, Turned
  <2>2. Turned'
    BY <1>1, <1>5, <2>1 DEF Turned
  <2>3. Peeked'
    BY <1>2, <1>5, PeeksStay
  <2> QED
    BY <1>3, <1>5, <2>2, <2>3
<1>6. CASE Rau!Rules!EndTurn /\ Rau!Rules!Play /\ UNCHANGED <<draw, known>>
  <2>1. Turned' /\ Peeked'
    BY <1>2, <1>6, PeeksStay, TurnEnds
  <2> QED
    BY <1>3, <1>6, <2>1
<1>7. CASE Rau!Rules!Reshuffle /\ Rau!Rules!Play /\ Rau!Rules!SameTurn
  <2>1. draw' \in Rau!Rules!Shuffles /\ known' = Rau!Rules!Forgotten
    BY <1>7 DEF Rau!Rules!Reshuffle
  <2>2. draw' \in Seq(Cards) /\ \A c \in Cards : Lie(draw', c) = Lie(draw, c)
    <3> DEFINE t == draw'
    <3>1. t \in Rau!Rules!Shuffles
      BY <2>1
    <3> HIDE DEF t
    <3>2. t \in Seq(Cards) /\ \A c \in Cards : Lie(t, c) = Lie(draw, c)
      BY <1>2, <3>1, LieOfShuffle
    <3> QED
      BY <3>2 DEF t
  <2>3. Turned' /\ Peeked'
    BY <1>2, <1>7, <2>1, <2>2, TurnStays, NothingIsRemembered
  <2> QED
    BY <1>1, <1>7, <2>2, <2>3, PlayGoesOn DEF Settled
<1>8. CASE /\ Rau!Rules!Play /\ Rau!Rules!SameTurn /\ UNCHANGED draw
           /\ known' = [known EXCEPT ![p.actor] =
                SubSeq(draw, 1, IF Len(draw) < Rau!Rules!FUTURE_DEPTH
                                    THEN Len(draw) ELSE Rau!Rules!FUTURE_DEPTH)]
  <2> DEFINE n == IF Len(draw) < Rau!Rules!FUTURE_DEPTH THEN Len(draw) ELSE Rau!Rules!FUTURE_DEPTH
             s == p.actor
  <2>1. n \in 0..Len(draw) /\ s \in Sides
    BY <1>1, <1>2 DEF Rau!Rules!FUTURE_DEPTH
  <2>2. known' = [known EXCEPT ![s] = SubSeq(draw, 1, n)]
    BY <1>8
  <2> HIDE DEF n, s
  <2>3. Peeked'
    BY <1>2, <1>8, <2>1, <2>2, TheTopIsSeen
  <2> QED
    BY <1>2, <1>3, <1>8, <2>3, TurnStays
<1>9. CASE /\ Rau!Rules!SameTurn /\ UNCHANGED <<draw, known>>
           /\ Rau!Rules!Holding(h[Rau!Rules!Other(p.actor)]) = {} /\ Rau!Rules!Play
  <2>1. Turned' /\ Peeked'
    BY <1>2, <1>9, PeeksStay, TurnStays
  <2> QED
    BY <1>3, <1>9, <2>1
<1>10. CASE /\ Rau!Rules!SameTurn /\ UNCHANGED <<draw, known>>
            /\ Rau!Rules!Holding(h[Rau!Rules!Other(p.actor)]) # {}
                 /\ Rau!Rules!AskFor("favor", Rau!Rules!Other(p.actor))
  <2>1. Turned' /\ Peeked'
    BY <1>2, <1>10, PeeksStay, TurnStays
  <2>2. phase' = "favor" /\ awaiting' = Rau!Rules!Other(p.actor)
    BY <1>10 DEF Rau!Rules!AskFor
  <2>3. \E c \in Cards : hands'[awaiting'][c] > 0
    BY <1>1, <1>10, <2>2, HoldingIs
  <2>4. AskedFor'
    BY <1>1, <2>2, <2>3 DEF AskedFor, Phases
  <2> QED
    BY <1>1, <1>2, <1>10, <2>1, <2>2, <2>4 DEF Settled
<1> QED
  BY <1>4, <1>5, <1>6, <1>7, <1>8, <1>9, <1>10

LEMMA ResolvedTable ==
    ASSUME AtEase, NEW p, NEW h, NEW d, Balanced(h, d), Fits(p, d), Rau!Rules!Resolve(p, h, d)
    PROVE  GameInv'
<1>1. action' = Rau!Rules!NoPending /\ winner' = winner
  BY DEF Rau!Rules!Resolve
<1>2. CASE p.nopes % 2 = 1
  <2>1. AsItWas /\ hands' = h /\ discard' = d
    BY <1>2, Zenon DEF Rau!Rules!Resolve, AsItWas, Rau!Rules!Hold
  <2> QED
    BY <1>1, <2>1, NothingElse, SettledTable
<1>3. CASE p.nopes % 2 # 1
  <2>1. p.kind \in Kinds
    BY DEF Fits, Actions
  <2>2. \/ p.kind = "combo_two" /\ Rau!Rules!Steal(p, h, d)
        \/ p.kind = "combo_three" /\ Rau!Rules!Demand(p, h, d)
        \/ p.kind = "combo_five" /\ Rau!Rules!Salvage(p, h, d)
        \/ Rau!Rules!Effect(p, h, d)
    BY <1>3, <2>1, Zenon DEF Rau!Rules!Resolve, Kinds
  <2>3. Settled
    BY <2>2, StealSettles, DemandSettles, SalvageSettles, EffectSettles
  <2> QED
    BY <1>1, <2>3, SettledTable
<1> QED
  BY <1>2, <1>3

LEMMA OpenedTable ==
    ASSUME AtEase, NEW p, NEW h, NEW d, Balanced(h, d), Fits(p, d), Rau!Rules!OpenWindow(p, h, d)
    PROVE  GameInv'
<1>1. CASE Rau!Rules!Resolve(p, h, d)
  BY <1>1, ResolvedTable
<1>2. CASE /\ action' = p /\ phase' = "nope_window" /\ hands' = h /\ discard' = d
           /\ UNCHANGED <<draw, onTurn, turns, awaiting, known, winner>>
  <2>1. /\ phase # "over" /\ phase \notin {"favor", "defuse", "salvage"}
        /\ Turned /\ Peeked /\ draw \in Seq(Cards) /\ AskedFor /\ Won /\ discard[Kitten] = 0
    BY DEF AtEase, GameInv, Piles, KittenApart
  <2>2. /\ Piles' /\ Rau!Rules!CardsConserved'
        /\ (\A s \in Sides : hands'[s][Kitten] = 0) /\ discard'[Kitten] = discard[Kitten]
    <3>1. draw' \in Seq(Cards) /\ \A c \in Cards : Lie(draw', c) = Lie(draw, c)
      BY <1>2, <2>1
    <3>2. Balanced(hands', discard')
      BY <1>2
    <3>3. GameInv
      BY DEF AtEase
    <3> QED
      BY <3>1, <3>2, <3>3, KeptTogether
  <2>3. Windowed'
    BY <1>2 DEF Windowed
  <2>4. AskedFor' /\ Won' /\ Turned'
    BY <1>2, <2>1 DEF AskedFor, Phases, Won, Turned
  <2>5. Peeked'
    BY <1>2, <2>1, PeeksStay
  <2>6. KittenApart'
    BY <1>2, <2>1, <2>2 DEF KittenApart
  <2> QED
    BY <2>2, <2>3, <2>4, <2>5, <2>6 DEF GameInv
<1> QED
  BY <1>1, <1>2, Zenon DEF Rau!Rules!OpenWindow, Rau!Rules!Hold


-----------------------------------------------------------------------------
(* A card more in a hand, or in the discard pile.                          *)

Some(n, c, x) == IF x = c THEN n ELSE 0
MoreIn(g, h, s, c, n) ==
    /\ h[s][c] = g[s][c] + n /\ \A x \in Cards \ {c} : h[s][x] = g[s][x]
    /\ \A r \in Sides \ {s} : h[r] = g[r]
MoreOn(e, d, c, n) == d[c] = e[c] + n /\ \A x \in Cards \ {c} : d[x] = e[x]

LEMMA HeldOfMoreIn ==
    ASSUME NEW g \in Hands, NEW h \in Hands, NEW s \in Sides, NEW c \in Cards, NEW n \in Nat,
           MoreIn(g, h, s, c, n), NEW d \in [Cards -> Nat], NEW x \in Cards
    PROVE  Held(h, d, x) = Held(g, d, x) + Some(n, c, x)
<1>1. h[s][x] = g[s][x] + Some(n, c, x) /\ Some(n, c, x) \in Nat
  <2>1. CASE x = c
    BY <2>1 DEF MoreIn, Some
  <2>2. CASE x # c
    <3>1. h[s][x] = g[s][x] /\ g[s][x] \in Nat /\ Some(n, c, x) = 0
      BY <2>2 DEF MoreIn, Some, Hands
    <3> QED
      BY <3>1
  <2> QED
    BY <2>1, <2>2
<1>2. /\ h["user"][x] \in Nat /\ h["rau"][x] \in Nat /\ g["user"][x] \in Nat
      /\ g["rau"][x] \in Nat /\ d[x] \in Nat
  BY SeatsAre DEF Hands
<1>3. CASE s = "user"
  <2>1. h["rau"][x] = g["rau"][x]
    BY <1>3, SeatsAre DEF MoreIn, Sides
  <2> QED
    BY <1>1, <1>2, <1>3, <2>1 DEF Held
<1>4. CASE s = "rau"
  <2>1. h["user"][x] = g["user"][x]
    BY <1>4, SeatsAre DEF MoreIn, Sides
  <2> QED
    BY <1>1, <1>2, <1>4, <2>1 DEF Held
<1> QED
  BY <1>3, <1>4 DEF Sides

LEMMA HeldOfMoreOn ==
    ASSUME NEW h \in Hands, NEW e \in [Cards -> Nat], NEW d \in [Cards -> Nat], NEW c \in Cards,
           NEW n \in Nat, MoreOn(e, d, c, n), NEW x \in Cards
    PROVE  Held(h, d, x) = Held(h, e, x) + Some(n, c, x)
<1>1. d[x] = e[x] + Some(n, c, x) /\ Some(n, c, x) \in Nat
  <2>1. CASE x = c
    BY <2>1 DEF MoreOn, Some
  <2>2. CASE x # c
    <3>1. d[x] = e[x] /\ e[x] \in Nat /\ Some(n, c, x) = 0
      BY <2>2 DEF MoreOn, Some
    <3> QED
      BY <3>1
  <2> QED
    BY <2>1, <2>2
<1>2. h["user"][x] \in Nat /\ h["rau"][x] \in Nat /\ d[x] \in Nat /\ e[x] \in Nat
  BY SeatsAre DEF Hands
<1> QED
  BY <1>1, <1>2 DEF Held

LEMMA OneIsDealt ==
    ASSUME NEW g \in Hands, NEW s \in Sides, NEW c \in Cards, NEW n \in Nat
    PROVE  /\ [g EXCEPT ![s] = Rau!Rules!With(@, c, n)] \in Hands
           /\ MoreIn(g, [g EXCEPT ![s] = Rau!Rules!With(@, c, n)], s, c, n)
<1>1. Rau!Rules!With(g[s], c, n) = [g[s] EXCEPT ![c] = @ + n]
  BY Zenon DEF Rau!Rules!With
<1> QED
  BY <1>1 DEF MoreIn, Hands

LEMMA OneIsTaken ==
    ASSUME NEW g \in Hands, NEW s \in Sides, NEW c \in Cards, NEW n \in Nat, n <= g[s][c]
    PROVE  /\ [g EXCEPT ![s] = Rau!Rules!Without(@, c, n)] \in Hands
           /\ MoreIn([g EXCEPT ![s] = Rau!Rules!Without(@, c, n)], g, s, c, n)
<1>1. Rau!Rules!Without(g[s], c, n) = [g[s] EXCEPT ![c] = @ - n]
  BY Zenon DEF Rau!Rules!Without
<1> QED
  BY <1>1 DEF MoreIn, Hands

LEMMA OneIsLaid ==
    ASSUME NEW d \in [Cards -> Nat], NEW c \in Cards, NEW n \in Nat
    PROVE  Rau!Rules!With(d, c, n) \in [Cards -> Nat] /\ MoreOn(d, Rau!Rules!With(d, c, n), c, n)
<1>1. Rau!Rules!With(d, c, n) = [d EXCEPT ![c] = @ + n]
  BY Zenon DEF Rau!Rules!With
<1> QED
  BY <1>1 DEF MoreOn

LEMMA OneIsLifted ==
    ASSUME NEW d \in [Cards -> Nat], NEW c \in Cards, NEW n \in Nat, n <= d[c]
    PROVE  Rau!Rules!Without(d, c, n) \in [Cards -> Nat]
             /\ MoreOn(Rau!Rules!Without(d, c, n), d, c, n)
<1>1. Rau!Rules!Without(d, c, n) = [d EXCEPT ![c] = @ - n]
  BY Zenon DEF Rau!Rules!Without
<1> QED
  BY <1>1 DEF MoreOn

\* Some of one card go from a hand to the discard pile.
LEMMA SomeArePlayed ==
    ASSUME Piles, \A r \in Sides : hands[r][Kitten] = 0,
           NEW s \in Sides, NEW c \in Cards, c # Kitten, NEW n \in Nat, n <= hands[s][c]
    PROVE  Balanced([hands EXCEPT ![s] = Rau!Rules!Without(@, c, n)], Rau!Rules!With(discard, c, n))
<1> DEFINE h == [hands EXCEPT ![s] = Rau!Rules!Without(@, c, n)]
           d == Rau!Rules!With(discard, c, n)
<1>1. hands \in Hands /\ discard \in [Cards -> Nat] /\ Kitten \in Cards
  BY CardsAre DEF Piles
<1>2. h \in Hands /\ MoreIn(h, hands, s, c, n)
  BY <1>1, OneIsTaken
<1>3. d \in [Cards -> Nat] /\ MoreOn(discard, d, c, n)
  BY <1>1, OneIsLaid
<1> HIDE DEF h, d
<1>4. ASSUME NEW x \in Cards PROVE Held(h, d, x) = Held(hands, discard, x)
  <2>1. Held(hands, discard, x) = Held(h, discard, x) + Some(n, c, x)
    BY <1>1, <1>2, HeldOfMoreIn
  <2>2. Held(h, d, x) = Held(h, discard, x) + Some(n, c, x)
    BY <1>1, <1>2, <1>3, HeldOfMoreOn
  <2> QED
    BY <2>1, <2>2
<1>5. d[Kitten] = discard[Kitten] /\ \A r \in Sides : h[r][Kitten] = 0
  BY <1>1, <1>2, <1>3 DEF MoreIn, MoreOn
<1>6. Balanced(h, d)
  BY <1>2, <1>3, <1>4, <1>5 DEF Balanced
<1> QED
  BY <1>6 DEF h, d

LEMMA CountsMatch ==
    ASSUME GameInv, hands' \in Hands, discard' \in [Cards -> Nat], draw' \in Seq(Cards),
           \A c \in Cards : Held(hands', discard', c) + Lie(draw', c)
                          = Held(hands, discard, c) + Lie(draw, c)
    PROVE  Piles' /\ Rau!Rules!CardsConserved'
<1>1. ASSUME NEW c \in Cards PROVE Rau!Rules!Count(c)' = Rau!Rules!Count(c)
  <2>1. Rau!Rules!Count(c)' = Held(hands', discard', c) + Lie(draw', c)
    BY CatCountsAre, SeatsAre, Zenon DEF Rau!Rules!Count, Held, Lie, Depths
  <2> QED
    BY <2>1, CountIs
<1>2. Rau!Rules!CardsConserved'
  BY <1>1, TotalsStay DEF GameInv
<1> QED
  BY <1>2 DEF Piles


-----------------------------------------------------------------------------
(* The moves.                                                              *)

LEMMA TurnIs ==
    ASSUME GameInv, NEW s, Rau!Rules!MyTurn(s)
    PROVE  /\ AtEase /\ phase = "playing" /\ onTurn = s /\ s \in Sides
           /\ Piles /\ \A r \in Sides : hands[r][Kitten] = 0
BY DEF Rau!Rules!MyTurn, AtEase, GameInv, Turned, KittenApart

LEMMA PlayKeeps ==
    ASSUME GameInv, NEW s, NEW c \in Cards, Rau!Rules!PlayCard(s, c) PROVE GameInv'
<1> DEFINE p == [kind |-> "card", actor |-> s, card |-> c, named |-> Rau!Rules!None, nopes |-> 0,
             last |-> s]
           h == [hands EXCEPT ![s] = Rau!Rules!Without(@, c, 1)]
           d == Rau!Rules!With(discard, c, 1)
<1>1. Rau!Rules!MyTurn(s) /\ c \in Rau!Rules!Effects /\ Rau!Rules!Holds(hands[s], c)
        /\ Rau!Rules!OpenWindow(p, h, d)
  BY Zenon DEF Rau!Rules!PlayCard, Rau!Rules!MayPlay
<1>2. AtEase /\ s \in Sides /\ Piles /\ \A r \in Sides : hands[r][Kitten] = 0
  BY <1>1, TurnIs
<1>3. hands[s][c] \in Nat /\ hands[s][c] > 0 /\ c # Kitten
  BY <1>1, <1>2, CardsAre, HoldsAre DEF Piles, Hands
<1>4. 1 \in Nat /\ 1 <= hands[s][c]
  BY <1>3
<1>5. Balanced(h, d)
  BY <1>2, <1>3, <1>4, SomeArePlayed
<1>6. Fits(p, d)
  BY <1>2, SeatsAre DEF Fits, Actions, Kinds
<1> HIDE DEF p, h, d
<1> QED
  BY <1>1, <1>2, <1>5, <1>6, OpenedTable

LEMMA ComboKeeps ==
    ASSUME GameInv, NEW s, NEW c \in Cards, NEW n \in {2, 3}, NEW named,
           named = Rau!Rules!None \/ named \in Cards, n = 3 => named \in Cards,
           Rau!Rules!Combo(s, c, n, named)
    PROVE  GameInv'
<1> DEFINE kind == IF n = 2 THEN "combo_two" ELSE "combo_three"
           p == [kind |-> kind, actor |-> s, card |-> c, named |-> named, nopes |-> 0, last |-> s]
           h == [hands EXCEPT ![s] = Rau!Rules!Without(@, c, n)]
           d == Rau!Rules!With(discard, c, n)
<1>1. Rau!Rules!MyTurn(s) /\ c \notin Rau!Rules!UNPLAYABLE /\ hands[s][c] >= n
        /\ Rau!Rules!OpenWindow(p, h, d)
  BY Zenon DEF Rau!Rules!Combo, Rau!Rules!MayMatch
<1>2. AtEase /\ s \in Sides /\ Piles /\ \A r \in Sides : hands[r][Kitten] = 0
  BY <1>1, TurnIs
<1>3. n \in Nat /\ n <= hands[s][c] /\ c # Kitten
  BY <1>1, <1>2, CardsAre DEF Piles, Hands
<1>4. Balanced(h, d)
  BY <1>2, <1>3, SomeArePlayed
<1>5. Fits(p, d)
  <2>1. kind \in Kinds /\ kind # "combo_five" /\ (kind = "combo_three" => n = 3)
    BY DEF Kinds
  <2> HIDE DEF kind
  <2>2. named \in Cards \cup {"none"}
    BY SeatsAre
  <2> QED
    BY <1>2, <2>1, <2>2 DEF Fits, Actions
<1> HIDE DEF p, h, d
<1> QED
  BY <1>1, <1>2, <1>4, <1>5, OpenedTable

LEMMA FiveKeeps ==
    ASSUME GameInv, NEW s, NEW five, Rau!Rules!ComboFive(s, five) PROVE GameInv'
<1> DEFINE moved(pile, n) == [c \in Rau!Rules!Cards |-> IF c \in five THEN pile[c] + n ELSE pile[c]]
           card == CHOOSE c \in five : TRUE
           p == [kind |-> "combo_five", actor |-> s, card |-> card, named |-> Rau!Rules!None,
                 nopes |-> 0, last |-> s]
           h == [hands EXCEPT ![s] = moved(@, -1)]
           d == moved(discard, 1)
<1>1. /\ Rau!Rules!MyTurn(s) /\ Rau!Rules!Cardinality(five) = Rau!Rules!COMBO_FIVE
      /\ five \subseteq Rau!Rules!Holding(hands[s]) /\ Rau!Rules!OpenWindow(p, h, d)
  BY Zenon DEF Rau!Rules!ComboFive, Rau!Rules!MayFive
<1>2. AtEase /\ s \in Sides /\ Piles /\ \A r \in Sides : hands[r][Kitten] = 0
  BY <1>1, TurnIs
<1>3. \A c \in five : c \in Cards /\ hands[s][c] > 0 /\ c # Kitten
  BY <1>1, <1>2, HoldingIs
<1>4. card \in five
  <2>1. five # {}
    BY <1>1, CatCountsAre, FS_EmptySet DEF Rau!Rules!COMBO_FIVE
  <2> QED
    BY <2>1
<1>5. Balanced(h, d)
  <2> DEFINE n == [c \in Cards |-> IF c \in five THEN 1 ELSE 0]
  <2>1. n \in [Cards -> Nat] /\ Kitten \in Cards
    BY CardsAre
  <2>2. n[Kitten] = 0
    BY <1>3, <2>1
  <2>3. \A c \in Cards : n[c] <= hands[s][c]
    BY <1>2, <1>3 DEF Piles, Hands
  <2>4. h[s] = [c \in Cards |-> IF c \in five THEN hands[s][c] - 1 ELSE hands[s][c]]
    <3>1. h[s] = [c \in Cards |-> IF c \in five THEN hands[s][c] + -1 ELSE hands[s][c]]
      BY <1>2 DEF Piles, Hands, Cards
    <3>2. \A c \in Cards : hands[s][c] + -1 = hands[s][c] - 1
      BY <1>2 DEF Piles, Hands
    <3> QED
      BY <3>1, <3>2
  <2>5. d = [c \in Cards |-> IF c \in five THEN discard[c] + 1 ELSE discard[c]]
    BY DEF Cards
  <2>6. d \in [Cards -> Nat]
    BY <1>2, <2>5 DEF Piles
  <2>7. h[s] \in [Cards -> Nat] /\ \A c \in Cards : h[s][c] = hands[s][c] - n[c]
    BY <1>2, <1>3, <2>4 DEF Piles, Hands
  <2>8. \A c \in Cards : d[c] = discard[c] + n[c]
    BY <1>2, <2>5 DEF Piles
  <2>9. h \in Hands /\ \A r \in Sides \ {s} : h[r] = hands[r]
    BY <1>2, <2>7 DEF Piles, Hands
  <2> HIDE DEF n, h, d
  <2> QED
    BY <1>2, <2>1, <2>2, <2>3, <2>6, <2>7, <2>8, <2>9, SomeAreLaid
<1>6. Fits(p, d)
  <2>1. card \in Cards \ {Kitten} /\ d[card] > 0
    BY <1>2, <1>3, <1>4 DEF Piles, Cards
  <2> HIDE DEF card, d
  <2>2. Salvageable(d)
    BY <2>1 DEF Salvageable
  <2> QED
    BY <1>2, <2>1, <2>2, SeatsAre DEF Fits, Actions, Kinds
<1> HIDE DEF p, h, d
<1> QED
  BY <1>1, <1>2, <1>5, <1>6, OpenedTable

LEMMA WindowIs ==
    ASSUME GameInv, phase = "nope_window"
    PROVE  /\ AtEase /\ Fits(action, discard) /\ Balanced(hands, discard)
           /\ Piles /\ \A r \in Sides : hands[r][Kitten] = 0
BY DEF GameInv, AtEase, Windowed, Balanced, Piles, KittenApart

LEMMA NopeKeeps ==
    ASSUME GameInv, NEW s \in Sides, Rau!Rules!Nope(s) PROVE GameInv'
<1> DEFINE p == [action EXCEPT !.nopes = @ + 1, !.last = s]
           h == [hands EXCEPT ![s] = Rau!Rules!Without(@, Rau!Rules!NOPE, 1)]
           d == Rau!Rules!With(discard, Rau!Rules!NOPE, 1)
<1>1. phase = "nope_window" /\ Rau!Rules!Holds(hands[s], Rau!Rules!NOPE)
        /\ Rau!Rules!OpenWindow(p, h, d)
  BY Zenon DEF Rau!Rules!Nope, Rau!Rules!MayNope
<1>2. AtEase /\ Fits(action, discard) /\ Piles /\ \A r \in Sides : hands[r][Kitten] = 0
  BY <1>1, WindowIs
<1>3. Rau!Rules!NOPE \in Cards /\ Rau!Rules!NOPE # Kitten
  BY CardsAre DEF Kitten
<1>4. hands[s][Rau!Rules!NOPE] \in Nat /\ hands[s][Rau!Rules!NOPE] > 0
  BY <1>1, <1>2, <1>3, HoldsAre DEF Piles, Hands
<1>5. 1 \in Nat /\ 1 <= hands[s][Rau!Rules!NOPE]
  BY <1>4
<1>6. Balanced(h, d)
  BY <1>2, <1>3, <1>5, SomeArePlayed
<1>7. Fits(p, d)
  <2>1. /\ p \in Actions /\ p.kind = action.kind /\ p.named = action.named
    <3> DEFINE q == [action EXCEPT !.nopes = @ + 1]
    <3>1. action \in Actions
      BY <1>2 DEF Fits
    <3>2. q \in Actions /\ q.kind = action.kind /\ q.named = action.named
      BY <3>1 DEF Actions
    <3>3. p = [q EXCEPT !.last = s]
      OBVIOUS
    <3> HIDE DEF q, p
    <3> QED
      BY <3>2, <3>3 DEF Actions
  <2>2. d \in [Cards -> Nat] /\ MoreOn(discard, d, Rau!Rules!NOPE, 1) /\ discard \in [Cards -> Nat]
    BY <1>2, <1>3, OneIsLaid DEF Piles
  <2> HIDE DEF d, p
  <2>3. \A c \in Cards : discard[c] > 0 => d[c] > 0
    BY <2>2 DEF MoreOn
  <2>4. Salvageable(discard) => Salvageable(d)
    BY <2>3 DEF Salvageable
  <2> QED
    BY <1>2, <2>1, <2>4 DEF Fits
<1> HIDE DEF p, h, d
<1> QED
  BY <1>1, <1>2, <1>6, <1>7, OpenedTable

LEMMA WindowShuts ==
    ASSUME GameInv, phase = "nope_window", Rau!Rules!Resolve(action, hands, discard) PROVE GameInv'
BY WindowIs, ResolvedTable


\* Outside a window, cards that balance leave the rest of the invariant to its parts.
LEMMA PartsHold ==
    ASSUME Piles', Rau!Rules!CardsConserved', KittenApart', Turned', Windowed', AskedFor', Won',
             Peeked'
    PROVE  GameInv'
BY DEF GameInv

LEMMA DrawKeeps ==
    ASSUME GameInv, NEW s, Rau!Rules!Draw(s) PROVE GameInv'
<1> DEFINE e == Head(draw)
           t == Tail(draw)
<1>1. /\ Rau!Rules!MyTurn(s) /\ draw # <<>> /\ draw' = t /\ known' = Rau!Rules!PeeksAfterDraw
      /\ action' = action
  BY Zenon DEF Rau!Rules!Draw, Rau!Rules!MayDraw
<1>2. AtEase /\ phase = "playing" /\ onTurn = s /\ s \in Sides /\ Piles
  BY <1>1, TurnIs
<1>3. /\ hands \in Hands /\ discard \in [Cards -> Nat] /\ draw \in Seq(Cards) /\ Turned /\ Peeked
      /\ Won /\ AskedFor /\ (\A r \in Sides : hands[r][Kitten] = 0) /\ discard[Kitten] = 0
      /\ Windowed /\ Kitten \in Cards
  BY <1>2, CardsAre DEF GameInv, Piles, KittenApart
<1>4. /\ t \in Seq(Cards) /\ e \in Cards
      /\ \A c \in Cards : /\ Lie(draw, c) = Lie(t, c) + Same(e, c)
                          /\ Lie(t, c) \in Nat /\ Held(hands, discard, c) \in Nat
  BY <1>1, <1>3, LieOfTail, LieIsNat, HeldIsNat
<1>5. Peeked'
  BY <1>1, <1>3, PeeksMoveAlong
<1>6. \A c : Some(1, e, c) = Same(e, c)
  BY DEF Some, Same
<1> HIDE DEF e, t
<1>7. e \in Cards /\ hands \in Hands /\ discard \in [Cards -> Nat]
  BY <1>3, <1>4
<1>8. CASE e # Kitten
  <2>1. /\ hands' = [hands EXCEPT ![s] = Rau!Rules!With(@, e, 1)] /\ discard' = discard
             /\ Rau!Rules!EndTurn
        /\ UNCHANGED <<phase, awaiting, winner>>
    BY <1>8, CardsAre, Zenon DEF Rau!Rules!Draw, e
  <2>2. hands' \in Hands /\ MoreIn(hands, hands', s, e, 1)
    <3>1. 1 \in Nat
      OBVIOUS
    <3> QED
      BY <1>2, <1>3, <1>4, <2>1, <3>1, OneIsDealt
  <2>3. ASSUME NEW c \in Cards
        PROVE  Held(hands', discard', c) + Lie(draw', c) = Held(hands, discard, c) + Lie(draw, c)
    <3> DEFINE h == hands'
    <3>1. Held(h, discard, c) = Held(hands, discard, c) + Some(1, e, c)
      <4>1. h \in Hands /\ MoreIn(hands, h, s, e, 1) /\ 1 \in Nat
        BY <2>2
      <4> HIDE DEF h
      <4> QED
        BY <1>2, <1>3, <1>4, <4>1, HeldOfMoreIn
    <3> HIDE DEF h
    <3>2. Same(e, c) \in Nat
      BY DEF Same
    <3>3. Held(h, discard, c) + Lie(t, c) = Held(hands, discard, c) + Lie(draw, c)
      BY <1>4, <1>6, <3>1, <3>2
    <3> QED
      BY <1>1, <2>1, <3>3 DEF h
  <2>4. Piles' /\ Rau!Rules!CardsConserved'
    BY <1>1, <1>3, <1>4, <2>1, <2>2, <2>3, CountsMatch
  <2>5. KittenApart'
    BY <1>2, <1>3, <1>8, <2>1, <2>2 DEF KittenApart, MoreIn
  <2>6. Turned'
    BY <1>3, <2>1, TurnEnds
  <2>7. Windowed' /\ AskedFor' /\ Won'
    BY <1>1, <1>2, <1>3, <2>1 DEF Windowed, AskedFor, Won
  <2> QED
    BY <1>5, <2>4, <2>5, <2>6, <2>7, PartsHold
<1>9. CASE e = Kitten /\ ~Rau!Rules!Holds(hands[s], "defuse")
  <2>1. /\ discard' = Rau!Rules!With(discard, Kitten, 1) /\ phase' = "over"
             /\ winner' = Rau!Rules!Other(s)
        /\ awaiting' = Rau!Rules!None /\ UNCHANGED <<hands, onTurn, turns>>
    BY <1>9, CardsAre, Zenon DEF Rau!Rules!Draw, e
  <2>2. discard' \in [Cards -> Nat] /\ MoreOn(discard, discard', Kitten, 1)
    <3>1. 1 \in Nat
      OBVIOUS
    <3> QED
      BY <1>3, <2>1, <3>1, OneIsLaid
  <2>3. ASSUME NEW c \in Cards
        PROVE  Held(hands', discard', c) + Lie(draw', c) = Held(hands, discard, c) + Lie(draw, c)
    <3> DEFINE d == discard'
    <3>1. Held(hands, d, c) = Held(hands, discard, c) + Some(1, e, c)
      <4>1. d \in [Cards -> Nat] /\ MoreOn(discard, d, e, 1) /\ 1 \in Nat
        BY <1>9, <2>2
      <4> HIDE DEF d
      <4> QED
        BY <1>7, <4>1, HeldOfMoreOn
    <3> HIDE DEF d
    <3>2. Same(e, c) \in Nat
      BY DEF Same
    <3>3. Held(hands, d, c) + Lie(t, c) = Held(hands, discard, c) + Lie(draw, c)
      BY <1>4, <1>6, <3>1, <3>2
    <3> QED
      BY <1>1, <2>1, <3>3 DEF d
  <2>4. Piles' /\ Rau!Rules!CardsConserved'
    BY <1>1, <1>3, <1>4, <2>1, <2>2, <2>3, CountsMatch
  <2>5. KittenApart' /\ Turned'
    BY <1>3, <2>1 DEF KittenApart, Turned
  <2>6. Windowed' /\ AskedFor' /\ Won'
    BY <1>1, <1>2, <1>3, <2>1, SeatsAre DEF Windowed, AskedFor, Won, Phases
  <2> QED
    BY <1>5, <2>4, <2>5, <2>6, PartsHold
<1>10. CASE e = Kitten /\ Rau!Rules!Holds(hands[s], "defuse")
  <2> DEFINE m == Rau!Rules!With(discard, Kitten, 1)
             h == hands'
             d == discard'
  <2>1. /\ h = [hands EXCEPT ![s] = Rau!Rules!Without(@, "defuse", 1)]
        /\ d = Rau!Rules!With(m, "defuse", 1) /\ phase' = "defuse" /\ awaiting' = s
        /\ UNCHANGED <<onTurn, turns, winner>>
    BY <1>10, CardsAre, Zenon DEF Rau!Rules!Draw, Rau!Rules!AskFor, Rau!Rules!SameTurn, e
  <2>2. hands[s]["defuse"] \in Nat /\ hands[s]["defuse"] > 0 /\ "defuse" \in Cards
    BY <1>2, <1>3, <1>10, CardsAre, HoldsAre DEF Hands
  <2>3. 1 \in Nat /\ 1 <= hands[s]["defuse"]
    BY <2>2
  <2>4. h \in Hands /\ MoreIn(h, hands, s, "defuse", 1)
    BY <1>2, <1>3, <2>1, <2>2, <2>3, OneIsTaken
  <2>5. m \in [Cards -> Nat] /\ MoreOn(discard, m, Kitten, 1)
    BY <1>3, <2>3, OneIsLaid
  <2> HIDE DEF m, h, d
  <2>6. d \in [Cards -> Nat] /\ MoreOn(m, d, "defuse", 1)
    BY <2>1, <2>2, <2>3, <2>5, OneIsLaid
  <2>7. ASSUME NEW c \in Cards
        PROVE  Held(h, d, c) + Lie(t, c) = Held(hands, discard, c) + Lie(draw, c)
    <3>1. Held(hands, discard, c) = Held(h, discard, c) + Some(1, "defuse", c)
      BY <1>2, <1>3, <2>2, <2>3, <2>4, HeldOfMoreIn
    <3>2. Held(h, m, c) = Held(h, discard, c) + Some(1, e, c)
      <4>1. MoreOn(discard, m, e, 1) /\ m \in [Cards -> Nat] /\ h \in Hands /\ 1 \in Nat
        BY <1>10, <2>4, <2>5
      <4> QED
        BY <1>7, <4>1, HeldOfMoreOn
    <3>3. Held(h, d, c) = Held(h, m, c) + Some(1, "defuse", c)
      BY <2>2, <2>3, <2>4, <2>5, <2>6, HeldOfMoreOn
    <3>4. Same(e, c) \in Nat /\ Some(1, "defuse", c) \in Nat /\ Held(h, discard, c) \in Nat
      BY <1>3, <2>4, HeldIsNat DEF Same, Some
    <3> QED
      BY <1>4, <1>6, <3>1, <3>2, <3>3, <3>4
  <2>8. Piles' /\ Rau!Rules!CardsConserved'
    <3>1. /\ hands' \in Hands /\ discard' \in [Cards -> Nat] /\ draw' \in Seq(Cards)
          /\ \A c \in Cards : Held(hands', discard', c) + Lie(draw', c)
                            = Held(hands, discard, c) + Lie(draw, c)
      BY <1>1, <1>4, <2>4, <2>6, <2>7 DEF h, d
    <3> QED
      BY <3>1, CountsMatch
  <2>9. KittenApart'
    <3>1. d[Kitten] = 1
      BY <1>3, <2>5, <2>6, CardsAre DEF MoreOn, Kitten
    <3>2. \A r \in Sides : h[r][Kitten] = 0
      BY <1>3, <2>4 DEF MoreIn, Kitten
    <3> QED
      BY <2>1, <3>1, <3>2 DEF KittenApart, h, d
  <2>10. Turned' /\ Windowed' /\ AskedFor' /\ Won'
    BY <1>1, <1>2, <1>3, <2>1 DEF Turned, Windowed, AskedFor, Won, Phases
  <2> QED
    BY <1>5, <2>8, <2>9, <2>10, PartsHold
<1> QED
  BY <1>8, <1>9, <1>10


LEMMA InsertKeeps ==
    ASSUME GameInv, NEW s, NEW i, Rau!Rules!InsertKitten(s, i) PROVE GameInv'
<1> DEFINE t == Rau!Rules!InsertAt(draw, i + 1, Kitten)
           d == discard'
<1>1. /\ phase = "defuse" /\ i \in 0..Len(draw) /\ draw' = t
      /\ d = Rau!Rules!Without(discard, Kitten, 1) /\ known' = Rau!Rules!Forgotten
      /\ Rau!Rules!Play /\ Rau!Rules!EndTurn /\ UNCHANGED <<hands, action, winner>>
  BY CardsAre, Zenon DEF Rau!Rules!InsertKitten, Rau!Rules!MayInsert
<1>2. /\ hands \in Hands /\ discard \in [Cards -> Nat] /\ draw \in Seq(Cards) /\ Turned /\ Won
      /\ (\A r \in Sides : hands[r][Kitten] = 0) /\ discard[Kitten] = 1 /\ Windowed
      /\ Kitten \in Cards
  BY <1>1, CardsAre DEF GameInv, Piles, KittenApart
<1>3. t \in Seq(Cards) /\ \A c \in Cards : Lie(t, c) = Lie(draw, c) + Same(Kitten, c)
  BY <1>1, <1>2, LieOfInsert
<1>4. 1 \in Nat /\ 1 <= discard[Kitten]
  BY <1>2
<1>5. d \in [Cards -> Nat] /\ MoreOn(d, discard, Kitten, 1)
  BY <1>1, <1>2, <1>4, OneIsLifted
<1>6. \A c : Some(1, Kitten, c) = Same(Kitten, c)
  BY DEF Some, Same
<1> HIDE DEF t, d
<1>7. ASSUME NEW c \in Cards
      PROVE  Held(hands, d, c) + Lie(t, c) = Held(hands, discard, c) + Lie(draw, c)
  <2>1. Held(hands, discard, c) = Held(hands, d, c) + Some(1, Kitten, c)
    <3>1. hands \in Hands /\ discard \in [Cards -> Nat] /\ Kitten \in Cards /\ 1 \in Nat
      BY <1>2
    <3> QED
      BY <1>5, <3>1, HeldOfMoreOn
  <2>2. Same(Kitten, c) \in Nat /\ Held(hands, d, c) \in Nat /\ Lie(draw, c) \in Nat
    BY <1>2, <1>5, HeldIsNat, LieIsNat DEF Same
  <2> QED
    BY <1>3, <1>6, <2>1, <2>2
<1>8. Piles' /\ Rau!Rules!CardsConserved'
  <2>1. /\ hands' \in Hands /\ discard' \in [Cards -> Nat] /\ draw' \in Seq(Cards)
        /\ \A c \in Cards : Held(hands', discard', c) + Lie(draw', c)
                          = Held(hands, discard, c) + Lie(draw, c)
    BY <1>1, <1>2, <1>3, <1>5, <1>7 DEF d
  <2> QED
    BY <2>1, CountsMatch
<1>9. AskedFor' /\ phase' = "playing"
  BY <1>1, PlayGoesOn
<1>10. d[Kitten] = 0
  BY <1>2, <1>5 DEF MoreOn
<1>11. KittenApart' /\ Windowed' /\ Won'
  BY <1>1, <1>2, <1>9, <1>10 DEF KittenApart, Windowed, Won, d
<1>12. Turned' /\ Peeked'
  BY <1>1, <1>2, <1>3, TurnEnds, NothingIsRemembered
<1> QED
  BY <1>8, <1>9, <1>11, <1>12, PartsHold

LEMMA GiveKeeps ==
    ASSUME GameInv, NEW s, NEW c \in Cards, Rau!Rules!GiveFavor(s, c) PROVE GameInv'
<1>1. /\ phase = "favor" /\ awaiting = s /\ Rau!Rules!Holds(hands[s], c)
      /\ hands' = Rau!Rules!Passed(hands, s, c) /\ Rau!Rules!Play
      /\ UNCHANGED <<draw, discard, onTurn, turns, action, known, winner>>
  BY Zenon DEF Rau!Rules!GiveFavor, Rau!Rules!MayGive
<1>2. /\ hands \in Hands /\ discard \in [Cards -> Nat] /\ draw \in Seq(Cards) /\ Turned /\ Won
      /\ (\A r \in Sides : hands[r][Kitten] = 0) /\ discard[Kitten] = 0 /\ Windowed
      /\ Peeked /\ s \in Sides
  BY <1>1 DEF GameInv, Piles, KittenApart, AskedFor
<1>3. Balanced(hands, discard)
  BY <1>2 DEF Balanced
<1>4. hands[s][c] > 0
  BY <1>1, HoldsAre
<1>5. Balanced(hands', discard')
  BY <1>1, <1>2, <1>3, <1>4, OnePasses
<1>6. /\ Piles' /\ Rau!Rules!CardsConserved'
      /\ (\A r \in Sides : hands'[r][Kitten] = 0) /\ discard'[Kitten] = discard[Kitten]
  <2>1. draw' \in Seq(Cards) /\ \A x \in Cards : Lie(draw', x) = Lie(draw, x)
    BY <1>1, <1>2
  <2> QED
    BY <1>5, <2>1, KeptTogether
<1>7. AskedFor' /\ phase' = "playing"
  BY <1>1, PlayGoesOn
<1>8. KittenApart' /\ Windowed' /\ Won' /\ Turned'
  BY <1>1, <1>2, <1>6, <1>7 DEF KittenApart, Windowed, Won, Turned
<1>9. Peeked'
  BY <1>1, <1>2, PeeksStay
<1> QED
  BY <1>6, <1>7, <1>8, <1>9, PartsHold

LEMMA TakeKeeps ==
    ASSUME GameInv, NEW s, NEW c \in Cards, Rau!Rules!TakeFromDiscard(s, c) PROVE GameInv'
<1> DEFINE h == hands'
           d == discard'
<1>1. /\ phase = "salvage" /\ awaiting = s /\ Rau!Rules!Holds(discard, c) /\ c # Kitten
           /\ Rau!Rules!Play
      /\ d = Rau!Rules!Without(discard, c, 1) /\ h = [hands EXCEPT ![s] = Rau!Rules!With(@, c, 1)]
      /\ UNCHANGED <<draw, onTurn, turns, action, known, winner>>
  BY CardsAre, Zenon DEF Rau!Rules!TakeFromDiscard, Rau!Rules!MayTake
<1>2. /\ hands \in Hands /\ discard \in [Cards -> Nat] /\ draw \in Seq(Cards) /\ Turned /\ Won
      /\ (\A r \in Sides : hands[r][Kitten] = 0) /\ discard[Kitten] = 0 /\ Windowed
      /\ Peeked /\ s \in Sides /\ Kitten \in Cards
  BY <1>1, CardsAre DEF GameInv, Piles, KittenApart, AskedFor
<1>3. 1 \in Nat /\ 1 <= discard[c]
  BY <1>1, <1>2, HoldsAre
<1>4. d \in [Cards -> Nat] /\ MoreOn(d, discard, c, 1)
  BY <1>1, <1>2, <1>3, OneIsLifted
<1>5. h \in Hands /\ MoreIn(hands, h, s, c, 1)
  BY <1>1, <1>2, <1>3, OneIsDealt
<1> HIDE DEF h, d
<1>6. ASSUME NEW x \in Cards PROVE Held(h, d, x) = Held(hands, discard, x)
  <2>1. Held(hands, discard, x) = Held(hands, d, x) + Some(1, c, x)
    <3>1. hands \in Hands /\ discard \in [Cards -> Nat] /\ 1 \in Nat
      BY <1>2
    <3> QED
      BY <1>4, <3>1, HeldOfMoreOn
  <2>2. Held(h, d, x) = Held(hands, d, x) + Some(1, c, x)
    BY <1>2, <1>3, <1>4, <1>5, HeldOfMoreIn
  <2> QED
    BY <2>1, <2>2
<1>7. d[Kitten] = discard[Kitten] /\ \A r \in Sides : h[r][Kitten] = 0
  BY <1>1, <1>2, <1>4, <1>5 DEF MoreIn, MoreOn
<1>8. Balanced(hands', discard')
  BY <1>4, <1>5, <1>6, <1>7 DEF Balanced, h, d
<1>9. /\ Piles' /\ Rau!Rules!CardsConserved'
      /\ (\A r \in Sides : hands'[r][Kitten] = 0) /\ discard'[Kitten] = discard[Kitten]
  <2>1. draw' \in Seq(Cards) /\ \A x \in Cards : Lie(draw', x) = Lie(draw, x)
    BY <1>1, <1>2
  <2> QED
    BY <1>8, <2>1, KeptTogether
<1>10. AskedFor' /\ phase' = "playing"
  BY <1>1, PlayGoesOn
<1>11. KittenApart' /\ Windowed' /\ Won' /\ Turned'
  BY <1>1, <1>2, <1>9, <1>10 DEF KittenApart, Windowed, Won, Turned
<1>12. Peeked'
  BY <1>1, <1>2, PeeksStay
<1> QED
  BY <1>9, <1>10, <1>11, <1>12, PartsHold

LEMMA TheTableStands ==
    ASSUME GameInv, UNCHANGED <<draw, hands, discard>> PROVE Piles' /\ Rau!Rules!CardsConserved'
<1>1. hands \in Hands /\ discard \in [Cards -> Nat] /\ draw \in Seq(Cards)
  BY DEF GameInv, Piles
<1> QED
  BY <1>1, CountsMatch

LEMMA ConcedeKeeps ==
    ASSUME GameInv, NEW s \in Sides, Rau!Rules!Concede(s) PROVE GameInv'
<1>1. /\ phase' = "over" /\ winner' = Rau!Rules!Other(s) /\ action' = Rau!Rules!NoPending
      /\ awaiting' = "none" /\ UNCHANGED <<draw, hands, discard, onTurn, turns, known>>
  BY SeatsAre DEF Rau!Rules!Concede, Rau!Rules!piles
<1>2. Piles' /\ Rau!Rules!CardsConserved'
  BY <1>1, TheTableStands
<1>3. KittenApart' /\ Turned' /\ Windowed' /\ AskedFor' /\ Won'
  BY <1>1, SeatsAre DEF GameInv, KittenApart, Turned, Windowed, AskedFor, Won, Phases
<1>4. Peeked'
  BY <1>1, PeeksStay DEF GameInv
<1> QED
  BY <1>2, <1>3, <1>4, PartsHold

LEMMA DealStarts == ASSUME DealAssumption, Rau!Rules!Init PROVE GameInv
<1>1. PICK deal \in Deals : draw = deal.draw /\ hands = deal.hands
  BY DEF Rau!Rules!Init
<1>2. /\ discard = [c \in Cards |-> 0] /\ onTurn = "user" /\ turns = 1 /\ phase = "playing"
      /\ action = Rau!Rules!NoPending /\ awaiting = "none" /\ winner = "none"
      /\ known = [s \in Sides |-> <<>>]
  BY SeatsAre, CardsAre DEF Rau!Rules!Init, Cards
<1>3. draw \in Seq(Cards) /\ hands \in Hands /\ \A s \in Sides : hands[s][Kitten] = 0
  BY <1>1 DEF DealAssumption
<1>4. Piles /\ KittenApart /\ Turned /\ Windowed /\ AskedFor /\ Won
  BY <1>2, <1>3, CardsAre, SeatsAre
     DEF Piles, KittenApart, Turned, Windowed, AskedFor, Won, Phases
<1>5. Peeked
  <2>1. ASSUME NEW s \in Sides PROVE Rau!Rules!IsPrefix(known[s], draw)
    <3> DEFINE k == known[s]
    <3>1. k = <<>>
      BY <1>2
    <3> HIDE DEF k
    <3>2. k \in Seq(Cards) /\ Len(k) = 0 /\ Len(draw) \in Nat
      BY <1>3, <3>1
    <3>3. Len(k) <= Len(draw) /\ \A i \in 1..Len(k) : k[i] = draw[i]
      BY <3>2
    <3>4. Rau!Rules!IsPrefix(k, draw)
      BY <1>3, <3>2, <3>3, PrefixIs
    <3> QED
      BY <3>4 DEF k
  <2>2. known \in [Sides -> Seq(Cards)]
    BY <1>2
  <2> QED
    BY <2>1, <2>2, SeatsAre DEF Peeked, Rau!Rules!PeekIsTrue
<1>6. Rau!Rules!CardsConserved
  <2>1. ASSUME NEW c \in Cards PROVE Rau!Rules!Count(c) = Rau!Rules!Dealt(deal, c)
    <3>1. Rau!Rules!Count(c) = Held(hands, discard, c) + Lie(draw, c)
      BY CountIs
    <3>2. Rau!Rules!Dealt(deal, c) = hands["user"][c] + hands["rau"][c] + Lie(draw, c)
      BY <1>1, CatCountsAre, SeatsAre, Zenon DEF Rau!Rules!Dealt, Lie, Depths
    <3>3. Held(hands, discard, c) = hands["user"][c] + hands["rau"][c]
      BY <1>2, <1>3, SeatsAre DEF Held, Hands
    <3> QED
      BY <3>1, <3>2, <3>3
  <2> QED
    BY <2>1, Zenon DEF Rau!Rules!CardsConserved, Cards
<1> QED
  BY <1>4, <1>5, <1>6 DEF GameInv

LEMMA GameStepKeeps == ASSUME GameInv, [Rau!Rules!Next]_Rau!Rules!vars PROVE GameInv'
<1>1. CASE UNCHANGED Rau!Rules!vars
  <2>1. UNCHANGED <<draw, hands, discard, onTurn, turns, phase, action, awaiting, known, winner>>
    BY <1>1 DEF Rau!Rules!vars
  <2>2. Piles' /\ Rau!Rules!CardsConserved'
    BY <2>1, TheTableStands
  <2>3. KittenApart' /\ Turned' /\ Windowed' /\ AskedFor' /\ Won'
    BY <2>1 DEF GameInv, KittenApart, Turned, Windowed, AskedFor, Won
  <2>4. Peeked'
    BY <2>1, PeeksStay DEF GameInv
  <2> QED
    BY <2>2, <2>3, <2>4, PartsHold
<1>2. CASE Rau!Rules!Expire
  BY <1>2, WindowShuts DEF Rau!Rules!Expire
<1>3. ASSUME NEW s \in Sides, Rau!Rules!Nope(s) PROVE GameInv'
  BY <1>3, NopeKeeps
<1>4. ASSUME NEW s \in Sides, Rau!Rules!PassNope(s) PROVE GameInv'
  BY <1>4, WindowShuts DEF Rau!Rules!PassNope, Rau!Rules!MayPass
<1>5. ASSUME NEW s \in Sides, Rau!Rules!Draw(s) PROVE GameInv'
  BY <1>5, DrawKeeps
<1>6. ASSUME NEW s \in Sides, Rau!Rules!Concede(s) PROVE GameInv'
  BY <1>6, ConcedeKeeps
<1>7. ASSUME NEW s, NEW c \in Cards,
             Rau!Rules!PlayCard(s, c) \/ Rau!Rules!GiveFavor(s, c)
               \/ Rau!Rules!TakeFromDiscard(s, c)
      PROVE  GameInv'
  BY <1>7, PlayKeeps, GiveKeeps, TakeKeeps
<1>8. ASSUME NEW s, NEW c \in Cards, Rau!Rules!Combo(s, c, 2, Rau!Rules!None) PROVE GameInv'
  <2>1. 2 \in {2, 3} /\ 2 # 3
    OBVIOUS
  <2> QED
    BY <1>8, <2>1, ComboKeeps
<1>9. ASSUME NEW s, NEW c \in Cards, NEW named \in Cards, Rau!Rules!Combo(s, c, 3,
               named) PROVE GameInv'
  <2>1. 3 \in {2, 3}
    OBVIOUS
  <2> QED
    BY <1>9, <2>1, ComboKeeps
<1>10. ASSUME NEW s, NEW five, Rau!Rules!ComboFive(s, five) PROVE GameInv'
  BY <1>10, FiveKeeps
<1>11. ASSUME NEW s, NEW i, Rau!Rules!InsertKitten(s, i) PROVE GameInv'
  BY <1>11, InsertKeeps
<1>12. CASE Rau!Rules!Next
  BY <1>2, <1>3, <1>4, <1>5, <1>6, <1>7, <1>8, <1>9, <1>10, <1>11, <1>12, SeatsAre, Zenon
     DEF Rau!Rules!Next, Cards
<1> QED
  BY <1>1, <1>12


-----------------------------------------------------------------------------
(* The menu.                                                               *)

LEMMA MovesAre == \A w, c : Rau!Rules!Move(w, c).move = w /\ Rau!Rules!Move(w, c).card = c
BY DEF Rau!Rules!Move

LEMMA AcceptedIs ==
    ASSUME NEW s, NEW m
    PROVE  /\ m.move = "nope" /\ Rau!Rules!MayNope(s) => Rau!Rules!Accepted(s, m)
           /\ m.move = "pass_nope" /\ Rau!Rules!MayPass(s) => Rau!Rules!Accepted(s, m)
           /\ m.move = "give_favor" /\ Rau!Rules!MayGive(s, m.card) => Rau!Rules!Accepted(s, m)
           /\ m.move = "insert_kitten" /\ (\A i \in 0..Len(draw) : Rau!Rules!MayInsert(s, i))
                => Rau!Rules!Accepted(s, m)
           /\ m.move = "take_from_discard" /\ Rau!Rules!MayTake(s, m.card)
                => Rau!Rules!Accepted(s, m)
           /\ m.move = "play" /\ Rau!Rules!MayPlay(s, m.card) => Rau!Rules!Accepted(s, m)
           /\ m.move = "combo_two" /\ Rau!Rules!MayMatch(s, m.card, 2) => Rau!Rules!Accepted(s, m)
           /\ m.move = "combo_three" /\ Rau!Rules!MayMatch(s, m.card, 3) => Rau!Rules!Accepted(s, m)
           /\ m.move = "combo_five"
                /\ (\E five \in SUBSET (Rau!Rules!Holding(hands[s]) \ Rau!Rules!UNPLAYABLE)
                        : Rau!Rules!MayFive(s, five))
                => Rau!Rules!Accepted(s, m)
           /\ m.move = "draw" /\ Rau!Rules!MayDraw(s) => Rau!Rules!Accepted(s, m)
BY Zenon DEF Rau!Rules!Accepted

LEMMA CardsAreFinite == ASSUME IsFiniteSet(CatCards) PROVE IsFiniteSet(Cards)
<1>1. \A S, x : IsFiniteSet(S) => IsFiniteSet(S \cup {x})
  BY FS_AddElement
<1>2. IsFiniteSet(((CatCards \cup {Kitten}) \cup {"defuse"}) \cup {"nope"})
  BY <1>1
<1> DEFINE A == ((CatCards \cup {Kitten}) \cup {"defuse"}) \cup {"nope"}
           B == ((A \cup {"attack"}) \cup {"skip"}) \cup {"favor"}
<1> HIDE DEF A
<1>3. IsFiniteSet(B)
  BY <1>1, <1>2 DEF A
<1> HIDE DEF B
<1>4. IsFiniteSet((B \cup {"shuffle"}) \cup {"see_the_future"})
  BY <1>1, <1>3
<1>5. Cards = (B \cup {"shuffle"}) \cup {"see_the_future"}
  BY DEF A, B, Kitten, Cards, Rau!Rules!Cards, Rau!Rules!UNPLAYABLE, Rau!Rules!KITTEN,
     Rau!Rules!DEFUSE, Rau!Rules!NOPE, Rau!Rules!Effects
<1> QED
  BY <1>4, <1>5

\* Of five cards or more, five can be picked.
LEMMA FivePick ==
    ASSUME NEW S, IsFiniteSet(S), Cardinality(S) >= 5
    PROVE  \E T \in SUBSET S : IsFiniteSet(T) /\ Cardinality(T) = 5
<1>1. PICK n \in Nat : n = Cardinality(S) /\ ExistsBijection(1..n, S)
  BY FS_CardinalityType
<1>2. PICK f : f \in Bijection(1..n, S)
  BY <1>1 DEF ExistsBijection
<1>3. /\ f \in [1..n -> S] /\ \A i, j \in 1..n : f[i] = f[j] => i = j
      /\ 1..5 \subseteq 1..n
  BY <1>1, <1>2 DEF Bijection, Injection, IsInjective
<1> DEFINE T == {f[i] : i \in 1..5}
           g == [i \in 1..5 |-> f[i]]
<1>4. g \in Bijection(1..5, T)
  BY <1>3 DEF Bijection, Injection, Surjection, IsInjective
<1>5. IsFiniteSet(1..5) /\ Cardinality(1..5) = 5
  <2>1. PICK k \in Int : k = 5
    OBVIOUS
  <2>2. PICK j \in Int : j = 1
    OBVIOUS
  <2>3. IsFiniteSet(j..k) /\ Cardinality(j..k) = IF j > k THEN 0 ELSE k - j + 1
    BY FS_Interval
  <2> QED
    BY <2>1, <2>2, <2>3
<1>6. IsFiniteSet(T) /\ Cardinality(T) = 5
  BY <1>4, <1>5, FS_Bijection DEF ExistsBijection
<1>7. T \subseteq S
  BY <1>3
<1> QED
  BY <1>6, <1>7

LEMMA MenuKeepsItsWord ==
    ASSUME DealAssumption, GameInv, NEW s \in Sides, NEW m \in Rau!Rules!Menu(s)
    PROVE  Rau!Rules!Accepted(s, m)
<1>1. CASE Rau!Rules!Window(s)
  <2>1. m = Rau!Rules!Move("pass_nope", Rau!Rules!None)
          \/ (Rau!Rules!Holds(hands[s], Rau!Rules!NOPE)
                  /\ m = Rau!Rules!Move("nope", Rau!Rules!None))
    BY <1>1, Zenon DEF Rau!Rules!Menu
  <2>2. m.move = "pass_nope" \/ (Rau!Rules!Holds(hands[s], Rau!Rules!NOPE) /\ m.move = "nope")
    BY <2>1, MovesAre, Zenon
  <2> QED
    BY <1>1, <2>2, AcceptedIs, Zenon DEF Rau!Rules!Window, Rau!Rules!MayPass, Rau!Rules!MayNope
<1>2. CASE ~Rau!Rules!Window(s) /\ Rau!Rules!Asked(s, "favor")
  <2>1. PICK c \in Rau!Rules!Holding(hands[s]) : m = Rau!Rules!Move("give_favor", c)
    BY <1>2, Zenon DEF Rau!Rules!Menu
  <2>2. m.move = "give_favor" /\ m.card = c /\ Rau!Rules!Holds(hands[s], c)
    BY <2>1, MovesAre, Zenon DEF Rau!Rules!Holding
  <2> QED
    BY <1>2, <2>2, AcceptedIs, Zenon DEF Rau!Rules!Asked, Rau!Rules!MayGive
<1>3. CASE ~Rau!Rules!Window(s) /\ ~Rau!Rules!Asked(s, "favor") /\ Rau!Rules!Asked(s, "defuse")
  <2>1. m.move = "insert_kitten"
    <3>1. m = Rau!Rules!Move("insert_kitten", Rau!Rules!None)
      BY <1>3, Zenon DEF Rau!Rules!Menu
    <3> QED
      BY <3>1, MovesAre, Zenon
  <2>2. \A i \in 0..Len(draw) : Rau!Rules!MayInsert(s, i)
    BY <1>3, Zenon DEF Rau!Rules!Asked, Rau!Rules!MayInsert
  <2> QED
    BY <2>1, <2>2, AcceptedIs, Zenon
<1>4. CASE ~Rau!Rules!Window(s) /\ ~Rau!Rules!Asked(s, "favor")
             /\ ~Rau!Rules!Asked(s, "defuse") /\ Rau!Rules!Asked(s, "salvage")
  <2>1. PICK c \in Rau!Rules!Holding(discard) \ {Rau!Rules!KITTEN}
          : m = Rau!Rules!Move("take_from_discard", c)
    BY <1>4, Zenon DEF Rau!Rules!Menu
  <2>2. m.move = "take_from_discard" /\ m.card = c /\ Rau!Rules!Holds(discard, c)
          /\ c # Rau!Rules!KITTEN
    BY <2>1, MovesAre, Zenon DEF Rau!Rules!Holding
  <2> QED
    BY <1>4, <2>2, AcceptedIs, Zenon DEF Rau!Rules!Asked, Rau!Rules!MayTake
<1>5. CASE ~Rau!Rules!Window(s) /\ ~Rau!Rules!Asked(s, "favor")
             /\ ~Rau!Rules!Asked(s, "defuse") /\ ~Rau!Rules!Asked(s, "salvage")
  <2>1. Rau!Rules!MyTurn(s)
    BY <1>5, Zenon DEF Rau!Rules!Menu
  <2>2. \/ \E c \in Rau!Rules!Holding(hands[s]) \cap Rau!Rules!Effects
          : m = Rau!Rules!Move("play", c)
        \/ \E c \in Rau!Rules!Cards \ Rau!Rules!UNPLAYABLE : hands[s][c] >= 2
             /\ m = Rau!Rules!Move("combo_two", c)
        \/ \E c \in Rau!Rules!Cards \ Rau!Rules!UNPLAYABLE : hands[s][c] >= 3
             /\ m = Rau!Rules!Move("combo_three", c)
        \/ Rau!Rules!MenuFive(s) /\ m = Rau!Rules!Move("combo_five", Rau!Rules!None)
        \/ m = Rau!Rules!Move("draw", Rau!Rules!None)
    BY <1>5, <2>1, Zenon DEF Rau!Rules!Menu
  <2>3. CASE \E c \in Rau!Rules!Holding(hands[s]) \cap Rau!Rules!Effects
          : m = Rau!Rules!Move("play", c)
    <3>1. PICK c \in Rau!Rules!Holding(hands[s]) \cap Rau!Rules!Effects
            : m = Rau!Rules!Move("play", c)
      BY <2>3
    <3>2. m.move = "play" /\ m.card = c /\ c \in Rau!Rules!Effects /\ Rau!Rules!Holds(hands[s], c)
      BY <3>1, MovesAre, Zenon DEF Rau!Rules!Holding
    <3> QED
      BY <2>1, <3>2, AcceptedIs, Zenon DEF Rau!Rules!MayPlay
  <2>4. CASE \E c \in Rau!Rules!Cards \ Rau!Rules!UNPLAYABLE : hands[s][c] >= 2
               /\ m = Rau!Rules!Move("combo_two", c)
    <3>1. PICK c \in Rau!Rules!Cards \ Rau!Rules!UNPLAYABLE : hands[s][c] >= 2
                 /\ m = Rau!Rules!Move("combo_two", c)
      BY <2>4
    <3>2. m.move = "combo_two" /\ m.card = c /\ c \notin Rau!Rules!UNPLAYABLE
      BY <3>1, MovesAre, Zenon
    <3> QED
      BY <2>1, <3>1, <3>2, AcceptedIs, Zenon DEF Rau!Rules!MayMatch
  <2>5. CASE \E c \in Rau!Rules!Cards \ Rau!Rules!UNPLAYABLE : hands[s][c] >= 3
               /\ m = Rau!Rules!Move("combo_three", c)
    <3>1. PICK c \in Rau!Rules!Cards \ Rau!Rules!UNPLAYABLE : hands[s][c] >= 3
                 /\ m = Rau!Rules!Move("combo_three", c)
      BY <2>5
    <3>2. m.move = "combo_three" /\ m.card = c /\ c \notin Rau!Rules!UNPLAYABLE
      BY <3>1, MovesAre, Zenon
    <3> QED
      BY <2>1, <3>1, <3>2, AcceptedIs, Zenon DEF Rau!Rules!MayMatch
  <2>6. CASE Rau!Rules!MenuFive(s) /\ m = Rau!Rules!Move("combo_five", Rau!Rules!None)
    <3> DEFINE S == Rau!Rules!Holding(hands[s]) \ Rau!Rules!UNPLAYABLE
    <3>1. IsFiniteSet(S)
      <4>1. S \subseteq Cards
        BY HoldingIs
      <4>2. IsFiniteSet(Cards)
        BY CardsAreFinite DEF DealAssumption
      <4> QED
        BY <4>1, <4>2, FS_Subset
    <3>2. Cardinality(S) >= 5 /\ Rau!Rules!Holding(discard) # {}
      BY <2>6, CatCountsAre, Zenon DEF Rau!Rules!MenuFive, Rau!Rules!COMBO_FIVE
    <3> HIDE DEF S
    <3>3. PICK five \in SUBSET S : Cardinality(five) = 5
      BY <3>1, <3>2, FivePick
    <3>4. Rau!Rules!Cardinality(five) = Rau!Rules!COMBO_FIVE
      BY <3>3, CatCountsAre DEF Rau!Rules!COMBO_FIVE
    <3>5. five \subseteq Rau!Rules!Holding(hands[s])
      BY DEF S
    <3>6. Rau!Rules!MayFive(s, five)
      BY <2>1, <3>2, <3>4, <3>5, Zenon DEF Rau!Rules!MayFive
    <3>7. m.move = "combo_five"
      BY <2>6, MovesAre, Zenon
    <3> QED
      BY <3>6, <3>7, AcceptedIs, Zenon DEF S
  <2>7. CASE m = Rau!Rules!Move("draw", Rau!Rules!None)
    <3>1. phase = "playing"
      BY <2>1 DEF Rau!Rules!MyTurn
    <3>2. draw # <<>>
      BY <3>1, PileHasTheKitten
    <3>3. m.move = "draw"
      BY <2>7, MovesAre, Zenon
    <3> QED
      BY <2>1, <3>2, <3>3, AcceptedIs, Zenon DEF Rau!Rules!MayDraw
  <2> QED
    BY <2>2, <2>3, <2>4, <2>5, <2>6, <2>7
<1> QED
  BY <1>1, <1>2, <1>3, <1>4, <1>5

\* A seat that plays, or is asked for something, and a seat that may answer a card.
Up(s) ==
    \/ phase = "playing" /\ onTurn = s
    \/ phase \in {"favor", "defuse", "salvage"} /\ awaiting = s

LEMMA WhoIsUpMayMove ==
    ASSUME GameInv, NEW s \in Sides, Up(s) PROVE Rau!Rules!Menu(s) # {}
<1>1. /\ phase = "favor" => \E c \in Cards : hands[awaiting][c] > 0
      /\ phase = "salvage" => Salvageable(discard)
  BY DEF GameInv, AskedFor
<1>2. CASE phase = "playing"
  <2>1. Rau!Rules!MyTurn(s)
    BY <1>2 DEF Up, Rau!Rules!MyTurn
  <2>2. /\ ~Rau!Rules!Window(s) /\ ~Rau!Rules!Asked(s, "favor")
        /\ ~Rau!Rules!Asked(s, "defuse") /\ ~Rau!Rules!Asked(s, "salvage")
    BY <1>2 DEF Rau!Rules!Window, Rau!Rules!Asked
  <2>3. Rau!Rules!Move("draw", Rau!Rules!None) \in Rau!Rules!Menu(s)
    BY <2>1, <2>2, Zenon DEF Rau!Rules!Menu
  <2> QED
    BY <2>3
<1>3. CASE phase = "favor"
  <2>1. awaiting = s /\ ~Rau!Rules!Window(s) /\ Rau!Rules!Asked(s, "favor")
    BY <1>3 DEF Up, Rau!Rules!Window, Rau!Rules!Asked
  <2>2. PICK c \in Rau!Rules!Holding(hands[s]) : TRUE
    BY <1>1, <1>3, <2>1, HoldingIs
  <2>3. Rau!Rules!Move("give_favor", c) \in Rau!Rules!Menu(s)
    BY <2>1, <2>2, Zenon DEF Rau!Rules!Menu
  <2> QED
    BY <2>3
<1>4. CASE phase = "defuse"
  <2>1. ~Rau!Rules!Window(s) /\ ~Rau!Rules!Asked(s, "favor") /\ Rau!Rules!Asked(s, "defuse")
    BY <1>4 DEF Up, Rau!Rules!Window, Rau!Rules!Asked
  <2>2. Rau!Rules!Move("insert_kitten", Rau!Rules!None) \in Rau!Rules!Menu(s)
    BY <2>1, Zenon DEF Rau!Rules!Menu
  <2> QED
    BY <2>2
<1>5. CASE phase = "salvage"
  <2>1. /\ ~Rau!Rules!Window(s) /\ ~Rau!Rules!Asked(s, "favor")
        /\ ~Rau!Rules!Asked(s, "defuse") /\ Rau!Rules!Asked(s, "salvage")
    BY <1>5 DEF Up, Rau!Rules!Window, Rau!Rules!Asked
  <2>2. PICK c \in Rau!Rules!Holding(discard) \ {Rau!Rules!KITTEN} : TRUE
    BY <1>1, <1>5, HoldingIs, CardsAre DEF Salvageable
  <2>3. Rau!Rules!Move("take_from_discard", c) \in Rau!Rules!Menu(s)
    BY <2>1, <2>2, Zenon DEF Rau!Rules!Menu
  <2> QED
    BY <2>3
<1> QED
  BY <1>2, <1>3, <1>4, <1>5 DEF Up

LEMMA SomebodyMayMove ==
    ASSUME GameInv, phase # "over" PROVE \E s \in Sides : Rau!Rules!Menu(s) # {}
<1>1. /\ phase \in Phases
      /\ phase \in {"favor", "defuse", "salvage"} => awaiting \in Sides
      /\ onTurn \in Sides
      /\ phase = "nope_window" => action.last \in Sides
  BY DEF GameInv, AskedFor, Turned, Windowed, Fits, Actions
<1>2. CASE phase = "nope_window"
  <2> DEFINE s == Rau!Rules!Other(action.last)
  <2>1. s \in Sides
    BY <1>1, <1>2, SeatsAre
  <2>2. Rau!Rules!Window(s)
    BY <1>2, Zenon DEF Rau!Rules!Window
  <2>3. Rau!Rules!Move("pass_nope", Rau!Rules!None) \in Rau!Rules!Menu(s)
    BY <2>2, Zenon DEF Rau!Rules!Menu
  <2> QED
    BY <2>1, <2>3
<1>3. CASE phase # "nope_window"
  <2>1. \E s \in Sides : Up(s)
    BY <1>1, <1>3 DEF Up, Phases
  <2> QED
    BY <2>1, WhoIsUpMayMove
<1> QED
  BY <1>2, <1>3

LEMMA GameIsHonest ==
    ASSUME DealAssumption, GameInv
    PROVE  /\ Rau!Rules!TypeOK /\ Rau!Rules!CardsConserved /\ Rau!Rules!PeekIsTrue
           /\ Rau!Rules!MenuIsHonest
<1>1. Rau!Rules!TypeOK
  <2>1. \A s \in Rau!Rules!SEATS : DOMAIN hands[s] = Rau!Rules!Cards
    BY SeatsAre DEF GameInv, Piles, Hands, Cards
  <2>2. \A c \in Rau!Rules!Cards :
            {discard[c], hands[Rau!Rules!USER][c], hands[Rau!Rules!RAU][c]} \subseteq Nat
    BY SeatsAre DEF GameInv, Piles, Hands, Cards
  <2>3. /\ onTurn \in Rau!Rules!SEATS /\ turns \in Nat \ {0}
        /\ awaiting \in Rau!Rules!SEATS \union {Rau!Rules!None}
    BY SeatsAre DEF GameInv, Turned, AskedFor
  <2>4. (phase = "nope_window") = (action # Rau!Rules!NoPending)
    BY DEF GameInv, Windowed, Fits, Actions, Kinds, Rau!Rules!NoPending, Rau!Rules!None
  <2>5. (awaiting # Rau!Rules!None) = (phase \in {"favor", "defuse", "salvage"})
    BY SeatsAre DEF GameInv, AskedFor
  <2>6. (winner # Rau!Rules!None) = (phase = "over")
    BY SeatsAre DEF GameInv, Won
  <2> QED
    BY <2>1, <2>2, <2>3, <2>4, <2>5, <2>6, Zenon DEF Rau!Rules!TypeOK
<1>2. Rau!Rules!MenuIsHonest
  BY MenuKeepsItsWord, SomebodyMayMove, SeatsAre, Zenon DEF Rau!Rules!MenuIsHonest
<1> QED
  BY <1>1, <1>2 DEF GameInv, Peeked

\* THEOREM. (kittens/engine.py, deck.py) Whatever was dealt and however it is played, no card
\* appears, vanishes or turns into another, a peek shows the top of the pile as it lies, and
\* the menu is kept: a move it lists is taken, and until the game is over somebody has one.
THEOREM TheCardsAreHonest ==
    ASSUME DealAssumption
    PROVE  Rau!Rules!Spec => [](/\ Rau!Rules!TypeOK /\ Rau!Rules!CardsConserved
                               /\ Rau!Rules!PeekIsTrue /\ Rau!Rules!MenuIsHonest)
<1>1. Rau!Rules!Init => GameInv
  BY DealStarts
<1>2. GameInv /\ [Rau!Rules!Next]_Rau!Rules!vars => GameInv'
  BY GameStepKeeps
<1>3. GameInv => /\ Rau!Rules!TypeOK /\ Rau!Rules!CardsConserved /\ Rau!Rules!PeekIsTrue
                 /\ Rau!Rules!MenuIsHonest
  BY GameIsHonest
<1> QED
  BY <1>1, <1>2, <1>3, PTL DEF Rau!Rules!Spec


-----------------------------------------------------------------------------
(* Rau's half of the table.                                                *)

Plays(s) ==
    \/ Rau!Plays(s) \/ Rau!Answers(s) \/ Rau!Rules!Draw(s)
GameStands ==
    UNCHANGED <<draw, hands, discard, onTurn, turns, phase, action, awaiting, known, winner>>

LEMMA GameRests == ASSUME GameInv, GameStands PROVE GameInv'
BY GameStepKeeps DEF GameStands, Rau!Rules!vars

LEMMA WhoMovesIsUp ==
    ASSUME GameInv, NEW s \in Sides, Plays(s) PROVE Up(s) /\ GameInv'
<1>1. ASSUME Rau!Plays(s) PROVE Up(s) /\ GameInv'
  <2>1. \/ \E c \in Cards : Rau!Rules!PlayCard(s, c)
        \/ \E c \in Cards : Rau!Rules!Combo(s, c, 2, Rau!Rules!None)
        \/ \E c, named \in Cards : Rau!Rules!Combo(s, c, 3, named)
        \/ \E five : Rau!Rules!ComboFive(s, five)
    BY <1>1, Zenon DEF Rau!Plays, Cards, Rau!None
  <2>2. Rau!Rules!MyTurn(s)
    BY <2>1, Zenon DEF Rau!Rules!PlayCard, Rau!Rules!MayPlay, Rau!Rules!Combo,
       Rau!Rules!MayMatch, Rau!Rules!ComboFive, Rau!Rules!MayFive
  <2>3. ASSUME NEW c \in Cards, Rau!Rules!Combo(s, c, 2, Rau!Rules!None) PROVE GameInv'
    <3>1. 2 \in {2, 3} /\ 2 # 3
      OBVIOUS
    <3> QED
      BY <2>3, <3>1, ComboKeeps
  <2>4. ASSUME NEW c \in Cards, NEW named \in Cards, Rau!Rules!Combo(s, c, 3, named) PROVE GameInv'
    <3>1. 3 \in {2, 3}
      OBVIOUS
    <3> QED
      BY <2>4, <3>1, ComboKeeps
  <2> QED
    BY <2>1, <2>2, <2>3, <2>4, PlayKeeps, FiveKeeps DEF Up, Rau!Rules!MyTurn
<1>2. ASSUME Rau!Answers(s) PROVE Up(s) /\ GameInv'
  <2>1. \/ \E c \in Cards : Rau!Rules!GiveFavor(s, c) \/ Rau!Rules!TakeFromDiscard(s, c)
        \/ \E i \in 0..Len(draw) : Rau!Rules!InsertKitten(s, i)
    BY <1>2, Zenon DEF Rau!Answers, Cards
  <2>2. Up(s)
    BY <2>1 DEF Rau!Rules!GiveFavor, Rau!Rules!MayGive, Rau!Rules!TakeFromDiscard,
       Rau!Rules!MayTake, Rau!Rules!InsertKitten, Rau!Rules!MayInsert, Up
  <2> QED
    BY <2>1, <2>2, GiveKeeps, TakeKeeps, InsertKeeps
<1>3. ASSUME Rau!Rules!Draw(s) PROVE Up(s) /\ GameInv'
  BY <1>3, DrawKeeps DEF Rau!Rules!Draw, Rau!Rules!MayDraw, Rau!Rules!MyTurn, Up
<1> QED
  BY <1>1, <1>2, <1>3 DEF Plays

LEMMA MenuLists ==
    ASSUME NEW s, NEW m \in Rau!Rules!Menu(s)
    PROVE  /\ m.move # "concede"
           /\ m.move \in {"give_favor", "take_from_discard", "play", "combo_two"}
                => m.card \in Cards
<1> DEFINE OnCard == {"give_favor", "take_from_discard", "play", "combo_two", "combo_three"}
           Plain == {"pass_nope", "nope", "insert_kitten", "combo_five", "draw"}
<1>1. \/ \E w \in OnCard, c \in Cards : m = Rau!Rules!Move(w, c)
      \/ \E w \in Plain : m = Rau!Rules!Move(w, Rau!Rules!None)
  <2> DEFINE h == hands[s]
             A == {Rau!Rules!Move("give_favor", c) : c \in Rau!Rules!Holding(h)}
             B == {Rau!Rules!Move("take_from_discard", c) :
                       c \in Rau!Rules!Holding(discard) \ {Rau!Rules!KITTEN}}
             C == {Rau!Rules!Move("play", c) : c \in Rau!Rules!Holding(h) \cap Rau!Rules!Effects}
             D == {Rau!Rules!Move("combo_two", c) :
                       c \in {x \in Rau!Rules!Cards \ Rau!Rules!UNPLAYABLE : h[x] >= 2}}
             E == {Rau!Rules!Move("combo_three", c) :
                       c \in {x \in Rau!Rules!Cards \ Rau!Rules!UNPLAYABLE : h[x] >= 3}}
             P(w) == m = Rau!Rules!Move(w, Rau!Rules!None)
  <2>1. \/ P("pass_nope") \/ P("nope") \/ P("insert_kitten") \/ P("combo_five") \/ P("draw")
        \/ m \in A \/ m \in B \/ m \in C \/ m \in D \/ m \in E
    BY Zenon DEF Rau!Rules!Menu
  <2>2. \A g : Rau!Rules!Holding(g) \subseteq Cards
    BY HoldingIs
  <2> QED
    BY <2>1, <2>2 DEF Cards
<1>2. CASE \E w \in OnCard, c \in Cards : m = Rau!Rules!Move(w, c)
  BY <1>2, MovesAre
<1>3. CASE \E w \in Plain : m = Rau!Rules!Move(w, Rau!Rules!None)
  BY <1>3, MovesAre
<1> QED
  BY <1>1, <1>2, <1>3

LEMMA DoingIsMoving ==
    ASSUME NEW m, m \in Rau!Rules!Menu("rau") \/ m.move = "concede", Rau!Do(m)
    PROVE  Plays("rau") \/ Rau!Rules!Concede("rau")
<1>1. Rau!RAU = "rau" /\ Rau!None = Rau!Rules!None
  BY SeatsAre DEF Rau!RAU, Rau!None
<1>2. \/ m.move = "play" /\ Rau!Rules!PlayCard("rau", m.card)
      \/ m.move = "combo_two" /\ Rau!Rules!Combo("rau", m.card, 2, Rau!Rules!None)
      \/ Rau!Rules!Draw("rau")
      \/ m.move = "give_favor" /\ Rau!Rules!GiveFavor("rau", m.card)
      \/ m.move = "take_from_discard" /\ Rau!Rules!TakeFromDiscard("rau", m.card)
      \/ Rau!Rules!InsertKitten("rau", 0)
      \/ Rau!Rules!Concede("rau")
  BY <1>1, Zenon DEF Rau!Do
<1>3. m.move \in {"give_favor", "take_from_discard", "play", "combo_two"}
        => m.card \in Rau!Rules!Cards
  BY MenuLists DEF Cards
<1>4. Rau!Rules!InsertKitten("rau", 0) => 0 \in 0..Len(draw)
  BY DEF Rau!Rules!InsertKitten, Rau!Rules!MayInsert
<1>5. CASE \/ m.move = "play" /\ Rau!Rules!PlayCard("rau", m.card)
           \/ m.move = "combo_two" /\ Rau!Rules!Combo("rau", m.card, 2, Rau!Rules!None)
  <2>1. Rau!Plays("rau")
    BY <1>1, <1>3, <1>5, Zenon DEF Rau!Plays
  <2> QED
    BY <2>1 DEF Plays
<1>6. CASE \/ m.move = "give_favor" /\ Rau!Rules!GiveFavor("rau", m.card)
           \/ m.move = "take_from_discard" /\ Rau!Rules!TakeFromDiscard("rau", m.card)
           \/ Rau!Rules!InsertKitten("rau", 0)
  <2>1. Rau!Answers("rau")
    BY <1>3, <1>4, <1>6, Zenon DEF Rau!Answers
  <2> QED
    BY <2>1 DEF Plays
<1> QED
  BY <1>2, <1>5, <1>6 DEF Plays

-----------------------------------------------------------------------------
(* What the player half keeps.                                             *)

\* A turn is thought about until it is played or the game is over: nobody else can move.
ThinksOnHisTurn == thread # "idle" => phase = "over" \/ Up("rau")

\* While a Nope is decided, the window it is decided for stays open.
AnswersThisWindow(w) ==
    /\ phase = "nope_window" /\ action = w /\ Rau!Rules!Other(w.last) = "rau"
    /\ hands["rau"]["nope"] > 0
DecidesInTime ==
    deciding # Rau!Rules!NoPending => phase = "over" \/ AnswersThisWindow(deciding)

Threads == {"idle", "asks", "asks again", "falls back"}
Booleans == acted \in BOOLEAN /\ decided \in BOOLEAN
RauInv ==
    /\ GameInv /\ ThinksOnHisTurn /\ DecidesInTime
    /\ Booleans /\ thread \in Threads /\ wrong = {}

LEMMA OneAtATime ==
    ASSUME GameInv
    PROVE  /\ Up("rau") => ~Up("user") /\ phase # "nope_window" /\ phase # "over"
           /\ Up("user") => ~Up("rau") /\ phase # "nope_window" /\ phase # "over"
           /\ Rau!RauMustAct <=> Up("rau")
<1>1. /\ phase \in Phases
      /\ IF phase \in {"favor", "defuse", "salvage"} THEN awaiting \in Sides ELSE awaiting = "none"
  BY DEF GameInv, AskedFor
<1>2. Rau!RauMustAct <=> Up("rau")
  BY <1>1, SeatsAre DEF Rau!RauMustAct, Up, Rau!RAU, Rau!None, Phases
<1> QED
  BY <1>1, <1>2 DEF Up, Phases

LEMMA CountedIs == ASSUME NEW b \in BOOLEAN, acted \in BOOLEAN,
  Rau!Counted(b) PROVE acted' \in BOOLEAN
BY Zenon DEF Rau!Counted

LEMMA FreshIs == ASSUME Rau!Fresh PROVE decided' \in BOOLEAN
BY Zenon DEF Rau!Fresh

\* Rau moves, or gives up; the turn thread is done.
LEMMA RauMoves ==
    ASSUME RauInv, Plays("rau") \/ Rau!Rules!Concede("rau"), thread' = "idle",
           deciding' = deciding
    PROVE  GameInv' /\ ThinksOnHisTurn' /\ DecidesInTime'
<1>1. CASE Plays("rau")
  <2>1. Up("rau") /\ GameInv'
    BY <1>1, WhoMovesIsUp, SeatsAre DEF RauInv
  <2>2. deciding = Rau!Rules!NoPending
    BY <2>1, OneAtATime DEF RauInv, DecidesInTime, AnswersThisWindow
  <2> QED
    BY <2>1, <2>2 DEF ThinksOnHisTurn, DecidesInTime
<1>2. CASE Rau!Rules!Concede("rau")
  <2>1. GameInv' /\ phase' = "over"
    BY <1>2, ConcedeKeeps, SeatsAre DEF RauInv, Rau!Rules!Concede
  <2> QED
    BY <2>1 DEF ThinksOnHisTurn, DecidesInTime
<1> QED
  BY <1>1, <1>2


\* The user moves.
LEMMA UserMovesKeep ==
    ASSUME RauInv, Rau!UserMoves PROVE RauInv'
<1>1. /\ \/ Plays("user") \/ Rau!Rules!Nope("user") \/ Rau!Rules!PassNope("user")
         \/ Rau!Rules!Concede("user")
      /\ Rau!Counted(TRUE) \/ Rau!Counted(FALSE)
      /\ decided' = FALSE /\ thread' = thread /\ deciding' = deciding /\ wrong' = wrong
  <2>1. Rau!USER = "user"
    BY SeatsAre DEF Rau!USER
  <2> QED
    BY <2>1, Zenon DEF Rau!UserMoves, Plays
<1>2. Booleans'
  BY <1>1, CountedIs DEF RauInv, Booleans
<1>3. CASE Plays("user")
  <2>1. Up("user") /\ GameInv'
    BY <1>3, WhoMovesIsUp, SeatsAre DEF RauInv
  <2>2. thread = "idle" /\ deciding = Rau!Rules!NoPending
    BY <2>1, OneAtATime DEF RauInv, ThinksOnHisTurn, DecidesInTime, AnswersThisWindow
  <2> QED
    BY <1>1, <1>2, <2>1, <2>2 DEF RauInv, ThinksOnHisTurn, DecidesInTime
<1>4. CASE Rau!Rules!Nope("user") \/ Rau!Rules!PassNope("user")
  <2>1. phase = "nope_window" /\ Rau!Rules!Other(action.last) = "user"
    BY <1>4 DEF Rau!Rules!Nope, Rau!Rules!MayNope, Rau!Rules!PassNope, Rau!Rules!MayPass
  <2>2. GameInv'
    BY <1>4, <2>1, NopeKeeps, WindowShuts, SeatsAre DEF RauInv, Rau!Rules!PassNope
  <2>3. thread = "idle" /\ deciding = Rau!Rules!NoPending
    BY <2>1, OneAtATime, SeatsAre DEF RauInv, ThinksOnHisTurn, DecidesInTime, AnswersThisWindow
  <2> QED
    BY <1>1, <1>2, <2>2, <2>3 DEF RauInv, ThinksOnHisTurn, DecidesInTime
<1>5. CASE Rau!Rules!Concede("user")
  <2>1. GameInv' /\ phase' = "over"
    BY <1>5, ConcedeKeeps, SeatsAre DEF RauInv, Rau!Rules!Concede
  <2> QED
    BY <1>1, <1>2, <2>1 DEF RauInv, ThinksOnHisTurn, DecidesInTime
<1> QED
  BY <1>1, <1>3, <1>4, <1>5

\* A step that leaves the game alone.
LEMMA GameRestsFor ==
    ASSUME RauInv, GameStands, thread' = thread \/ thread' = "idle"
    PROVE  GameInv' /\ ThinksOnHisTurn' /\ (deciding' = deciding => DecidesInTime')
<1>1. Up("rau") => Up("rau")'
  BY DEF GameStands, Up
<1>2. AnswersThisWindow(deciding) /\ deciding' = deciding => AnswersThisWindow(deciding)'
  BY DEF GameStands, AnswersThisWindow
<1> QED
  BY <1>1, <1>2, GameRests DEF RauInv, ThinksOnHisTurn, DecidesInTime, GameStands

\* The fallback is on the menu, and a menu has no concession.
LEMMA LadderIsOnTheMenu ==
    ASSUME NEW b
    PROVE  /\ DOMAIN Rau!Ladder(b) = 1..7
           /\ \A k \in 1..7 : Rau!Ladder(b)[k] \subseteq Rau!Rules!Menu("rau")
<1> DEFINE M == Rau!Rules!Menu("rau")
           cond(c, S) == IF c THEN S ELSE {}
           known1 == known[Rau!RAU] = <<>>
           mark == Rau!Rules!Holding(hands[Rau!USER]) # {}
           a == cond(Rau!KittenKnown, Rau!Card("attack"))
           d == cond(Rau!KittenKnown, Rau!Card("skip"))
           e == cond(Rau!KittenKnown, Rau!Card("shuffle"))
           f == cond(~acted, Rau!Card("attack"))
           g == cond(~acted /\ known1, Rau!Card("see_the_future"))
           h == cond(~acted /\ mark, Rau!Offered("combo_two"))
           i == cond(~acted /\ mark /\ b, Rau!Card("favor"))
<1>1. Rau!Ladder(b) = <<a, d, e, f, g, h, i>>
  BY Zenon DEF Rau!Ladder
<1>2. \A w : Rau!Card(w) \subseteq M /\ Rau!Offered(w) \subseteq M
  BY SeatsAre DEF Rau!Card, Rau!Offered, Rau!MyMenu, Rau!RAU
<1>3. \A c, w : cond(c, Rau!Card(w)) \subseteq M /\ cond(c, Rau!Offered(w)) \subseteq M
  BY <1>2, Zenon
<1>4. /\ a \subseteq M /\ d \subseteq M /\ e \subseteq M /\ f \subseteq M /\ g \subseteq M
      /\ h \subseteq M /\ i \subseteq M
  BY <1>3, Zenon
<1> HIDE DEF a, d, e, f, g, h, i
<1>5. /\ DOMAIN Rau!Ladder(b) = 1..7
      /\ \A k \in 1..7 : Rau!Ladder(b)[k] \in {a, d, e, f, g, h, i}
  BY <1>1
<1> QED
  BY <1>4, <1>5

LEMMA PreferredIs ==
    ASSUME NEW b, NEW m \in Rau!Preferred(b) PROVE m \in Rau!Rules!Menu("rau")
<1> DEFINE M == Rau!Rules!Menu("rau")
<1> DEFINE l == Rau!Ladder(b)
           K == {k \in DOMAIN l : l[k] # {}}
           k0 == CHOOSE k \in K : \A j \in K : k <= j
<1>1. K # {} /\ m \in l[k0]
  BY Zenon DEF Rau!Preferred
<1>2. DOMAIN l = 1..7 /\ \A k \in 1..7 : l[k] \subseteq M
  BY LadderIsOnTheMenu
<1>3. K \subseteq 1..7
  BY <1>2
<1> HIDE DEF K, l
<1>4. \E k \in K : \A j \in K : k <= j
  <2> DEFINE From(n) == \A j \in K : n <= j
  <2> SUFFICES ASSUME \A n \in K : ~From(n) PROVE FALSE
    OBVIOUS
  <2>1. From(1) /\ \A n \in 1..7 : From(n) => From(n + 1)
    BY <1>3
  <2> HIDE DEF From
  <2>2. From(1 + 1) /\ From(2 + 1) /\ From(3 + 1)
    BY <2>1
  <2>3. From(4 + 1) /\ From(5 + 1) /\ From(6 + 1) /\ From(7 + 1)
    BY <2>1, <2>2
  <2>4. PICK j \in K : j \in 1..7
    BY <1>1, <1>3
  <2>5. 7 + 1 <= j
    BY <2>3 DEF From
  <2> QED
    BY <2>4, <2>5
<1>5. k0 \in 1..7
  BY <1>3, <1>4
<1> QED
  BY <1>1, <1>2, <1>5

LEMMA FallbackIs ==
    ASSUME NEW m \in Rau!Fallback
    PROVE  \/ m \in Rau!Rules!Menu("rau")
           \/ Rau!Rules!Menu("rau") = {} /\ m.move = "concede"
<1> DEFINE M == Rau!Rules!Menu("rau")
<1>1. Rau!MyMenu = M
  BY SeatsAre DEF Rau!MyMenu, Rau!RAU
<1>2. Rau!Last \subseteq M
  BY <1>1 DEF Rau!Last, Rau!Offered
<1>3. \/ M = {} /\ m = Rau!Rules!Move("concede", Rau!None)
      \/ Rau!Preferred(FALSE) # {} /\ m \in Rau!Preferred(FALSE)
      \/ m \in Rau!Last
  BY <1>1, Zenon DEF Rau!Fallback
<1>4. m \in Rau!Preferred(FALSE) => m \in M
  BY PreferredIs
<1> QED
  BY <1>2, <1>3, <1>4, MovesAre


LEMMA IdleIsAThread == "idle" \in Threads
BY Zenon DEF Threads

LEMMA FallBackKeeps ==
    ASSUME DealAssumption, RauInv, Rau!FallBack PROVE RauInv'
<1>1. thread # "idle" /\ thread' = "idle"
  BY Zenon DEF Rau!FallBack
<1>2. PICK m \in Rau!Fallback :
        IF ~Rau!Guaranteed(m)
        THEN wrong' = wrong \union {"stuck"} /\ Rau!Untouched
        ELSE /\ wrong' = wrong \union
                    (IF ~Rau!Over /\ m.move = "concede" THEN {"gave up"} ELSE {})
             /\ IF Rau!Over THEN Rau!Untouched
                ELSE Rau!Do(m) /\ Rau!Fresh /\ UNCHANGED deciding
  BY Zenon DEF Rau!FallBack
<1>3. /\ m \in Rau!Rules!Menu("rau") => Rau!Rules!Accepted("rau", m) /\ m.move # "concede"
      /\ m \in Rau!Rules!Menu("rau") \/ (Rau!Rules!Menu("rau") = {} /\ m.move = "concede")
  <2>1. GameInv /\ "rau" \in Sides
    BY SeatsAre DEF RauInv
  <2> QED
    BY <2>1, FallbackIs, MenuLists, MenuKeepsItsWord
<1>4. Rau!Guaranteed(m)
  <2>1. Rau!RAU = "rau"
    BY SeatsAre DEF Rau!RAU
  <2> QED
    BY <1>3, <2>1, Zenon DEF Rau!Guaranteed
<1>5. ~Rau!Over => m.move # "concede"
  <2>1. phase # "over" => Rau!Rules!Menu("rau") # {}
    BY <1>1, WhoIsUpMayMove, SeatsAre DEF RauInv, ThinksOnHisTurn
  <2> QED
    BY <1>3, <2>1 DEF Rau!Over
<1>6. wrong' = {}
  <2>1. wrong' = wrong \union {}
    BY <1>2, <1>4, <1>5, Zenon
  <2> QED
    BY <2>1 DEF RauInv
<1>7. CASE Rau!Untouched
  <2>1. GameStands /\ acted' = acted /\ decided' = decided /\ deciding' = deciding
    BY <1>7 DEF Rau!Untouched, Rau!game, GameStands
  <2>2. GameInv' /\ ThinksOnHisTurn' /\ DecidesInTime'
    BY <1>1, <2>1, GameRestsFor
  <2> QED
    BY <1>1, <1>6, <2>1, <2>2, IdleIsAThread DEF RauInv, Booleans
<1>8. CASE Rau!Do(m) /\ Rau!Fresh /\ UNCHANGED deciding
  <2>1. Plays("rau") \/ Rau!Rules!Concede("rau")
    BY <1>3, <1>8, DoingIsMoving
  <2>2. GameInv' /\ ThinksOnHisTurn' /\ DecidesInTime'
    BY <1>1, <1>8, <2>1, RauMoves
  <2>3. Booleans'
    <3>1. Rau!Counted(TRUE) \/ Rau!Counted(FALSE)
      BY <1>8, Zenon DEF Rau!Do
    <3> QED
      BY <1>8, <3>1, CountedIs, FreshIs DEF RauInv, Booleans
  <2> QED
    BY <1>1, <1>6, <2>2, <2>3, IdleIsAThread DEF RauInv
<1> QED
  BY <1>2, <1>4, <1>7, <1>8, Zenon

\* A good answer is a move, or a concession.
LEMMA GoodAnswerKeeps ==
    ASSUME RauInv, Rau!GoodAnswer PROVE RauInv'
<1>1. /\ thread' = "idle" /\ deciding' = deciding /\ wrong' = wrong /\ Rau!Fresh
      /\ \/ Rau!Plays("rau") \/ Rau!Answers("rau") \/ Rau!Rules!Concede("rau")
         \/ Rau!Rules!Draw("rau") \/ \E m \in Rau!Preferred(TRUE) : Rau!Do(m)
      /\ \/ Rau!Counted(TRUE) \/ Rau!Counted(FALSE)
         \/ \E m \in Rau!Preferred(TRUE) : Rau!Do(m)
  <2>1. Rau!RAU = "rau"
    BY SeatsAre DEF Rau!RAU
  <2> QED
    BY <2>1, Zenon DEF Rau!GoodAnswer, Rau!Same
<1>2. Plays("rau") \/ Rau!Rules!Concede("rau")
  <2>1. ASSUME NEW m \in Rau!Preferred(TRUE), Rau!Do(m)
        PROVE  Plays("rau") \/ Rau!Rules!Concede("rau")
    BY <2>1, PreferredIs, DoingIsMoving
  <2> QED
    BY <1>1, <2>1 DEF Plays
<1>3. GameInv' /\ ThinksOnHisTurn' /\ DecidesInTime'
  BY <1>1, <1>2, RauMoves
<1>4. Rau!Counted(TRUE) \/ Rau!Counted(FALSE)
  BY <1>1, Zenon DEF Rau!Do
<1>5. Booleans'
  BY <1>1, <1>4, CountedIs, FreshIs DEF RauInv, Booleans
<1> QED
  BY <1>1, <1>3, <1>5, IdleIsAThread DEF RauInv

\* The turn thread starts, and is refused.
LEMMA ThinkingKeeps ==
    ASSUME RauInv, Rau!StartTurn \/ Rau!BadAnswer \/ Rau!ModelFails PROVE RauInv'
<1>1. /\ GameStands /\ acted' = acted /\ decided' = decided /\ deciding' = deciding
      /\ wrong' = wrong
  BY Zenon DEF Rau!StartTurn, Rau!BadAnswer, Rau!ModelFails, Rau!Untouched, Rau!game, GameStands
<1>2. thread' \in Threads
  BY Zenon DEF Rau!StartTurn, Rau!BadAnswer, Rau!ModelFails, Threads
<1>3. GameInv'
  BY <1>1, GameRests DEF RauInv
<1>4. ThinksOnHisTurn'
  <2>1. phase = "over" \/ Up("rau")
    <3>1. CASE Rau!StartTurn
      BY <3>1, OneAtATime DEF Rau!StartTurn, RauInv
    <3>2. CASE ~Rau!StartTurn
      <4>1. thread # "idle"
        BY <3>2, Zenon DEF Rau!BadAnswer, Rau!ModelFails
      <4> QED
        BY <4>1 DEF RauInv, ThinksOnHisTurn
    <3> QED
      BY <3>1, <3>2
  <2> QED
    BY <1>1, <2>1 DEF GameStands, ThinksOnHisTurn, Up
<1>5. DecidesInTime'
  BY <1>1 DEF GameStands, RauInv, DecidesInTime, AnswersThisWindow
<1> QED
  BY <1>1, <1>2, <1>3, <1>4, <1>5 DEF RauInv, Booleans

LEMMA DecideKeeps == ASSUME RauInv, Rau!Decide PROVE RauInv'
<1>1. /\ GameStands /\ acted' = acted /\ thread' = thread /\ wrong' = wrong /\ decided' = TRUE
      /\ phase = "nope_window" /\ Rau!Rules!Other(action.last) = "rau"
      /\ deciding = Rau!Rules!NoPending
      /\ (deciding' = action /\ Rau!Rules!Holds(hands["rau"], "nope")) \/ deciding' = deciding
  <2>1. Rau!RAU = "rau" /\ Rau!Rules!NOPE = "nope"
    BY SeatsAre, CardsAre DEF Rau!RAU
  <2> QED
    BY <2>1, Zenon DEF Rau!Decide, Rau!NotDeciding, Rau!WindowForRau, Rau!game, GameStands
<1>2. GameInv' /\ ThinksOnHisTurn'
  BY <1>1, GameRestsFor
<1>3. DecidesInTime'
  BY <1>1, HoldsAre DEF DecidesInTime, AnswersThisWindow, GameStands
<1> QED
  BY <1>1, <1>2, <1>3 DEF RauInv, Booleans

\* The window is left to run out, or answered.
LEMMA PassKeeps == ASSUME RauInv, Rau!Pass PROVE RauInv'
<1>1. /\ GameStands /\ acted' = acted /\ thread' = thread /\ wrong' = wrong
      /\ decided' = decided /\ deciding' = Rau!Rules!NoPending
  BY DEF Rau!Pass, Rau!game, GameStands
<1>2. GameInv' /\ ThinksOnHisTurn'
  BY <1>1, GameRestsFor
<1> QED
  BY <1>1, <1>2 DEF RauInv, Booleans, DecidesInTime

LEMMA SayNopeKeeps == ASSUME RauInv, Rau!SayNope PROVE RauInv'
<1>1. /\ deciding # Rau!Rules!NoPending /\ deciding' = Rau!Rules!NoPending /\ thread' = thread
      /\ \/ /\ Rau!Rules!Nope("rau") /\ Rau!Counted(FALSE) /\ Rau!Fresh
            /\ action = deciding => wrong' = wrong
         \/ GameStands /\ acted' = acted /\ decided' = decided /\ wrong' = wrong
  <2>1. Rau!RAU = "rau"
    BY SeatsAre DEF Rau!RAU
  <2> QED
    BY <2>1, Zenon DEF Rau!SayNope, Rau!NotDeciding, Rau!game, GameStands
<1>2. CASE GameStands /\ acted' = acted /\ decided' = decided /\ wrong' = wrong
  <2>1. GameInv' /\ ThinksOnHisTurn'
    BY <1>1, <1>2, GameRestsFor
  <2> QED
    BY <1>1, <1>2, <2>1 DEF RauInv, Booleans, DecidesInTime
<1>3. CASE /\ Rau!Rules!Nope("rau") /\ Rau!Counted(FALSE) /\ Rau!Fresh
           /\ action = deciding => wrong' = wrong
  <2>1. phase = "nope_window"
    BY <1>3 DEF Rau!Rules!Nope, Rau!Rules!MayNope
  <2>2. GameInv'
    BY <1>3, NopeKeeps, SeatsAre DEF RauInv
  <2>3. thread = "idle"
    BY <2>1, OneAtATime DEF RauInv, ThinksOnHisTurn
  <2>4. action = deciding
    BY <1>1, <2>1 DEF RauInv, DecidesInTime, AnswersThisWindow
  <2>5. Booleans'
    BY <1>3, CountedIs, FreshIs DEF RauInv, Booleans
  <2> QED
    BY <1>1, <1>3, <2>2, <2>3, <2>4, <2>5 DEF RauInv, DecidesInTime, ThinksOnHisTurn
<1> QED
  BY <1>1, <1>2, <1>3

LEMMA WindowShutsFor == ASSUME Prompt = TRUE, RauInv, Rau!WindowShuts PROVE RauInv'
<1>1. /\ deciding = Rau!Rules!NoPending /\ Rau!Rules!Expire /\ Rau!Counted(FALSE) /\ Rau!Fresh
      /\ thread' = thread /\ deciding' = deciding /\ wrong' = wrong
  BY Zenon DEF Rau!WindowShuts, Rau!NotDeciding, Rau!Same
<1>2. phase = "nope_window" /\ GameInv'
  BY <1>1, WindowShuts DEF RauInv, Rau!Rules!Expire
<1>3. thread = "idle"
  BY <1>2, OneAtATime DEF RauInv, ThinksOnHisTurn
<1>4. Booleans'
  BY <1>1, CountedIs, FreshIs DEF RauInv, Booleans
<1> QED
  BY <1>1, <1>2, <1>3, <1>4 DEF RauInv, ThinksOnHisTurn, DecidesInTime

\* THEOREM. (kittens/player.py, pump.py) Whatever the model answers and however the user plays
\* meanwhile, the rules take Rau's fallback and it gives up no game that goes on; and where a
\* Nope is decided within its window, it falls on the card it was decided for.  The rules keep
\* what they promise under it.
THEOREM RauPlaysOn ==
    ASSUME DealAssumption, Prompt = TRUE
    PROVE  Rau!Spec => [](/\ Rau!TypeOK /\ Rau!PlaysOn /\ Rau!Rules!CardsConserved
                         /\ Rau!Rules!PeekIsTrue /\ Rau!Rules!MenuIsHonest)
<1>1. Rau!Init => RauInv
  <2> SUFFICES ASSUME Rau!Init PROVE RauInv
    OBVIOUS
  <2>1. /\ Rau!Rules!Init /\ acted = FALSE /\ decided = FALSE /\ thread = "idle"
        /\ deciding = Rau!Rules!NoPending /\ wrong = {}
    BY Zenon DEF Rau!Init
  <2>2. GameInv
    BY <2>1, DealStarts
  <2> QED
    BY <2>1, <2>2, IdleIsAThread DEF RauInv, Booleans, DecidesInTime, ThinksOnHisTurn
<1>2. RauInv /\ [Rau!Next]_Rau!vars => RauInv'
  <2> SUFFICES ASSUME RauInv, [Rau!Next]_Rau!vars PROVE RauInv'
    OBVIOUS
  <2>1. CASE UNCHANGED Rau!vars
    <3>1. /\ GameStands /\ acted' = acted /\ thread' = thread /\ wrong' = wrong
          /\ decided' = decided /\ deciding' = deciding
      BY <2>1 DEF Rau!vars, Rau!game, GameStands
    <3>2. GameInv' /\ ThinksOnHisTurn' /\ DecidesInTime'
      BY <3>1, GameRestsFor
    <3> QED
      BY <3>1, <3>2 DEF RauInv, Booleans
  <2>2. CASE Rau!Next
    BY <2>2, ThinkingKeeps, GoodAnswerKeeps, FallBackKeeps, DecideKeeps, PassKeeps, SayNopeKeeps,
       WindowShutsFor, UserMovesKeep DEF Rau!Next
  <2> QED
    BY <2>1, <2>2
<1>3. RauInv => /\ Rau!TypeOK /\ Rau!PlaysOn /\ Rau!Rules!CardsConserved
                /\ Rau!Rules!PeekIsTrue /\ Rau!Rules!MenuIsHonest
  <2> SUFFICES ASSUME RauInv
               PROVE  /\ Rau!TypeOK /\ Rau!PlaysOn /\ Rau!Rules!CardsConserved
                      /\ Rau!Rules!PeekIsTrue /\ Rau!Rules!MenuIsHonest
    OBVIOUS
  <2>1. /\ Rau!Rules!TypeOK /\ Rau!Rules!CardsConserved /\ Rau!Rules!PeekIsTrue
        /\ Rau!Rules!MenuIsHonest
    BY GameIsHonest DEF RauInv
  <2>2. deciding # Rau!Rules!NoPending => Rau!Rules!Holds(hands["rau"], "nope") \/ Rau!Over
    BY HoldsAre DEF RauInv, DecidesInTime, AnswersThisWindow, Rau!Over
  <2>3. Rau!TypeOK
    <3>1. Rau!RAU = "rau" /\ Rau!Rules!NOPE = "nope"
      BY SeatsAre, CardsAre DEF Rau!RAU
    <3> QED
      BY <2>1, <2>2, <3>1, Zenon DEF Rau!TypeOK, RauInv, Booleans, Threads, Rau!NotDeciding
  <2>4. Rau!PlaysOn
    BY DEF RauInv, Rau!PlaysOn
  <2> QED
    BY <2>1, <2>3, <2>4
<1> QED
  BY <1>1, <1>2, <1>3, PTL DEF Rau!Spec


-----------------------------------------------------------------------------
(* An evening of chess: the parked position, and Rau's manners.            *)

CONSTANTS ResignStreak, ResignPly, OfferStreak, OfferPly, ClaimPly, Ratings, Weeks, Unhurried,
          MaxBoards, MaxPlies, MaxCrashes
VARIABLES table, boards, saved, score, folded, settled, mood, user, turn, teller, sins, restarts
Evening == INSTANCE ChessEvening WITH
    booked <- folded, finished <- settled, pump <- teller, crashes <- restarts

\* One request at a time, between the turns of Rau's; and the bounds are numbers.
EveningAssumption == Unhurried = TRUE /\ MaxBoards \in Nat /\ ResignPly \in Int

Colours == {"white", "black"}
Ends == {"no", "user", "rau", "draw"}
BoardRec ==
    [id : Nat \ {0}, rau : Colours, plies : Nat, mate : Ends, over : Ends,
     offer : {"nobody", "user", "rau"}, asked : BOOLEAN]
Pages == [id : Nat, rau : Colours, plies : Nat, over : Ends]
SetUps == {"puts", "returns", "resets", "recalls", "parks", "writes"}
Bookings == {"claims", "books", "clears"}
\* Rau's turn is at the board that is out.
Busy == {"acts", "minds", "resigns", "moves", "records", "offered"}
TurnPlaces == Busy \union {"idle", "searches", "waits", "offers", "leaves"}
Turns == [at : TurnPlaces, id : Nat, board : Nat, plies : Nat,
          kind : {"fine", "lost", "worse", "dead"}, offers : BOOLEAN,
          then : {"idle", "minds", "offers", "leaves", "offered"}]
UserPlaces == SetUps \union Bookings \union {"idle", "records"}
Threading(places) == [at : places, board : Nat, page : Pages]
Sized(m) == DOMAIN m = {"hopeless", "dead", "offered"} /\ m.offered \in BOOLEAN

BoardsTyped ==
    /\ boards \in Seq(BoardRec) /\ Len(boards) <= MaxBoards
    /\ \A i \in 1..Len(boards) : boards[i].id <= Len(boards)
PlacesTyped ==
    /\ table \in Nat /\ table <= Len(boards)
    /\ saved \in Pages /\ saved.id <= Len(boards)
    /\ saved.id = 0 => saved = Evening!NoSave
MoodTyped == DOMAIN mood = Evening!Boards /\ \A i \in Evening!Boards : Sized(mood[i])
TurnTyped == turn \in Turns /\ turn.id <= Len(boards) /\ (turn.at # "idle" => turn.id # 0)
UserTyped == user \in Threading(UserPlaces)
TellerTyped == teller \in Threading(Bookings \union {"idle"})
EveningTypes ==
    BoardsTyped /\ PlacesTyped /\ MoodTyped /\ TurnTyped /\ UserTyped /\ TellerTyped

\* A board is set up while Rau is not at one and no result is being booked.
SetApart ==
    user.at \in SetUps =>
        /\ turn.at \in {"idle", "searches", "waits", "offers"} /\ teller.at = "idle"
        /\ table # 0 => Evening!Live(table) \/ settled = boards[table].id
        /\ user.board \in 1..Len(boards) /\ Evening!Live(user.board)
        /\ ~boards[user.board].asked
        /\ user.at \in {"puts", "returns"} => ~Evening!Live(table)
        /\ user.at \notin {"puts", "returns"} => table = user.board
        /\ user.at \in {"returns", "recalls"} => saved = Evening!Page(boards[user.board])
        /\ user.at = "writes" => user.page = Evening!Page(boards[user.board])
        /\ user.at = "puts" => boards[user.board].id # turn.id

\* Who moved has the board that is out; what is booked is over.
AtHisBoard ==
    /\ user.at \in Bookings => table = 0
    /\ user.at = "records" => table # 0 /\ user.board = table
    /\ teller.at # "idle" => table # 0 /\ ~Evening!Live(table)
    /\ turn.at \in Busy =>
           /\ table # 0 /\ boards[table].id = turn.id
           /\ turn.at # "moves" => turn.board = table

\* A live game is parked as it stands once whoever moved has written it down.
Parked ==
    user.at = "idle" /\ teller.at = "idle" /\ turn.at # "records" /\ Evening!Live(table)
        => saved = Evening!Page(boards[table])

\* What Rau thinks about is the position of the game, on the table or parked.
Thinks ==
    \/ turn.at \in {"searches", "acts", "minds", "resigns", "waits", "moves"}
    \/ turn.at = "records" /\ turn.then = "minds"
HisMove(b) == b.id = turn.id => b.plies = turn.plies /\ Evening!Seat(b) = "rau"
ThinksOfIt ==
    Thinks =>
        /\ table # 0 => HisMove(boards[table])
        /\ user.at \notin {"records", "puts", "resets", "parks", "writes"} => HisMove(saved)

\* He resigns late, and remembers that he offered.
Offering == turn.at = "offered" \/ (turn.at = "records" /\ turn.then = "offered")
WillOffer ==
    \/ turn.at \in {"waits", "moves"} /\ turn.offers = TRUE
    \/ turn.at = "offers" \/ (turn.at = "records" /\ turn.then = "offers")
Mannered ==
    /\ turn.at = "resigns" => boards[table].plies >= ResignPly
    /\ table # 0 /\ boards[table].asked =>
           \/ mood[boards[table].id].offered
           \/ Offering /\ boards[table].id = turn.id
    /\ table # 0 /\ boards[table].id = turn.id /\ WillOffer => ~boards[table].asked

EveningInv ==
    /\ EveningTypes /\ SetApart /\ AtHisBoard /\ Parked /\ ThinksOfIt /\ Mannered /\ sins = {}

LEMMA EveningNames ==
    /\ Evening!USER = "user" /\ Evening!RAU = "rau"
    /\ Evening!Other("rau") = "user" /\ Evening!Other("user") = "rau"
    /\ Evening!NoSave \in Pages /\ Evening!NoSave.id = 0
    /\ Evening!Idle.at = "idle" /\ Evening!Idle.board = 0 /\ Evening!Idle.page = Evening!NoSave
    /\ Evening!Resting \in Turns /\ Evening!Resting.at = "idle" /\ Evening!Resting.id = 0
BY DEF Evening!USER, Evening!RAU, Evening!Other, Evening!NoSave, Evening!Idle, Evening!Resting,
   Pages, Colours, Ends, Turns, TurnPlaces

\* Whose move it is follows from the plies and the colours, and the page has both.
LEMMA SameSeat ==
    ASSUME NEW b, NEW c, b.plies = c.plies, b.rau = c.rau PROVE Evening!Seat(b) = Evening!Seat(c)
BY DEF Evening!Seat

LEMMA PageIs ==
    ASSUME NEW b \in BoardRec
    PROVE  /\ Evening!Page(b) \in Pages /\ Evening!Page(b).id = b.id
           /\ Evening!Page(b).plies = b.plies /\ Evening!Page(b).rau = b.rau
           /\ Evening!Seat(Evening!Page(b)) = Evening!Seat(b)
BY SameSeat DEF Evening!Page, Pages, BoardRec

\* A board that was acted on: the same game, further on by a move of the seat's at most.
Later(b, c, s) ==
    /\ c \in BoardRec /\ c.id = b.id /\ c.rau = b.rau /\ c.asked = b.asked
    /\ c.plies >= b.plies /\ (Evening!Seat(b) # s => c.plies = b.plies)

LEMMA EndedIs ==
    ASSUME NEW b \in BoardRec, NEW w \in Ends
    PROVE  /\ Evening!Ended(b, w) \in BoardRec /\ Evening!Ended(b, w).id = b.id
           /\ Evening!Ended(b, w).rau = b.rau /\ Evening!Ended(b, w).plies = b.plies
           /\ Evening!Ended(b, w).asked = b.asked
BY DEF Evening!Ended, BoardRec, Ends

LEMMA OfferIs ==
    ASSUME NEW b \in BoardRec, NEW s \in {"user", "rau"}, NEW c, c = Evening!OfferDraw(b, s)
    PROVE  /\ c \in BoardRec /\ c.id = b.id /\ c.rau = b.rau /\ c.plies = b.plies
           /\ c.asked = b.asked
<1>1. CASE b.offer = Evening!Other(s)
  BY <1>1, EndedIs DEF Evening!OfferDraw, Ends
<1>2. CASE b.offer # Evening!Other(s)
  BY <1>2 DEF Evening!OfferDraw, BoardRec
<1> QED
  BY <1>1, <1>2

LEMMA MovesAreLater ==
    ASSUME NEW b \in BoardRec, NEW s \in {"user", "rau"}, NEW c \in Evening!Moves(b, s),
           Evening!Seat(b) = s
    PROVE  Later(b, c, s)
<1> DEFINE moved == [b EXCEPT !.plies = @ + 1,
                              !.offer = IF @ = Evening!Other(s) THEN "nobody" ELSE @]
<1>1. c \in {moved} \union {[Evening!Ended(moved, w) EXCEPT !.mate = w] : w \in {s, "draw"}}
  BY Zenon DEF Evening!Moves
<1>2. /\ moved \in BoardRec /\ moved.id = b.id /\ moved.rau = b.rau /\ moved.asked = b.asked
      /\ moved.plies = b.plies + 1
  <2> DEFINE n == b.plies + 1
             o == IF b.offer = Evening!Other(s) THEN "nobody" ELSE b.offer
  <2>1. n \in Nat /\ o \in {"nobody", "user", "rau"}
    BY DEF BoardRec
  <2>2. moved = [b EXCEPT !.plies = n, !.offer = o]
    OBVIOUS
  <2> HIDE DEF n, o, moved
  <2>3. moved = [id |-> b.id, rau |-> b.rau, plies |-> n, mate |-> b.mate, over |-> b.over,
                 offer |-> o, asked |-> b.asked]
    BY <2>2 DEF BoardRec
  <2> QED
    BY <2>1, <2>3 DEF BoardRec, n
<1> HIDE DEF moved
<1>3. ASSUME NEW w \in {s, "draw"}, c = [Evening!Ended(moved, w) EXCEPT !.mate = w]
      PROVE  /\ c \in BoardRec /\ c.id = b.id /\ c.rau = b.rau /\ c.asked = b.asked
             /\ c.plies = b.plies + 1
  <2>1. w \in Ends
    BY DEF Ends
  <2>2. Evening!Ended(moved, w) \in BoardRec
    BY <1>2, <2>1, EndedIs
  <2>3. c \in BoardRec /\ c.id = Evening!Ended(moved, w).id
        /\ c.rau = Evening!Ended(moved, w).rau /\ c.asked = Evening!Ended(moved, w).asked
        /\ c.plies = Evening!Ended(moved, w).plies
    BY <1>3, <2>1, <2>2 DEF BoardRec
  <2> QED
    BY <1>2, <2>1, <2>3, EndedIs
<1>4. /\ c \in BoardRec /\ c.id = b.id /\ c.rau = b.rau /\ c.asked = b.asked
      /\ c.plies = b.plies + 1
  BY <1>1, <1>2, <1>3
<1>5. b.plies \in Nat
  BY DEF BoardRec
<1> QED
  BY <1>4, <1>5 DEF Later

LEMMA ActsAreLater ==
    ASSUME NEW b \in BoardRec, NEW s \in {"user", "rau"}, NEW c \in Evening!Acts(b, s)
    PROVE  Later(b, c, s)
<1>1. \/ Evening!Seat(b) = s /\ c \in Evening!Moves(b, s)
      \/ c = Evening!Ended(b, Evening!Other(s)) \/ c = Evening!OfferDraw(b, s)
      \/ c = Evening!Ended(b, "draw") \/ c = [b EXCEPT !.offer = "nobody"]
  BY DEF Evening!Acts
<1>2. b.plies \in Nat /\ Evening!Other(s) \in Ends /\ "draw" \in Ends
  BY EveningNames DEF BoardRec, Ends
<1>3. CASE c = Evening!Ended(b, Evening!Other(s)) \/ c = Evening!Ended(b, "draw")
  BY <1>2, <1>3, EndedIs DEF Later
<1>4. CASE c = Evening!OfferDraw(b, s)
  BY <1>2, <1>4, OfferIs DEF Later
<1>5. CASE c = [b EXCEPT !.offer = "nobody"]
  BY <1>2, <1>5 DEF Later, BoardRec
<1> QED
  BY <1>1, <1>3, <1>4, <1>5, MovesAreLater

\* The board on the table is replaced by a later one of the same game.
LEMMA BoardReplaced ==
    ASSUME EveningTypes, table # 0, NEW c \in BoardRec, c.id = boards[table].id,
           boards' = [boards EXCEPT ![table] = c]
    PROVE  /\ boards[table] \in BoardRec
           /\ boards' \in Seq(BoardRec) /\ Len(boards') = Len(boards) /\ boards'[table] = c
           /\ \A i \in 1..Len(boards') : boards'[i].id <= Len(boards')
           /\ \A i \in 1..Len(boards) : i # table => boards'[i] = boards[i]
<1>1. boards \in Seq(BoardRec) /\ table \in 1..Len(boards)
  BY DEF EveningTypes, BoardsTyped, PlacesTyped
<1> QED
  BY <1>1 DEF EveningTypes, BoardsTyped

LEMMA OnTheTable ==
    ASSUME EveningTypes, Evening!Live(table)
    PROVE  /\ table # 0 /\ table \in 1..Len(boards) /\ boards[table] \in BoardRec
           /\ boards[table].over = "no" /\ boards[table].id # 0 /\ boards[table].id <= Len(boards)
<1>1. table # 0 /\ table \in 1..Len(boards) /\ boards[table].over = "no"
  BY DEF EveningTypes, BoardsTyped, PlacesTyped, Evening!Live
<1>2. boards[table] \in BoardRec /\ boards[table].id <= Len(boards)
  BY <1>1 DEF EveningTypes, BoardsTyped
<1> QED
  BY <1>1, <1>2 DEF BoardRec

LEMMA TurnAt ==
    ASSUME TurnTyped, NEW p \in TurnPlaces, turn' = [turn EXCEPT !.at = p]
    PROVE  /\ turn' \in Turns /\ turn'.at = p /\ turn'.id = turn.id /\ turn'.board = turn.board
           /\ turn'.plies = turn.plies /\ turn'.offers = turn.offers /\ turn'.then = turn.then
BY DEF TurnTyped, Turns

LEMMA UserAt ==
    ASSUME UserTyped, NEW p \in UserPlaces, user' = [user EXCEPT !.at = p]
    PROVE  UserTyped' /\ user'.at = p /\ user'.board = user.board /\ user'.page = user.page
BY DEF UserTyped, Threading

LEMMA UserIdle ==
    ASSUME user' = Evening!Idle PROVE UserTyped' /\ user'.at = "idle"
BY EveningNames DEF UserTyped, Threading, UserPlaces, Evening!Idle

LEMMA TurnRests ==
    ASSUME turn' = Evening!Resting PROVE turn' \in Turns /\ turn'.at = "idle" /\ turn'.id = 0
BY EveningNames

-----------------------------------------------------------------------------
(* Rau's turn, where it does nothing to a board.                           *)

LEMMA EveningStartTurn == ASSUME EveningInv, Evening!StartTurn PROVE EveningInv'
<1>1. /\ turn.at = "idle" /\ Evening!Live(table) /\ Evening!Seat(boards[table]) = "rau"
      /\ turn' = [Evening!Resting EXCEPT !.at = "searches", !.id = boards[table].id,
                                         !.plies = boards[table].plies]
      /\ UNCHANGED <<table, boards, saved, mood, user, teller, sins, settled>>
  BY EveningNames DEF Evening!StartTurn, Evening!On
<1>2. EveningTypes /\ table \in 1..Len(boards) /\ boards[table] \in BoardRec
        /\ boards[table].id # 0 /\ boards[table].id <= Len(boards)
  BY <1>1, OnTheTable DEF EveningInv
<1>3. /\ turn' \in Turns /\ turn'.at = "searches" /\ turn'.id = boards[table].id
      /\ turn'.plies = boards[table].plies
  BY <1>1, <1>2, EveningNames DEF Turns, TurnPlaces, BoardRec
<1>4. EveningTypes'
  BY <1>1, <1>2, <1>3
     DEF EveningTypes, BoardsTyped, PlacesTyped, MoodTyped, TurnTyped, UserTyped, TellerTyped
<1>5. SetApart' /\ AtHisBoard' /\ Parked'
  BY <1>1, <1>2, <1>3
     DEF EveningInv, SetApart, AtHisBoard, Parked, Evening!Live, SetUps, Busy
<1>6. ThinksOfIt'
  <2>1. HisMove(boards[table])'
    BY <1>1, <1>3 DEF HisMove
  <2>2. ASSUME user.at \notin {"records", "puts", "resets", "parks", "writes"}
        PROVE  saved = Evening!Page(boards[table])
    <3>1. user.at = "idle" \/ user.at = "recalls" \/ user.at = "returns" \/ user.at \in Bookings
      BY <1>2, <2>2
         DEF EveningTypes, UserTyped, Threading, UserPlaces, SetUps
    <3>2. teller.at = "idle"
      BY <1>1, <1>2 DEF EveningInv, AtHisBoard, EveningTypes, TellerTyped, Threading
    <3> QED
      BY <1>1, <1>2, <3>1, <3>2 DEF EveningInv, SetApart, AtHisBoard, Parked, SetUps
  <2>3. user.at \notin {"records", "puts", "resets", "parks", "writes"} => HisMove(saved)'
    BY <1>1, <1>2, <1>3, <2>2, PageIs DEF HisMove
  <2> QED
    BY <1>1, <2>1, <2>3 DEF ThinksOfIt
<1>7. Mannered' /\ sins' = {}
  BY <1>1, <1>3 DEF EveningInv, Mannered, Offering, WillOffer
<1> QED
  BY <1>4, <1>5, <1>6, <1>7 DEF EveningInv

LEMMA EveningRests ==
    ASSUME EveningInv, turn' = Evening!Resting, turn.at # "records", turn.at # "offered",
           UNCHANGED <<table, boards, saved, mood, user, teller, sins, settled>>
    PROVE  EveningInv'
<1>1. turn' \in Turns /\ turn'.at = "idle" /\ turn'.id = 0
  BY TurnRests
<1>2. EveningTypes'
  BY <1>1
     DEF EveningInv, EveningTypes, BoardsTyped, PlacesTyped, MoodTyped, TurnTyped, UserTyped,
         TellerTyped
<1>3. SetApart' /\ AtHisBoard' /\ Parked' /\ ThinksOfIt'
  <2>1. ASSUME user.at \in SetUps PROVE boards[user.board].id # 0
    <3>1. user.board \in 1..Len(boards) /\ boards[user.board] \in BoardRec
      BY <2>1 DEF EveningInv, SetApart, EveningTypes, BoardsTyped
    <3> QED
      BY <3>1 DEF BoardRec
  <2> QED
    BY <1>1, <2>1
       DEF EveningInv, SetApart, AtHisBoard, Parked, ThinksOfIt, Thinks, Busy, Evening!Live
<1>4. Mannered' /\ sins' = {}
  BY <1>1 DEF EveningInv, Mannered, Offering, WillOffer
<1> QED
  BY <1>2, <1>3, <1>4 DEF EveningInv

LEMMA EveningSearch == ASSUME EveningAssumption, EveningInv, Evening!Search PROVE EveningInv'
<1>1. /\ turn.at = "searches" /\ user.at \notin SetUps
      /\ \/ turn' = Evening!Resting
         \/ /\ table # 0 /\ boards[table].id = turn.id
            /\ \E k \in {"lost", "worse", "dead", "fine"} :
                 turn' = [turn EXCEPT !.at = "acts", !.board = table, !.kind = k]
      /\ UNCHANGED <<table, boards, saved, mood, user, teller, sins, settled>>
  BY EveningNames
     DEF Evening!Search, Evening!GoesOn, Evening!SettingUp, Evening!SameGame, Evening!On,
         EveningAssumption, SetUps
<1>2. EveningTypes
  BY DEF EveningInv
<1>3. CASE turn' = Evening!Resting
  BY <1>1, <1>3, EveningRests
<1>4. CASE turn' # Evening!Resting
  <2>1. /\ turn' \in Turns /\ turn'.at = "acts" /\ turn'.id = turn.id /\ turn'.plies = turn.plies
        /\ turn'.board = table /\ table # 0 /\ boards[table].id = turn.id
    BY <1>1, <1>2, <1>4
       DEF EveningTypes, TurnTyped, PlacesTyped, Turns, TurnPlaces, Busy
  <2>2. EveningTypes'
    BY <1>1, <1>2, <2>1
       DEF EveningTypes, BoardsTyped, PlacesTyped, MoodTyped, TurnTyped, UserTyped, TellerTyped
  <2>3. SetApart' /\ AtHisBoard' /\ Parked'
    BY <1>1, <2>1 DEF EveningInv, SetApart, AtHisBoard, Parked, Busy, Evening!Live
  <2>4. ThinksOfIt'
    BY <1>1, <2>1 DEF EveningInv, ThinksOfIt, Thinks, HisMove
  <2>5. Mannered' /\ sins' = {}
    BY <1>1, <2>1 DEF EveningInv, Mannered, Offering, WillOffer
  <2> QED
    BY <2>2, <2>3, <2>4, <2>5 DEF EveningInv
<1> QED
  BY <1>3, <1>4

LEMMA EveningMind == ASSUME EveningAssumption, EveningInv, Evening!Mind PROVE EveningInv'
<1> DEFINE m == mood[turn.id]
           p == IF Evening!WouldResign THEN "resigns" ELSE "waits"
<1>1. /\ turn.at \in {"acts", "minds"} /\ turn.at \in Busy
      /\ mood' = [mood EXCEPT ![turn.id] = Evening!Mood]
      /\ turn' = IF Evening!WouldResign THEN [turn EXCEPT !.at = "resigns"]
                 ELSE [turn EXCEPT !.at = "waits", !.offers = Evening!WouldOffer]
      /\ UNCHANGED <<table, boards, saved, user, teller, sins, settled>>
  BY DEF Evening!Mind, Busy
<1>2. EveningTypes /\ turn \in Turns
  BY DEF EveningInv, EveningTypes, TurnTyped
<1>3. /\ table # 0 /\ boards[table].id = turn.id /\ turn.board = table
      /\ turn.id \in Evening!Boards /\ user.at \notin SetUps /\ turn.id # 0
  <2>1. table # 0 /\ boards[table].id = turn.id /\ turn.board = table /\ user.at \notin SetUps
    BY <1>1 DEF EveningInv, AtHisBoard, SetApart
  <2>2. turn.id \in Evening!Boards /\ turn.id # 0
    BY <1>1, <1>2
       DEF EveningTypes, TurnTyped, Turns, BoardsTyped, Evening!Boards, EveningAssumption
  <2> QED
    BY <2>1, <2>2
<1>4. Sized(Evening!Mood) /\ Evening!Mood.offered = m.offered
  BY <1>2, <1>3 DEF EveningTypes, MoodTyped, Sized, Evening!Mood
<1>5. MoodTyped' /\ \A i \in Evening!Boards : mood'[i].offered = mood[i].offered
  BY <1>1, <1>2, <1>4 DEF EveningTypes, MoodTyped
<1>6. Evening!WouldOffer \in BOOLEAN /\ (Evening!WouldOffer => ~m.offered)
  BY <1>4 DEF Evening!WouldOffer
<1>7. /\ turn' \in Turns /\ turn'.at = p /\ turn'.id = turn.id /\ turn'.plies = turn.plies
  <2>1. CASE Evening!WouldResign
    BY <1>1, <1>2, <2>1 DEF Turns, TurnPlaces, Busy
  <2>2. CASE ~Evening!WouldResign
    BY <1>1, <1>2, <1>6, <2>2 DEF Turns, TurnPlaces
  <2> QED
    BY <2>1, <2>2
<1>8. p = "resigns" => boards[table].plies >= ResignPly /\ turn'.board = table
  <2>1. ASSUME p = "resigns" PROVE Evening!WouldResign
    BY <2>1
  <2>2. ASSUME Evening!WouldResign PROVE boards[table].plies >= ResignPly
    BY <1>3, <2>2 DEF Evening!WouldResign, Evening!On
  <2>3. ASSUME Evening!WouldResign PROVE turn'.board = table
    BY <1>1, <1>2, <1>3, <2>3 DEF Turns
  <2> QED
    BY <2>1, <2>2, <2>3
<1>9. p = "waits" /\ turn'.offers = TRUE => ~m.offered
  <2>1. ASSUME p = "waits" PROVE ~Evening!WouldResign
    BY <2>1
  <2>2. ASSUME ~Evening!WouldResign PROVE turn'.offers = Evening!WouldOffer
    BY <1>1, <1>2, <2>2 DEF Turns
  <2> QED
    BY <1>6, <2>1, <2>2
<1>10. p \in {"resigns", "waits"}
  OBVIOUS
<1> HIDE DEF p, m
<1>11. EveningTypes'
  BY <1>1, <1>2, <1>3, <1>5, <1>7
     DEF EveningTypes, BoardsTyped, PlacesTyped, TurnTyped, UserTyped, TellerTyped
<1>12. SetApart' /\ Parked'
  BY <1>1, <1>3, <1>7, <1>10 DEF EveningInv, SetApart, Parked, Evening!Live, Busy
<1>13. AtHisBoard'
  BY <1>1, <1>3, <1>7, <1>8, <1>10 DEF EveningInv, AtHisBoard, Evening!Live, Busy
<1>14. ThinksOfIt'
  BY <1>1, <1>7, <1>10 DEF EveningInv, ThinksOfIt, Thinks, HisMove
<1>15. boards[table].asked => m.offered
  BY <1>1, <1>3 DEF EveningInv, Mannered, Offering, m
<1>16. ~Offering' /\ (WillOffer' => ~m.offered)
  BY <1>7, <1>9, <1>10 DEF Offering, WillOffer
<1>17. boards[table].asked => mood'[turn.id].offered
  BY <1>3, <1>5, <1>15 DEF m
<1>18. Mannered' /\ sins' = {}
  BY <1>1, <1>3, <1>7, <1>8, <1>15, <1>16, <1>17 DEF EveningInv, Mannered
<1> QED
  BY <1>11, <1>12, <1>13, <1>14, <1>18 DEF EveningInv

LEMMA EveningWaited == ASSUME EveningAssumption, EveningInv, Evening!Waited PROVE EveningInv'
<1> DEFINE p == IF Evening!StillLive THEN "moves" ELSE IF turn.offers THEN "offers" ELSE "leaves"
<1>1. /\ turn.at = "waits" /\ user.at \notin SetUps /\ turn' = [turn EXCEPT !.at = p]
      /\ UNCHANGED <<table, boards, saved, mood, user, teller, sins, settled>>
  BY DEF Evening!Waited, Evening!GoesOn, Evening!SettingUp, EveningAssumption, SetUps
<1>2. EveningTypes /\ p \in TurnPlaces
  BY DEF EveningInv, TurnPlaces, Busy
<1>3. p = "moves" => table # 0 /\ boards[table].id = turn.id
  BY DEF Evening!StillLive, Evening!SameGame, Evening!On
<1>4. p = "offers" => turn.offers = TRUE
  BY <1>2, Zenon DEF EveningTypes, TurnTyped, Turns
<1>5. p \in {"moves", "offers", "leaves"}
  OBVIOUS
<1> HIDE DEF p
<1>6. /\ turn' \in Turns /\ turn'.at = p /\ turn'.id = turn.id /\ turn'.board = turn.board
      /\ turn'.plies = turn.plies /\ turn'.offers = turn.offers
  BY <1>1, <1>2, TurnAt DEF EveningTypes
<1>7. EveningTypes'
  BY <1>1, <1>2, <1>6
     DEF EveningTypes, BoardsTyped, PlacesTyped, MoodTyped, TurnTyped, UserTyped, TellerTyped
<1>8. SetApart' /\ AtHisBoard' /\ Parked'
  BY <1>1, <1>3, <1>5, <1>6 DEF EveningInv, SetApart, AtHisBoard, Parked, Busy, Evening!Live
<1>9. ThinksOfIt'
  BY <1>1, <1>5, <1>6 DEF EveningInv, ThinksOfIt, Thinks, HisMove
<1>10. ~Offering /\ ~Offering' /\ (WillOffer' => WillOffer)
  BY <1>1, <1>4, <1>5, <1>6 DEF Offering, WillOffer
<1>11. Mannered' /\ sins' = {}
  BY <1>1, <1>5, <1>6, <1>10 DEF EveningInv, Mannered
<1> QED
  BY <1>7, <1>8, <1>9, <1>11 DEF EveningInv

\* What he did is written down on the board he did it to, which is still the one that is out.
LEMMA EveningTurnRecords == ASSUME EveningInv, Evening!TurnRecords PROVE EveningInv'
<1>1. /\ turn.at = "records" /\ table # 0 /\ turn.board = table /\ boards[table].id = turn.id
      /\ saved' = Evening!Page(boards[table])
      /\ turn' = IF turn.then = "idle" THEN Evening!Resting ELSE [turn EXCEPT !.at = turn.then]
      /\ UNCHANGED <<table, boards, mood, user, teller, sins, settled>>
  <2>1. turn.at = "records" /\ table # 0 /\ turn.board = table /\ boards[table].id = turn.id
    BY DEF Evening!TurnRecords, EveningInv, AtHisBoard, Busy
  <2> QED
    BY <2>1 DEF Evening!TurnRecords, Evening!Park, Evening!On
<1>2. EveningTypes /\ table \in 1..Len(boards) /\ boards[table] \in BoardRec
        /\ boards[table].id <= Len(boards)
  BY <1>1 DEF EveningInv, EveningTypes, PlacesTyped, BoardsTyped
<1>3. /\ turn.then \in {"idle", "minds", "offers", "leaves", "offered"} /\ turn.then \in TurnPlaces
      /\ turn'.at = turn.then /\ turn' \in Turns
      /\ turn.then # "idle" => /\ turn'.id = turn.id /\ turn'.plies = turn.plies
                               /\ turn'.board = table
      /\ turn.then = "idle" => turn'.id = 0
  <2>1. turn.then \in {"idle", "minds", "offers", "leaves", "offered"}
    BY <1>2 DEF EveningTypes, TurnTyped, Turns
  <2>2. turn.then \in TurnPlaces
    BY <2>1 DEF TurnPlaces, Busy
  <2>3. CASE turn.then = "idle"
    BY <1>1, <2>1, <2>2, <2>3, TurnRests
  <2>4. CASE turn.then # "idle"
    BY <1>1, <1>2, <2>1, <2>2, <2>4, TurnAt DEF EveningTypes
  <2> QED
    BY <2>1, <2>2, <2>3, <2>4
<1>4. user.at \notin SetUps
  BY <1>1 DEF EveningInv, SetApart
<1>5. saved' \in Pages /\ saved'.id = boards[table].id /\ saved'.plies = boards[table].plies
        /\ Evening!Seat(saved') = Evening!Seat(boards[table])
  BY <1>1, <1>2, PageIs
<1>6. EveningTypes'
  <2>1. BoardsTyped' /\ MoodTyped' /\ UserTyped' /\ TellerTyped'
    BY <1>1, <1>2 DEF EveningTypes, BoardsTyped, MoodTyped, UserTyped, TellerTyped
  <2>2. PlacesTyped'
    BY <1>1, <1>2, <1>5 DEF EveningTypes, PlacesTyped, BoardRec
  <2>3. TurnTyped'
    BY <1>1, <1>2, <1>3 DEF EveningTypes, TurnTyped
  <2> QED
    BY <2>1, <2>2, <2>3 DEF EveningTypes
<1>7. SetApart' /\ AtHisBoard' /\ Parked'
  BY <1>1, <1>3, <1>4 DEF EveningInv, SetApart, AtHisBoard, Parked, Busy, Evening!Live
<1>8. ThinksOfIt'
  BY <1>1, <1>3, <1>5 DEF EveningInv, ThinksOfIt, Thinks, HisMove
<1>9. Mannered' /\ sins' = {}
  <2>1. (Offering => Offering') /\ (WillOffer' => WillOffer) /\ turn'.at # "resigns"
          /\ (Offering => turn'.id = turn.id) /\ (WillOffer' => turn'.id = turn.id)
    BY <1>1, <1>3 DEF Offering, WillOffer
  <2> QED
    BY <1>1, <2>1 DEF EveningInv, Mannered
<1> QED
  BY <1>6, <1>7, <1>8, <1>9 DEF EveningInv

LEMMA EveningTurnEnds == ASSUME EveningAssumption, EveningInv, Evening!TurnEnds PROVE EveningInv'
<1>1. /\ turn.at \in {"offered", "leaves"} /\ turn' = Evening!Resting
      /\ mood' = IF turn.at = "offered" THEN [mood EXCEPT ![turn.id].offered = TRUE] ELSE mood
      /\ UNCHANGED <<table, boards, saved, user, teller, sins, settled>>
  BY DEF Evening!TurnEnds
<1>2. EveningTypes /\ turn' \in Turns /\ turn'.at = "idle" /\ turn'.id = 0
  BY <1>1, TurnRests DEF EveningInv
<1>3. turn.id \in Evening!Boards
  BY <1>1, <1>2 DEF EveningTypes, TurnTyped, Turns, BoardsTyped, Evening!Boards, EveningAssumption
<1>4. MoodTyped' /\ \A i \in Evening!Boards : mood[i].offered => mood'[i].offered
  BY <1>1, <1>2, <1>3 DEF EveningTypes, MoodTyped, Sized
<1>5. turn.at = "offered" => mood'[turn.id].offered
  BY <1>1, <1>2, <1>3 DEF EveningTypes, MoodTyped, Sized
<1>6. EveningTypes'
  BY <1>1, <1>2, <1>4
     DEF EveningTypes, BoardsTyped, PlacesTyped, TurnTyped, UserTyped, TellerTyped
<1>7. SetApart' /\ AtHisBoard' /\ Parked' /\ ThinksOfIt'
  BY <1>1, <1>2
     DEF EveningInv, SetApart, AtHisBoard, Parked, ThinksOfIt, Thinks, Busy, Evening!Live
<1>8. Mannered' /\ sins' = {}
  <2>1. ASSUME table # 0 PROVE boards[table].id \in Evening!Boards
    <3>1. boards[table] \in BoardRec /\ boards[table].id <= Len(boards)
      BY <1>2, <2>1 DEF EveningTypes, PlacesTyped, BoardsTyped
    <3> QED
      BY <1>2, <3>1 DEF EveningTypes, BoardsTyped, BoardRec, Evening!Boards, EveningAssumption
  <2>2. table # 0 /\ boards[table].asked => mood'[boards[table].id].offered
    BY <1>1, <1>4, <1>5, <2>1 DEF EveningInv, Mannered, Offering
  <2> QED
    BY <1>1, <1>2, <2>2 DEF EveningInv, Mannered, Offering, WillOffer
<1> QED
  BY <1>6, <1>7, <1>8 DEF EveningInv

-----------------------------------------------------------------------------
(* The user's requests, where they do nothing to a board.                  *)

LEMMA EveningQuiet ==
    ASSUME EveningAssumption, Evening!Asks
    PROVE  /\ user.at = "idle" /\ teller.at = "idle"
           /\ turn.at \in {"idle", "searches", "waits", "offers"}
           /\ table # 0 => Evening!Live(table) \/ settled = boards[table].id
BY DEF Evening!Asks, Evening!Quiet, EveningAssumption, Evening!On

LEMMA NoBoardIs ==
    /\ Evening!NoBoard \in [id : Nat, rau : Colours, plies : Nat, mate : Ends, over : Ends,
                            offer : {"nobody", "user", "rau"}, asked : BOOLEAN]
    /\ Evening!NoBoard.mate = "no" /\ Evening!NoBoard.over = "no"
    /\ Evening!NoBoard.asked = FALSE
BY DEF Evening!NoBoard, Colours, Ends

LEMMA NewBoard ==
    ASSUME Len(boards) \in Nat, NEW c \in Colours, NEW b, b = Evening!SetUp(c)
    PROVE  b \in BoardRec /\ b.id = Len(boards) + 1 /\ b.over = "no" /\ b.asked = FALSE
<1> DEFINE n == Len(boards) + 1
<1>1. n \in Nat \ {0} /\ b = [Evening!NoBoard EXCEPT !.id = n, !.rau = c]
  BY DEF Evening!SetUp
<1> HIDE DEF n
<1>2. b \in BoardRec /\ b.id = n /\ b.over = "no" /\ b.asked = FALSE
  BY <1>1, NoBoardIs DEF BoardRec
<1> QED
  BY <1>2 DEF n

LEMMA RestoredBoard ==
    ASSUME saved.id \in Nat \ {0}, saved.rau \in Colours, saved.plies \in Nat,
           NEW b, b = Evening!Restored
    PROVE  /\ b \in BoardRec /\ b.id = saved.id /\ b.rau = saved.rau /\ b.plies = saved.plies
           /\ b.mate = "no" /\ b.over = "no" /\ b.asked = FALSE
BY NoBoardIs DEF BoardRec, Evening!Restored

SetsUp(b, p) ==
    /\ b \in BoardRec /\ b.id <= Len(boards) + 1 /\ b.over = "no" /\ b.asked = FALSE
    /\ p \in {"puts", "returns"} /\ boards' = Append(boards, b)
    /\ user' = [at |-> p, board |-> Len(boards) + 1, page |-> Evening!NoSave]
    /\ p = "puts" => b.id = Len(boards) + 1 /\ saved' \in {Evening!NoSave, saved}
    /\ p = "returns" => saved' = saved /\ saved = Evening!Page(b)

\* A board that is set up disturbs nothing before it is out.
LEMMA SetUpNext ==
    ASSUME EveningAssumption, EveningInv, ~Evening!Live(table), Len(boards) < MaxBoards,
           user.at = "idle", teller.at = "idle",
           turn.at \in {"idle", "searches", "waits", "offers"},
           table # 0 => Evening!Live(table) \/ settled = boards[table].id,
           NEW b, NEW p, SetsUp(b, p), UNCHANGED <<table, mood, turn, teller, sins, settled>>
    PROVE  EveningInv'
<1>1. EveningTypes /\ boards \in Seq(BoardRec) /\ Len(boards) \in Nat
  BY DEF EveningInv, EveningTypes, BoardsTyped
<1> USE DEF SetsUp
<1>2. /\ boards' \in Seq(BoardRec) /\ Len(boards') = Len(boards) + 1
      /\ boards'[Len(boards) + 1] = b /\ \A i \in 1..Len(boards) : boards'[i] = boards[i]
  BY <1>1
<1>3. table # 0 => table \in 1..Len(boards) /\ boards'[table] = boards[table]
  BY <1>1, <1>2 DEF EveningTypes, PlacesTyped
<1>4. /\ UserTyped' /\ user'.at = p /\ user'.board = Len(boards) + 1
  <2>1. p \in UserPlaces
    BY DEF UserPlaces, SetUps
  <2> QED
    BY <1>1, <2>1, EveningNames DEF UserTyped, Threading
<1>5. saved' \in {Evening!NoSave, saved}
  OBVIOUS
<1>6. EveningTypes'
  <2>1. BoardsTyped'
    <3>1. ASSUME NEW i \in 1..Len(boards') PROVE boards'[i].id <= Len(boards')
      <4>1. CASE i \in 1..Len(boards)
        <5>1. boards[i].id <= Len(boards) /\ boards[i] \in BoardRec
          BY <1>1, <4>1 DEF EveningTypes, BoardsTyped
        <5>2. boards[i].id \in Nat
          BY <5>1 DEF BoardRec
        <5> QED
          BY <1>1, <1>2, <4>1, <5>1, <5>2
      <4>2. CASE i = Len(boards) + 1
        BY <1>2, <4>2
      <4> QED
        BY <1>1, <1>2, <4>1, <4>2
    <3> QED
      BY <1>1, <1>2, <3>1 DEF EveningAssumption, BoardsTyped
  <2>2. PlacesTyped'
    BY <1>1, <1>2, <1>5, EveningNames DEF EveningTypes, PlacesTyped, Pages
  <2>3. TurnTyped'
    BY <1>1, <1>2 DEF EveningTypes, TurnTyped, Turns
  <2>4. MoodTyped' /\ TellerTyped'
    BY <1>1 DEF EveningTypes, MoodTyped, TellerTyped
  <2> QED
    BY <1>4, <2>1, <2>2, <2>3, <2>4 DEF EveningTypes
<1>7. p = "puts" => b.id # turn.id
  BY <1>1 DEF EveningTypes, TurnTyped, Turns
<1>8. SetApart'
  BY <1>1, <1>2, <1>3, <1>4, <1>7 DEF SetApart, Evening!Live
<1>9. AtHisBoard' /\ Parked'
  BY <1>3, <1>4 DEF AtHisBoard, Parked, Bookings, Busy
<1>10. ThinksOfIt'
  BY <1>3, <1>4 DEF EveningInv, ThinksOfIt, Thinks, HisMove
<1>11. Mannered' /\ sins' = {}
  BY <1>3 DEF EveningInv, Mannered, Offering, WillOffer
<1> QED
  BY <1>6, <1>8, <1>9, <1>10, <1>11 DEF EveningInv

\* A parked game comes back as it was, and another one has an id of its own.
LEMMA EveningPress == ASSUME EveningAssumption, EveningInv, Evening!Press PROVE EveningInv'
<1> DEFINE back == Evening!ComesBack
           b == IF back THEN Evening!Restored ELSE Evening!SetUp(Evening!NextColour)
           p == IF back THEN "returns" ELSE "puts"
           n == Len(boards) + 1
<1>1. /\ ~Evening!Live(table) /\ Len(boards) < MaxBoards
      /\ boards' = Append(boards, b) /\ user' = [Evening!Idle EXCEPT !.board = n, !.at = p]
      /\ saved' = IF table = 0 /\ ~back THEN Evening!NoSave ELSE saved
      /\ UNCHANGED <<table, mood, turn, teller, sins, settled>>
  BY DEF Evening!Press
<1>2. /\ user.at = "idle" /\ teller.at = "idle"
      /\ turn.at \in {"idle", "searches", "waits", "offers"}
      /\ table # 0 => Evening!Live(table) \/ settled = boards[table].id
  BY EveningQuiet DEF Evening!Press
<1>3. EveningTypes
  BY DEF EveningInv
<1>4. CASE ~back
  <2>1. Evening!NextColour \in Colours /\ n \in Nat \ {0} /\ Len(boards) \in Nat
    BY <1>3 DEF Evening!NextColour, Colours, EveningTypes, BoardsTyped
  <2>3. /\ b = Evening!SetUp(Evening!NextColour) /\ boards' = Append(boards, b) /\ p = "puts"
        /\ saved' \in {Evening!NoSave, saved}
        /\ user' = [at |-> "puts", board |-> n, page |-> Evening!NoSave]
    BY <1>1, <1>4 DEF Evening!Idle
  <2> HIDE DEF n, b, p
  <2>4. b \in BoardRec /\ b.id = n /\ b.over = "no" /\ b.asked = FALSE
    BY <2>1, <2>3, NewBoard DEF n
  <2>5. SetsUp(b, p)
    BY <2>1, <2>3, <2>4 DEF SetsUp, n
  <2> QED
    BY <1>1, <1>2, <2>5, SetUpNext
<1>5. CASE back
  <2>1. /\ saved \in Pages /\ saved.id <= Len(boards) /\ saved.over = "no" /\ saved.id # 0
    BY <1>3, <1>5 DEF EveningTypes, PlacesTyped, BoardsTyped, Evening!ComesBack
  <2>2. saved.id \in Nat \ {0} /\ saved.rau \in Colours /\ saved.plies \in Nat
    BY <2>1 DEF Pages
  <2>3. /\ b = Evening!Restored /\ saved' = saved /\ p = "returns" /\ boards' = Append(boards, b)
        /\ user' = [at |-> "returns", board |-> n, page |-> Evening!NoSave]
    BY <1>1, <1>5 DEF Evening!Idle
  <2> HIDE DEF n, b, p
  <2>4. /\ b \in BoardRec /\ b.id = saved.id /\ b.over = "no" /\ b.asked = FALSE
        /\ b.rau = saved.rau /\ b.plies = saved.plies /\ b.mate = "no"
    BY <2>2, <2>3, RestoredBoard
  <2>5. saved = Evening!Page(b)
    BY <2>1, <2>4 DEF Pages, Evening!Page
  <2>6. b.id <= Len(boards) + 1
    BY <1>3, <2>1, <2>4 DEF Pages, EveningTypes, BoardsTyped
  <2>7. SetsUp(b, p)
    BY <2>3, <2>4, <2>5, <2>6 DEF SetsUp, n
  <2> QED
    BY <1>1, <1>2, <2>7, SetUpNext
<1> QED
  BY <1>4, <1>5

LEMMA EveningOpen == ASSUME EveningInv, Evening!Open PROVE EveningInv'
<1> DEFINE p == IF user.at = "puts" THEN "resets" ELSE "recalls"
<1>1. /\ user.at \in {"puts", "returns"} /\ table' = user.board
      /\ user' = [user EXCEPT !.at = p]
      /\ UNCHANGED <<boards, saved, mood, turn, teller, sins, settled>>
  BY DEF Evening!Open
<1>2. /\ EveningTypes /\ turn.at \in {"idle", "searches", "waits", "offers"}
      /\ teller.at = "idle" /\ user.board \in 1..Len(boards) /\ Evening!Live(user.board)
      /\ ~boards[user.board].asked /\ boards[user.board] \in BoardRec
      /\ user.at = "returns" => saved = Evening!Page(boards[user.board])
      /\ user.at = "puts" => boards[user.board].id # turn.id
  BY <1>1 DEF EveningInv, SetApart, SetUps, EveningTypes, BoardsTyped
<1>3. p \in {"resets", "recalls"} /\ p \in UserPlaces /\ (p = "recalls" => user.at = "returns")
        /\ p \in SetUps /\ p \notin {"idle", "records", "puts", "returns", "writes"}
        /\ p \notin Bookings
  BY <1>1 DEF UserPlaces, SetUps, Bookings
<1> HIDE DEF p
<1>4. UserTyped' /\ user'.at = p /\ user'.board = user.board
  BY <1>1, <1>2, <1>3, UserAt DEF EveningTypes
<1>5. EveningTypes'
  BY <1>1, <1>2, <1>4
     DEF EveningTypes, BoardsTyped, PlacesTyped, MoodTyped, TurnTyped, TellerTyped
<1>6. SetApart'
  BY <1>1, <1>2, <1>3, <1>4 DEF SetApart, Evening!Live
<1>7. AtHisBoard' /\ Parked'
  BY <1>1, <1>2, <1>3, <1>4 DEF AtHisBoard, Parked, Busy
<1>8. ThinksOfIt'
  <2>1. ASSUME Thinks PROVE HisMove(boards[user.board])
    <3>1. CASE user.at = "puts"
      BY <1>2, <3>1 DEF HisMove
    <3>2. CASE user.at = "returns"
      <4>1. HisMove(saved)
        BY <2>1, <3>2 DEF EveningInv, ThinksOfIt
      <4> QED
        BY <1>2, <3>2, <4>1, PageIs DEF HisMove
    <3> QED
      BY <1>1, <3>1, <3>2
  <2>2. ASSUME Thinks, p = "recalls" PROVE HisMove(saved)
    BY <1>3, <2>2 DEF EveningInv, ThinksOfIt
  <2> QED
    BY <1>1, <1>3, <1>4, <2>1, <2>2 DEF ThinksOfIt, Thinks, HisMove
<1>9. Mannered' /\ sins' = {}
  BY <1>1, <1>2 DEF EveningInv, Mannered, Offering, WillOffer
<1> QED
  BY <1>5, <1>6, <1>7, <1>8, <1>9 DEF EveningInv

LEMMA EveningReset == ASSUME EveningInv, Evening!Reset PROVE EveningInv'
<1>1. /\ user.at \in {"resets", "recalls"} /\ mood' = [i \in Evening!Boards |-> Evening!Calm]
      /\ user' = IF user.at = "resets" THEN [user EXCEPT !.at = "parks"] ELSE Evening!Idle
      /\ UNCHANGED <<table, boards, saved, turn, teller, sins, settled>>
  BY DEF Evening!Reset
<1>2. /\ EveningTypes /\ turn.at \in {"idle", "searches", "waits", "offers"}
      /\ teller.at = "idle" /\ table = user.board /\ ~boards[table].asked
      /\ table \in 1..Len(boards) /\ Evening!Live(table) /\ boards[table] \in BoardRec
      /\ user.at = "recalls" => saved = Evening!Page(boards[table])
  BY <1>1 DEF EveningInv, SetApart, SetUps, EveningTypes, BoardsTyped
<1>3. /\ UserTyped'
      /\ \/ user'.at = "parks" /\ user'.board = user.board
         \/ user'.at = "idle" /\ user.at = "recalls"
  <2>1. "parks" \in UserPlaces
    BY DEF UserPlaces, SetUps
  <2> QED
    BY <1>1, <1>2, <2>1, UserAt, UserIdle DEF EveningTypes
<1>4. MoodTyped'
  BY <1>1 DEF MoodTyped, Sized, Evening!Calm
<1>5. EveningTypes'
  BY <1>1, <1>2, <1>3, <1>4
     DEF EveningTypes, BoardsTyped, PlacesTyped, TurnTyped, TellerTyped
<1>6. SetApart' /\ AtHisBoard' /\ Parked'
  BY <1>1, <1>2, <1>3 DEF SetApart, AtHisBoard, Parked, SetUps, Bookings, Busy, Evening!Live
<1>7. ThinksOfIt'
  BY <1>1, <1>3 DEF EveningInv, ThinksOfIt, Thinks, HisMove
<1>8. Mannered' /\ sins' = {}
  BY <1>1, <1>2 DEF EveningInv, Mannered, Offering, WillOffer
<1> QED
  BY <1>5, <1>6, <1>7, <1>8 DEF EveningInv

LEMMA EveningCopy == ASSUME EveningInv, Evening!Copy PROVE EveningInv'
<1>1. /\ user.at = "parks"
      /\ user' = [user EXCEPT !.at = "writes", !.page = Evening!Page(boards[user.board])]
      /\ UNCHANGED <<table, boards, saved, mood, turn, teller, sins, settled>>
  BY DEF Evening!Copy, Evening!On
<1>2. /\ EveningTypes /\ user.board \in 1..Len(boards) /\ boards[user.board] \in BoardRec
  BY <1>1 DEF EveningInv, SetApart, SetUps, EveningTypes, BoardsTyped
<1>3. /\ UserTyped' /\ user'.at = "writes" /\ user'.board = user.board
      /\ user'.page = Evening!Page(boards[user.board])
  BY <1>1, <1>2, PageIs DEF EveningTypes, UserTyped, Threading, UserPlaces, SetUps
<1>4. EveningTypes'
  BY <1>1, <1>2, <1>3
     DEF EveningTypes, BoardsTyped, PlacesTyped, MoodTyped, TurnTyped, TellerTyped
<1>5. SetApart' /\ AtHisBoard' /\ Parked'
  BY <1>1, <1>3 DEF EveningInv, SetApart, AtHisBoard, Parked, SetUps, Bookings, Busy, Evening!Live
<1>6. ThinksOfIt' /\ Mannered' /\ sins' = {}
  BY <1>1, <1>3 DEF EveningInv, ThinksOfIt, Thinks, HisMove, Mannered, Offering, WillOffer
<1> QED
  BY <1>4, <1>5, <1>6 DEF EveningInv

\* What is written is the position of the board that is out.
LEMMA EveningWrites ==
    ASSUME EveningInv, table # 0, user.at \in {"writes", "records"},
           saved' = Evening!Page(boards[table]), user' = Evening!Idle,
           UNCHANGED <<table, boards, mood, turn, teller, sins, settled>>
    PROVE  EveningInv'
<1>1. EveningTypes /\ table \in 1..Len(boards) /\ boards[table] \in BoardRec
        /\ boards[table].id <= Len(boards)
  BY DEF EveningInv, EveningTypes, PlacesTyped, BoardsTyped
<1>2. UserTyped' /\ user'.at = "idle"
  BY UserIdle
<1>3. saved' \in Pages /\ saved'.id = boards[table].id /\ saved'.plies = boards[table].plies
        /\ Evening!Seat(saved') = Evening!Seat(boards[table])
  BY <1>1, PageIs
<1>4. EveningTypes'
  BY <1>1, <1>2, <1>3
     DEF EveningTypes, BoardsTyped, PlacesTyped, MoodTyped, TurnTyped, TellerTyped, BoardRec
<1>5. SetApart' /\ AtHisBoard' /\ Parked'
  BY <1>2 DEF EveningInv, SetApart, AtHisBoard, Parked, SetUps, Bookings, Evening!Live
<1>6. ThinksOfIt'
  BY <1>3 DEF EveningInv, ThinksOfIt, Thinks, HisMove
<1>7. Mannered' /\ sins' = {}
  BY DEF EveningInv, Mannered, Offering, WillOffer
<1> QED
  BY <1>4, <1>5, <1>6, <1>7 DEF EveningInv

LEMMA EveningWrite == ASSUME EveningInv, Evening!Write PROVE EveningInv'
<1>1. table # 0 /\ user.page = Evening!Page(boards[table])
  BY DEF Evening!Write, EveningInv, SetApart, SetUps, EveningTypes, BoardsTyped
<1> QED
  BY <1>1, EveningWrites DEF Evening!Write

LEMMA EveningUserRecords == ASSUME EveningInv, Evening!UserRecords PROVE EveningInv'
<1>1. table # 0 /\ user.board = table
  BY DEF Evening!UserRecords, EveningInv, AtHisBoard
<1> QED
  BY <1>1, EveningWrites DEF Evening!UserRecords, Evening!Park, Evening!On

LEMMA EveningPutAway == ASSUME EveningAssumption, EveningInv, Evening!PutAway PROVE EveningInv'
<1>1. /\ table' = 0 /\ table # 0
      /\ user' = IF Evening!Live(table) THEN Evening!Idle
                 ELSE [Evening!Idle EXCEPT !.at = "claims", !.board = table]
      /\ UNCHANGED <<boards, saved, mood, turn, teller, sins, settled>>
  BY DEF Evening!PutAway
<1>2. user.at = "idle" /\ teller.at = "idle"
        /\ turn.at \in {"idle", "searches", "waits", "offers"} /\ EveningTypes
  BY EveningQuiet DEF Evening!PutAway, EveningInv
<1>3. UserTyped' /\ user'.at \in {"idle", "claims"}
  <2>1. CASE Evening!Live(table)
    BY <1>1, <2>1, UserIdle
  <2>2. CASE ~Evening!Live(table)
    BY <1>1, <1>2, <2>2, EveningNames
       DEF EveningTypes, PlacesTyped, UserTyped, Threading, UserPlaces, Bookings, Evening!Idle
  <2> QED
    BY <2>1, <2>2
<1>4. EveningTypes'
  BY <1>1, <1>2, <1>3
     DEF EveningTypes, BoardsTyped, PlacesTyped, MoodTyped, TurnTyped, TellerTyped
<1>5. SetApart' /\ AtHisBoard' /\ Parked'
  BY <1>1, <1>2, <1>3 DEF SetApart, AtHisBoard, Parked, SetUps, Busy, Evening!Live
<1>6. ThinksOfIt' /\ Mannered' /\ sins' = {}
  BY <1>1, <1>2, <1>3 DEF EveningInv, ThinksOfIt, Thinks, HisMove, Mannered
<1> QED
  BY <1>4, <1>5, <1>6 DEF EveningInv

-----------------------------------------------------------------------------
(* A board is acted on: by the user, by Rau.                               *)

LEMMA EveningUserActs == ASSUME EveningAssumption, EveningInv, Evening!UserActs PROVE EveningInv'
<1>1. /\ Evening!Live(table) /\ user' = [Evening!Idle EXCEPT !.at = "records", !.board = table]
      /\ UNCHANGED <<table, saved, mood, turn, teller, sins, settled>>
  BY DEF Evening!UserActs
<1>2. /\ user.at = "idle" /\ teller.at = "idle"
      /\ turn.at \in {"idle", "searches", "waits", "offers"} /\ EveningTypes
  BY EveningQuiet DEF Evening!UserActs, EveningInv
<1>3. table # 0 /\ table \in 1..Len(boards) /\ boards[table] \in BoardRec
  BY <1>1, <1>2, OnTheTable
<1>4. PICK b \in Evening!Acts(boards[table], "user") : boards' = [boards EXCEPT ![table] = b]
  BY EveningNames DEF Evening!UserActs, Evening!On
<1>5. Later(boards[table], b, "user")
  BY <1>3, <1>4, ActsAreLater
<1>6. /\ BoardsTyped' /\ Len(boards') = Len(boards) /\ boards'[table] = b
  <2>1. b \in BoardRec /\ b.id = boards[table].id
    BY <1>5 DEF Later
  <2> QED
    BY <1>2, <1>3, <1>4, <2>1, BoardReplaced DEF EveningTypes, BoardsTyped
<1>7. UserTyped' /\ user'.at = "records" /\ user'.board = table
  <2>1. user' = [at |-> "records", board |-> table, page |-> Evening!NoSave] /\ table \in Nat
    BY <1>1, <1>2 DEF Evening!Idle, EveningTypes, PlacesTyped
  <2> QED
    BY <2>1, EveningNames DEF UserTyped, Threading, UserPlaces
<1>8. EveningTypes'
  BY <1>1, <1>2, <1>6, <1>7
     DEF EveningTypes, PlacesTyped, MoodTyped, TurnTyped, TellerTyped
<1>9. SetApart' /\ AtHisBoard' /\ Parked'
  BY <1>1, <1>2, <1>3, <1>7 DEF SetApart, AtHisBoard, Parked, SetUps, Bookings, Busy
<1>10. ThinksOfIt'
  <2>1. ASSUME HisMove(boards[table]) PROVE HisMove(b)
    BY <1>5, <2>1, SameSeat DEF HisMove, Later
  <2> QED
    BY <1>1, <1>3, <1>6, <1>7, <2>1 DEF EveningInv, ThinksOfIt, Thinks, HisMove
<1>11. Mannered' /\ sins' = {}
  BY <1>1, <1>2, <1>3, <1>5, <1>6 DEF EveningInv, Mannered, Offering, WillOffer, Later
<1> QED
  BY <1>8, <1>9, <1>10, <1>11 DEF EveningInv

\* Rau does something to the live board that is out, and will write it down.
DoneByRau(c, goOn) ==
    /\ c \in BoardRec /\ c.id = boards[table].id
    /\ boards[table].id = turn.id /\ turn.at # "idle"
    /\ goOn \in {"idle", "minds", "offers", "leaves", "offered"}
    /\ goOn = "minds" => /\ turn.at = "acts" /\ c.plies = boards[table].plies
                         /\ c.rau = boards[table].rau
    /\ goOn # "offered" => c.asked = boards[table].asked
    /\ goOn = "offers" => WillOffer
    /\ ~Offering
    /\ boards' = [boards EXCEPT ![table] = c]
    /\ turn' = [turn EXCEPT !.at = "records", !.board = table, !.then = goOn]

LEMMA EveningDoes ==
    ASSUME EveningInv, Evening!Live(table), user.at \notin SetUps, sins' = sins,
           NEW c, NEW goOn, DoneByRau(c, goOn),
           UNCHANGED <<table, saved, mood, user, teller, settled>>
    PROVE  EveningInv'
<1>1. EveningTypes /\ table # 0 /\ table \in 1..Len(boards) /\ boards[table] \in BoardRec
  BY OnTheTable DEF EveningInv
<1>2. /\ BoardsTyped' /\ Len(boards') = Len(boards) /\ boards'[table] = c
  BY <1>1, BoardReplaced DEF EveningTypes, BoardsTyped, DoneByRau
<1>3. /\ turn' \in Turns /\ turn'.at = "records" /\ turn'.id = turn.id /\ turn'.board = table
      /\ turn'.plies = turn.plies /\ turn'.then = goOn
  <2>1. /\ turn \in Turns /\ table \in Nat /\ "records" \in TurnPlaces
        /\ goOn \in {"idle", "minds", "offers", "leaves", "offered"}
        /\ turn' = [turn EXCEPT !.at = "records", !.board = table, !.then = goOn]
    BY <1>1 DEF DoneByRau, EveningTypes, TurnTyped, PlacesTyped, TurnPlaces, Busy
  <2> QED
    BY <2>1 DEF Turns
<1>4. teller.at = "idle"
  BY DEF EveningInv, AtHisBoard
<1>5. EveningTypes'
  BY <1>1, <1>2, <1>3
     DEF EveningTypes, PlacesTyped, MoodTyped, TurnTyped, UserTyped, TellerTyped, DoneByRau
<1>6. SetApart' /\ AtHisBoard' /\ Parked'
  BY <1>1, <1>2, <1>3, <1>4
     DEF EveningInv, SetApart, AtHisBoard, Parked, SetUps, Bookings, DoneByRau, Evening!Live
<1>7. ThinksOfIt'
  <2>1. ASSUME goOn = "minds" PROVE Thinks /\ HisMove(c)
    <3>1. Thinks /\ HisMove(boards[table])
      BY <1>1, <2>1 DEF EveningInv, ThinksOfIt, Thinks, DoneByRau
    <3> QED
      BY <2>1, <3>1, SameSeat DEF HisMove, DoneByRau
  <2> QED
    BY <1>1, <1>2, <1>3, <2>1 DEF EveningInv, ThinksOfIt, Thinks, HisMove
<1>8. Mannered'
  <2>1. goOn # "offered" /\ c.asked => mood[c.id].offered
    BY <1>1 DEF EveningInv, Mannered, DoneByRau
  <2>2. goOn = "offers" => ~c.asked
    BY <1>1 DEF EveningInv, Mannered, DoneByRau
  <2>3. c.id = turn'.id /\ ~(turn'.at = "resigns") /\ (goOn = "offered" => Offering')
          /\ (WillOffer' => goOn = "offers")
    BY <1>3 DEF DoneByRau, Offering, WillOffer
  <2> QED
    BY <1>1, <1>2, <1>3, <2>1, <2>2, <2>3 DEF Mannered
<1> QED
  BY <1>5, <1>6, <1>7, <1>8 DEF EveningInv

LEMMA TurnNowAt ==
    ASSUME EveningInv, NEW p \in TurnPlaces, turn' = [turn EXCEPT !.at = p],
           turn.at \in {"acts", "moves"}, p \in {"minds", "offers", "leaves"},
           p = "offers" => turn.offers = TRUE, ~Offering, p = "minds" => turn.at = "acts",
           UNCHANGED <<table, boards, saved, mood, user, teller, sins, settled>>,
           p = "offers" => turn.at = "moves"
    PROVE  EveningInv'
<1>1. /\ turn' \in Turns /\ turn'.at = p /\ turn'.id = turn.id /\ turn'.board = turn.board
      /\ turn'.plies = turn.plies /\ turn'.offers = turn.offers
  BY TurnAt DEF EveningInv, EveningTypes
<1>2. EveningTypes'
  BY <1>1
     DEF EveningInv, EveningTypes, BoardsTyped, PlacesTyped, MoodTyped, TurnTyped, UserTyped,
         TellerTyped, Busy
<1>3. SetApart' /\ AtHisBoard' /\ Parked'
  BY <1>1 DEF EveningInv, SetApart, AtHisBoard, Parked, Busy, Evening!Live
<1>4. ThinksOfIt'
  BY <1>1 DEF EveningInv, ThinksOfIt, Thinks, HisMove
<1>5. (WillOffer' => WillOffer) /\ ~Offering'
  BY <1>1 DEF WillOffer, Offering
<1>6. Mannered' /\ sins' = {}
  BY <1>1, <1>5 DEF EveningInv, Mannered
<1> QED
  BY <1>2, <1>3, <1>4, <1>6 DEF EveningInv

\* He answers the user's offer: takes it, refuses it, or finds it gone.
LEMMA EveningAnswer == ASSUME EveningInv, Evening!Answer PROVE EveningInv'
<1>1. /\ turn.at = "acts" /\ UNCHANGED <<table, saved, mood, user, teller, sins, settled>>
  BY DEF Evening!Answer
<1>2. /\ EveningTypes /\ table # 0 /\ boards[table].id = turn.id /\ user.at \notin SetUps
      /\ ~Offering
  BY <1>1 DEF EveningInv, AtHisBoard, SetApart, Busy, Offering
<1>3. CASE turn' = [turn EXCEPT !.at = "minds"] /\ UNCHANGED boards
  BY <1>1, <1>2, <1>3, TurnNowAt DEF TurnPlaces, Busy
<1>4. CASE /\ Evening!Live(table)
           /\ \E goOn \in {"idle", "minds"},
                 c \in {Evening!Ended(boards[table], "draw"),
                        [boards[table] EXCEPT !.offer = "nobody"]} :
                     Evening!RauDoes(c, goOn)
  <2>1. PICK goOn \in {"idle", "minds"},
              c \in {Evening!Ended(boards[table], "draw"),
                     [boards[table] EXCEPT !.offer = "nobody"]} :
                  Evening!RauDoes(c, goOn)
    BY <1>4
  <2>2. boards[table] \in BoardRec
    BY <1>2, <1>4, OnTheTable
  <2>3. /\ c \in BoardRec /\ c.id = boards[table].id /\ c.plies = boards[table].plies
        /\ c.rau = boards[table].rau /\ c.asked = boards[table].asked
    <3>1. CASE c = Evening!Ended(boards[table], "draw")
      BY <2>2, <3>1, EndedIs DEF Ends
    <3>2. CASE c = [boards[table] EXCEPT !.offer = "nobody"]
      BY <2>2, <3>2 DEF BoardRec
    <3> QED
      BY <3>1, <3>2
  <2>4. DoneByRau(c, goOn)
    BY <1>1, <1>2, <2>1, <2>3 DEF DoneByRau, Evening!RauDoes
  <2> QED
    BY <1>1, <1>2, <1>4, <2>4, EveningDoes
<1> QED
  BY <1>3, <1>4, Zenon DEF Evening!Answer, Evening!On

LEMMA EveningResign == ASSUME EveningInv, Evening!Resign PROVE EveningInv'
<1>1. turn.at = "resigns" /\ UNCHANGED <<table, saved, mood, user, teller, settled>>
  BY DEF Evening!Resign
<1>2. /\ EveningTypes /\ table # 0 /\ boards[table].id = turn.id /\ user.at \notin SetUps
      /\ ~Offering /\ boards[table].plies >= ResignPly
  BY <1>1 DEF EveningInv, AtHisBoard, SetApart, Busy, Offering, Mannered
<1>3. CASE Evening!Live(table)
  <2>1. boards[table] \in BoardRec
    BY <1>2, <1>3, OnTheTable
  <2>2. Evening!RauDoes(Evening!Ended(boards[table], "user"), "idle") /\ sins' = sins
    BY <1>2, <1>3, EveningNames DEF Evening!Resign, Evening!On
  <2>3. DoneByRau(Evening!Ended(boards[table], "user"), "idle")
    BY <1>1, <1>2, <2>1, <2>2, EndedIs DEF DoneByRau, Evening!RauDoes, Ends
  <2> QED
    BY <1>1, <1>2, <1>3, <2>2, <2>3, EveningDoes
<1>4. CASE ~Evening!Live(table)
  BY <1>1, <1>4, EveningRests DEF Evening!Resign
<1> QED
  BY <1>3, <1>4

\* The move lands: nobody moved a piece of this game since he began to think.
LEMMA EveningLand == ASSUME EveningInv, Evening!Land PROVE EveningInv'
<1> DEFINE goOn == IF turn.offers THEN "offers" ELSE "leaves"
<1>1. turn.at = "moves" /\ UNCHANGED <<table, saved, mood, user, teller, settled>>
  BY DEF Evening!Land
<1>2. /\ EveningTypes /\ table # 0 /\ boards[table].id = turn.id /\ user.at \notin SetUps
      /\ ~Offering /\ HisMove(boards[table])
  BY <1>1 DEF EveningInv, AtHisBoard, SetApart, Busy, Offering, ThinksOfIt, Thinks
<1>3. (goOn = "offers" => turn.offers = TRUE) /\ goOn \in {"offers", "leaves"}
  BY <1>2, Zenon DEF EveningTypes, TurnTyped, Turns
<1>4. CASE Evening!Live(table) /\ Evening!Seat(boards[table]) = "rau"
  <2>1. boards[table] \in BoardRec
    BY <1>2, <1>4, OnTheTable
  <2>2. PICK c \in Evening!Moves(boards[table], "rau") : Evening!RauDoes(c, goOn)
    BY <1>4, EveningNames DEF Evening!Land, Evening!On
  <2>3. sins' = sins
    BY <1>2, <1>4, EveningNames DEF Evening!Land, Evening!On, Evening!SameGame, HisMove
  <2>4. Later(boards[table], c, "rau")
    BY <1>4, <2>1, MovesAreLater
  <2>5. goOn = "offers" => WillOffer
    BY <1>1, <1>3 DEF WillOffer
  <2> HIDE DEF goOn
  <2>6. DoneByRau(c, goOn)
    BY <1>1, <1>2, <1>3, <2>2, <2>4, <2>5 DEF DoneByRau, Later, Evening!RauDoes
  <2> QED
    BY <1>1, <1>2, <1>4, <2>3, <2>6, EveningDoes
<1>5. CASE ~(Evening!Live(table) /\ Evening!Seat(boards[table]) = "rau")
  <2>1. turn' = [turn EXCEPT !.at = goOn] /\ UNCHANGED <<boards, sins>>
    BY <1>5, EveningNames DEF Evening!Land, Evening!On, Evening!Refused
  <2> HIDE DEF goOn
  <2> QED
    BY <1>1, <1>2, <1>3, <2>1, TurnNowAt DEF TurnPlaces, Busy
<1> QED
  BY <1>4, <1>5

LEMMA EveningOffers == ASSUME EveningAssumption, EveningInv, Evening!Offers PROVE EveningInv'
<1>1. turn.at = "offers" /\ user.at \notin SetUps
        /\ UNCHANGED <<table, saved, mood, user, teller, settled>>
  BY DEF Evening!Offers, Evening!GoesOn, Evening!SettingUp, EveningAssumption, SetUps
<1>2. EveningTypes /\ ~Offering /\ WillOffer
  BY <1>1 DEF EveningInv, Offering, WillOffer
<1>3. CASE Evening!MayOffer
  <2>1. /\ Evening!Live(table) /\ table # 0 /\ boards[table].id = turn.id
        /\ boards[table] \in BoardRec /\ ~boards[table].asked
    <3>1. Evening!Live(table) /\ table # 0 /\ boards[table].id = turn.id
      BY <1>3 DEF Evening!MayOffer, Evening!StillLive, Evening!SameGame, Evening!On
    <3> QED
      BY <1>2, <3>1, OnTheTable DEF EveningInv, Mannered
  <2> DEFINE o == Evening!OfferDraw(boards[table], "rau")
             c == [o EXCEPT !.asked = TRUE]
  <2>2. Evening!RauDoes(c, "offered") /\ sins' = sins
    BY <1>3, <2>1, EveningNames DEF Evening!Offers, Evening!On
  <2>3. o \in BoardRec /\ o.id = boards[table].id
    BY <2>1, OfferIs
  <2> HIDE DEF o
  <2>4. c \in BoardRec /\ c.id = boards[table].id
    BY <2>3 DEF BoardRec
  <2> HIDE DEF c
  <2>5. DoneByRau(c, "offered")
    BY <1>1, <1>2, <2>1, <2>2, <2>4 DEF DoneByRau, Evening!RauDoes
  <2> QED
    BY <1>1, <2>1, <2>2, <2>5, EveningDoes
<1>4. CASE ~Evening!MayOffer
  BY <1>1, <1>4, EveningRests DEF Evening!Offers
<1> QED
  BY <1>3, <1>4

-----------------------------------------------------------------------------
(* The booking of a result, and a restart.                                 *)

LEMMA EveningPumpSees == ASSUME EveningInv, Evening!PumpSees PROVE EveningInv'
<1>1. /\ teller.at = "idle" /\ table # 0 /\ ~Evening!Live(table) /\ settled # boards[table].id
      /\ teller' = [Evening!Idle EXCEPT !.at = "claims", !.board = table]
      /\ UNCHANGED <<table, boards, saved, mood, user, turn, sins, settled>>
  BY DEF Evening!PumpSees, Evening!On
<1>2. EveningTypes
  BY DEF EveningInv
<1>3. TellerTyped' /\ teller'.at = "claims"
  <2>1. teller' = [at |-> "claims", board |-> table, page |-> Evening!NoSave] /\ table \in Nat
    BY <1>1, <1>2 DEF Evening!Idle, EveningTypes, PlacesTyped
  <2> QED
    BY <2>1, EveningNames DEF TellerTyped, Threading, Bookings
<1>4. EveningTypes'
  BY <1>1, <1>2, <1>3
     DEF EveningTypes, BoardsTyped, PlacesTyped, MoodTyped, TurnTyped, UserTyped
<1>5. user.at \notin SetUps
  BY <1>1 DEF EveningInv, SetApart
<1>6. SetApart' /\ AtHisBoard' /\ Parked' /\ ThinksOfIt' /\ Mannered' /\ sins' = {}
  BY <1>1, <1>3, <1>5
     DEF EveningInv, SetApart, AtHisBoard, Parked, ThinksOfIt, Thinks, HisMove, Mannered,
         Offering, WillOffer, Evening!Live
<1> QED
  BY <1>4, <1>6 DEF EveningInv

LEMMA EveningFinishes ==
    ASSUME EveningInv, Evening!PumpFinishes \/ Evening!UserFinishes PROVE EveningInv'
<1> DEFINE TellerGoesOn ==
               /\ teller.at \in Bookings /\ teller'.at \in Bookings \union {"idle"}
               /\ TellerTyped' /\ user' = user
           UserGoesOn ==
               /\ user.at \in Bookings /\ user'.at \in Bookings \union {"idle"}
               /\ UserTyped' /\ teller' = teller
<1>1. /\ saved' \in {saved, Evening!NoSave} /\ UNCHANGED <<table, boards, mood, turn, sins>>
  BY DEF Evening!PumpFinishes, Evening!UserFinishes, Evening!Finish, Evening!FinishRest
<1>2. EveningTypes
  BY DEF EveningInv
<1>3. TellerGoesOn \/ UserGoesOn
  <2>1. CASE Evening!PumpFinishes
    <3>1. \/ /\ teller.at = "claims"
             /\ teller' = Evening!Idle \/ teller' = [teller EXCEPT !.at = "books"]
          \/ teller.at = "books" /\ teller' = [teller EXCEPT !.at = "clears"]
          \/ teller.at = "clears" /\ teller' = Evening!Idle
      BY <2>1 DEF Evening!PumpFinishes, Evening!Finish, Evening!Claimed, Evening!Booked
    <3>2. user' = user /\ Evening!Idle.at = "idle"
      BY <2>1, EveningNames DEF Evening!PumpFinishes
    <3>3. Evening!Idle \in Threading(Bookings \union {"idle"})
      BY EveningNames DEF Threading, Evening!Idle
    <3> QED
      BY <1>2, <3>1, <3>2, <3>3 DEF EveningTypes, TellerTyped, Threading, Bookings
  <2>2. CASE Evening!UserFinishes
    <3>1. \/ user.at = "claims" /\ (user' = Evening!Idle \/ user' = [user EXCEPT !.at = "books"])
          \/ user.at = "books" /\ user' = [user EXCEPT !.at = "clears"]
          \/ user.at = "clears" /\ user' = Evening!Idle
      BY <2>2 DEF Evening!UserFinishes, Evening!Finish, Evening!Claimed, Evening!Booked
    <3>2. teller' = teller
      BY <2>2 DEF Evening!UserFinishes
    <3>3. "books" \in UserPlaces /\ "clears" \in UserPlaces
      BY DEF UserPlaces, Bookings
    <3> QED
      BY <1>2, <3>1, <3>2, <3>3, UserAt, UserIdle DEF EveningTypes, Bookings
  <2> QED
    BY <2>1, <2>2
<1>4. user.at \notin SetUps /\ user'.at \notin SetUps /\ ~Evening!Live(table)
  BY <1>3 DEF EveningInv, SetApart, AtHisBoard, SetUps, Bookings, Evening!Live
<1>5. EveningTypes'
  BY <1>1, <1>2, <1>3, EveningNames
     DEF EveningTypes, BoardsTyped, PlacesTyped, MoodTyped, TurnTyped, UserTyped, TellerTyped
<1>6. SetApart' /\ AtHisBoard' /\ Parked'
  BY <1>1, <1>3, <1>4
     DEF EveningInv, SetApart, AtHisBoard, Parked, Evening!Live, Bookings
<1>7. ThinksOfIt'
  <2>1. ASSUME Thinks PROVE turn.id # 0
    BY <1>2, <2>1 DEF Thinks, EveningTypes, TurnTyped
  <2>2. Thinks /\ saved' = Evening!NoSave => HisMove(saved)'
    BY <1>1, <2>1, EveningNames DEF HisMove
  <2>3. Thinks /\ user'.at \notin {"records", "puts", "resets", "parks", "writes"}
          => HisMove(saved)'
    BY <1>1, <1>3, <2>2 DEF EveningInv, ThinksOfIt, HisMove, Bookings
  <2> QED
    BY <1>1, <2>3 DEF EveningInv, ThinksOfIt, Thinks, HisMove
<1>8. Mannered' /\ sins' = {}
  BY <1>1 DEF EveningInv, Mannered, Offering, WillOffer
<1> QED
  BY <1>5, <1>6, <1>7, <1>8 DEF EveningInv

LEMMA EveningCrash == ASSUME EveningInv, Evening!Crash PROVE EveningInv'
<1>1. /\ table' = 0 /\ mood' = [i \in Evening!Boards |-> Evening!Calm]
      /\ user' = Evening!Idle /\ teller' = Evening!Idle /\ turn' = Evening!Resting
      /\ UNCHANGED <<boards, saved, sins>>
  BY DEF Evening!Crash
<1>2. UserTyped' /\ user'.at = "idle"
  BY <1>1, UserIdle
<1>3. TellerTyped' /\ teller'.at = "idle"
  BY <1>1, EveningNames DEF TellerTyped, Threading, Evening!Idle
<1>4. turn' \in Turns /\ turn'.at = "idle" /\ turn'.id = 0
  BY <1>1, TurnRests
<1>5. MoodTyped'
  BY <1>1 DEF MoodTyped, Sized, Evening!Calm
<1>6. EveningTypes'
  BY <1>1, <1>2, <1>3, <1>4, <1>5
     DEF EveningInv, EveningTypes, BoardsTyped, PlacesTyped, TurnTyped
<1>7. SetApart' /\ AtHisBoard' /\ Parked' /\ ThinksOfIt' /\ Mannered' /\ sins' = {}
  BY <1>1, <1>2, <1>3, <1>4
     DEF EveningInv, SetApart, AtHisBoard, Parked, ThinksOfIt, Thinks, Mannered, SetUps,
         Bookings, Busy, Evening!Live
<1> QED
  BY <1>6, <1>7 DEF EveningInv

LEMMA EveningStays == ASSUME EveningInv, UNCHANGED Evening!vars PROVE EveningInv'
BY DEF EveningInv, EveningTypes, BoardsTyped, PlacesTyped, MoodTyped, TurnTyped, UserTyped,
   TellerTyped, SetApart, AtHisBoard, Parked, ThinksOfIt, Thinks, HisMove, Mannered, Offering,
   WillOffer, Evening!Live, Evening!vars

LEMMA EveningStep ==
    ASSUME EveningAssumption, EveningInv, [Evening!Next]_(Evening!vars) PROVE EveningInv'
<1>1. ASSUME Evening!RausTurn PROVE EveningInv'
  BY <1>1, EveningStartTurn, EveningSearch, EveningAnswer, EveningMind, EveningResign,
     EveningWaited, EveningLand, EveningOffers, EveningTurnRecords, EveningTurnEnds
     DEF Evening!RausTurn
<1> QED
  BY <1>1, EveningPumpSees, EveningFinishes, EveningPress, EveningOpen, EveningReset,
     EveningCopy, EveningWrite, EveningPutAway, EveningUserActs, EveningUserRecords,
     EveningCrash, EveningStays
     DEF Evening!Next

LEMMA EveningBegins == ASSUME EveningAssumption, Evening!Init PROVE EveningInv
<1>1. /\ table = 0 /\ boards = <<>> /\ saved = Evening!NoSave
      /\ mood = [i \in Evening!Boards |-> Evening!Calm] /\ user = Evening!Idle
      /\ teller = Evening!Idle /\ turn = Evening!Resting /\ sins = {}
  BY DEF Evening!Init
<1>2. EveningTypes
  <2>1. BoardsTyped /\ PlacesTyped
    BY <1>1, EveningNames DEF BoardsTyped, PlacesTyped, EveningAssumption
  <2>2. MoodTyped
    BY <1>1 DEF MoodTyped, Sized, Evening!Calm
  <2>3. TurnTyped
    BY <1>1, EveningNames DEF TurnTyped
  <2>4. UserTyped /\ TellerTyped
    BY <1>1, EveningNames DEF UserTyped, TellerTyped, Threading, UserPlaces, Evening!Idle
  <2> QED
    BY <2>1, <2>2, <2>3, <2>4 DEF EveningTypes
<1>3. SetApart /\ AtHisBoard /\ Parked /\ ThinksOfIt /\ Mannered
  BY <1>1, EveningNames
     DEF SetApart, AtHisBoard, Parked, ThinksOfIt, Thinks, Mannered, SetUps, Bookings, Busy,
         Evening!Live
<1> QED
  BY <1>1, <1>2, <1>3 DEF EveningInv

\* THEOREM. (chess/session.py, pump.py, player.py) While the requests come one at a time, between
\* Rau's turns: when nobody is in the middle of anything the game that is out is parked as it
\* stands, whatever was put away, resumed, begun, booked or cut off by a restart; a move lands on
\* the position it was thought out for; Rau resigns no game in its opening, and offers a draw once.
THEOREM TheEveningIsKept ==
    ASSUME EveningAssumption
    PROVE  Evening!Spec => [](Evening!ParkedAsItStands /\ Evening!KeepsHisManners)
<1>1. Evening!Init => EveningInv
  BY EveningBegins
<1>2. EveningInv /\ [Evening!Next]_(Evening!vars) => EveningInv'
  BY EveningStep
<1>3. EveningInv => Evening!ParkedAsItStands /\ Evening!KeepsHisManners
  BY DEF EveningInv, Parked, Evening!ParkedAsItStands, Evening!KeepsHisManners, Evening!On
<1> QED
  BY <1>1, <1>2, <1>3, PTL DEF Evening!Spec
=============================================================================
