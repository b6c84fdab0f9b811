---------------------------------- MODULE MCHouse -----------------------------------
(***************************************************************************)
(* The components that share the room with the user: events, microphone,   *)
(* games, presence, the machine, the ledger of activity, the voice.        *)
(***************************************************************************)
EXTENDS MCSlots

TwoCats == {"tacocat", "beard_cat"}
Hand(cs) ==
    [c \in {"exploding_kitten", "defuse", "nope", "attack", "skip", "favor", "shuffle",
            "see_the_future"} \cup TwoCats |-> IF c \in DOMAIN cs THEN cs[c] ELSE 0]
Deal(draw0, user, rau) == [draw |-> draw0, hands |-> [user |-> Hand(user), rau |-> Hand(rau)]]
ThreeDeals ==
    {Deal(<<"skip", "exploding_kitten">>,
          [defuse |-> 1, nope |-> 1, favor |-> 1],
          [defuse |-> 1, nope |-> 2, see_the_future |-> 1]),
     Deal(<<"tacocat", "exploding_kitten">>,
          [defuse |-> 1, shuffle |-> 1, see_the_future |-> 1],
          [attack |-> 1, nope |-> 1, tacocat |-> 3]),
     Deal(<<"exploding_kitten", "beard_cat">>,
          [defuse |-> 1, attack |-> 1, skip |-> 1, favor |-> 1, tacocat |-> 1, beard_cat |-> 1],
          [defuse |-> 1, nope |-> 1])}

\* A queue and a history shorter than what two writers emit, and a second connection.
Bus == INSTANCE EventBus WITH
    Writers <- {1, 2}, MaxVersion <- 3, QueueSize <- 1, HistorySize <- 2, MaxSockets <- 2,
    version <- s1, wrote <- s2, history <- s3, calls <- s4, subscribed <- s5, queue <- s6,
    socket <- s7, sockets <- s8, view <- s9

\* Two browsers over one host, and a control queue that overflows.
Host == INSTANCE HostVoice WITH
    Confirms <- {1}, Browsers <- 2, MaxCommands <- 2, QueueCap <- 1, listening <- s1,
    sessions <- s2, before <- s3, wanted <- s4, queue <- s5, pending <- s6, asked <- s7,
    granted <- s8, yes <- s9, sent <- s10, spokenId <- s11, busy <- s12, stopped <- s13,
    control <- s14, ears <- s15, answerId <- s16

\* Three deals that between them reach every effect, both combos and a kitten.
Cat == INSTANCE Kittens WITH
    CatCards <- TwoCats, Deals <- ThreeDeals, draw <- s1, hands <- s2, discard <- s3,
    current <- s4, turns <- s5, phase <- s6, pending <- s7, awaiting <- s8, known <- s9,
    winner <- s10

\* Rau's turns and Nopes over the same deals.
Opponent == INSTANCE KittensPlayer WITH
    CatCards <- TwoCats, Deals <- ThreeDeals, Prompt <- TRUE, draw <- s1, hands <- s2,
    discard <- s3, current <- s4, turns <- s5, phase <- s6, pending <- s7, awaiting <- s8,
    known <- s9, winner <- s10, acted <- s11, turn <- s12, deciding <- s13, decided <- s14,
    wrong <- s15

\* Two games, so that a move may outlive its board.
Table == INSTANCE GameTables WITH
    Requests <- {1}, Turns <- {2}, MaxGames <- 2, MaxPumps <- 1, out <- s1, dealt <- s2,
    tableOf <- s3, toMove <- s4, finished <- s5, booked <- s6, notes <- s7, pc <- s8,
    on <- s9, obj <- s10, away <- s11, files <- s12, mine <- s13, stray <- s14,
    pump <- s15, pumps <- s16, pumpAt <- s17, pumpOn <- s18, pumpGame <- s19, told <- s20,
    thinking <- s21

\* One game that two pumps watch over, one after the other.
Pumped == INSTANCE GameTables WITH
    Requests <- {1}, Turns <- {2}, MaxGames <- 1, MaxPumps <- 2, out <- s1, dealt <- s2,
    tableOf <- s3, toMove <- s4, finished <- s5, booked <- s6, notes <- s7, pc <- s8,
    on <- s9, obj <- s10, away <- s11, files <- s12, mine <- s13, stray <- s14,
    pump <- s15, pumps <- s16, pumpAt <- s17, pumpOn <- s18, pumpGame <- s19, told <- s20,
    thinking <- s21

\* Two boards and three plies: enough to resign, to offer and to be asked again.
Evening == INSTANCE ChessEvening WITH
    ResignStreak <- 2, ResignPly <- 2, OfferStreak <- 1, OfferPly <- 1, ClaimPly <- 3,
    Ratings <- {1880}, Weeks <- {5}, Unhurried <- TRUE, MaxBoards <- 2, MaxPlies <- 3,
    MaxCrashes <- 0, table <- s1, boards <- s2, saved <- s3, score <- s4, booked <- s5,
    finished <- s6, mood <- s7, user <- s8, turn <- s9, pump <- s10, sins <- s11,
    crashes <- s12

\* A restart anywhere in a short game.
Morning == INSTANCE ChessEvening WITH
    ResignStreak <- 1, ResignPly <- 1, OfferStreak <- 1, OfferPly <- 1, ClaimPly <- 2,
    Ratings <- {1325}, Weeks <- {0}, Unhurried <- TRUE, MaxBoards <- 2, MaxPlies <- 2,
    MaxCrashes <- 1, table <- s1, boards <- s2, saved <- s3, score <- s4, booked <- s5,
    finished <- s6, mood <- s7, user <- s8, turn <- s9, pump <- s10, sins <- s11,
    crashes <- s12

\* Time for the two nudges and for a third one.
Alone == INSTANCE Presence WITH
    Replies <- {1}, Weaves <- {}, MaxTime <- 4, MaxCrashes <- 0, First <- 1, Soft <- 1,
    Second <- 1, Hard <- 2, Retry <- 1, TurnMax <- 1, EventsCap <- 1, Locales <- {"en"},
    Sayings <- {}, now <- s1, p <- s2, disk <- s3, events <- s4, open <- s5, lock <- s6,
    pc <- s7, told <- s8, nudge <- s9, queue <- s10, room <- s11, locale <- s12,
    said <- s13, left <- s14, crashes <- s15

\* The two nudges with a restart anywhere.
Resumed == INSTANCE Presence WITH
    Replies <- {1}, Weaves <- {}, MaxTime <- 3, MaxCrashes <- 1, First <- 1, Soft <- 1,
    Second <- 1, Hard <- 2, Retry <- 1, TurnMax <- 1, EventsCap <- 1,
    Locales <- {"en", "ko"}, Sayings <- {}, now <- s1, p <- s2, disk <- s3, events <- s4,
    open <- s5, lock <- s6, pc <- s7, told <- s8, nudge <- s9, queue <- s10, room <- s11, locale <- s12,
    said <- s13, left <- s14, crashes <- s15

\* The user's reply and a narrated job, together.
Woven == INSTANCE Presence WITH
    Replies <- {1}, Weaves <- {2}, MaxTime <- 2, MaxCrashes <- 0, First <- 1, Soft <- 1,
    Second <- 1, Hard <- 2, Retry <- 1, TurnMax <- 1, EventsCap <- 1,
    Locales <- {"en", "ko"}, Sayings <- {}, now <- s1, p <- s2, disk <- s3, events <- s4,
    open <- s5, lock <- s6, pc <- s7, told <- s8, nudge <- s9, queue <- s10, room <- s11, locale <- s12,
    said <- s13, left <- s14, crashes <- s15

\* A session of two actions, with a restart anywhere.
Screen == INSTANCE ComputerUse WITH
    Sessions <- {1}, MaxActs <- 2, MaxCrashes <- 1, row <- s1, acts <- s2, call <- s3,
    lock <- s4, crashes <- s5

\* Three chunks to type, three steps to drag.
Mac == INSTANCE MacInput WITH
    Chunks <- 3, Steps <- 3, kind <- s1, verify <- s2, quartz <- s3, at <- s4, i <- s5,
    cancel <- s6, typed <- s7, button <- s8, dropped <- s9, result <- s10

\* Two writers of a span, two snapshots the user asks for, a gap and a restart.
Ledger == INSTANCE Activity WITH
    Writers <- {1, 2}, MaxDeltas <- 2, MaxFetches <- 2, MaxGaps <- 1, MaxCrashes <- 1,
    row <- s1, buffer <- s2, lock <- s3, sending <- s4, ending <- s5, popped <- s6,
    asked <- s7, last <- s8, linked <- s9, shown <- s10, wire <- s11, fetched <- s12,
    gaps <- s13, seen <- s14, deltas <- s15, fetches <- s16, crashes <- s17

\* Two threads over a wall of one panel.
Hung == INSTANCE Wall WITH
    Callers <- {1, 2}, Texts <- {1}, MaxPanels <- 1, Unhurried <- TRUE, MaxShown <- 2,
    MaxCalls <- 2, MaxVisits <- 1, wall <- s1, made <- s2, calls <- s3, lock <- s4,
    call <- s5, patched <- s6, bus <- s7, list <- s8, open <- s9, pending <- s10,
    place <- s11, snapshot <- s12, visits <- s13

\* One thread over a wall of two panels, which a third one trims.
Room == INSTANCE Wall WITH
    Callers <- {1}, Texts <- {1}, MaxPanels <- 2, Unhurried <- TRUE, MaxShown <- 3,
    MaxCalls <- 1, MaxVisits <- 1, wall <- s1, made <- s2, calls <- s3, lock <- s4,
    call <- s5, patched <- s6, bus <- s7, list <- s8, open <- s9, pending <- s10,
    place <- s11, snapshot <- s12, visits <- s13

\* An open microphone over two replies, either of which the user may cut off.
Spoken == INSTANCE BrowserVoice WITH
    Push <- FALSE, Hyper <- TRUE, Prompt <- TRUE, Onset <- 1, Barge <- 2,
    Fluent <- TRUE, Parts <- 2, MaxTurns <- 2, MaxUtterances <- 1, MaxDrops <- 0, MaxWire <- 1,
    phase <- s1, streaming <- s2, barging <- s3, muted <- s4, held <- s5, vad <- s6, keyDown <- s7,
    starting <- s8, live <- s9, gen <- s10, queue <- s11, waits <- s12, resumed <- s13,
    utterances <- s14, shown <- s15, cut <- s16, up <- s17, down <- s18, sphase <- s19,
    turn <- s20, active <- s21, cancelled <- s22, work <- s23, hearing <- s24, mic <- s25,
    stt <- s26

\* Two utterances over one reply, either of which may break off while he speaks.
Listened == INSTANCE BrowserVoice WITH
    Push <- FALSE, Hyper <- FALSE, Prompt <- TRUE, Onset <- 1, Barge <- 2,
    Fluent <- FALSE, Parts <- 2, MaxTurns <- 1, MaxUtterances <- 2, MaxDrops <- 0, MaxWire <- 1,
    phase <- s1, streaming <- s2, barging <- s3, muted <- s4, held <- s5, vad <- s6, keyDown <- s7,
    starting <- s8, live <- s9, gen <- s10, queue <- s11, waits <- s12, resumed <- s13,
    utterances <- s14, shown <- s15, cut <- s16, up <- s17, down <- s18, sphase <- s19,
    turn <- s20, active <- s21, cancelled <- s22, work <- s23, hearing <- s24, mic <- s25,
    stt <- s26

\* Push-to-talk, with a connection that breaks and a loudspeaker that answers late.
HeldDown == INSTANCE BrowserVoice WITH
    Push <- TRUE, Hyper <- FALSE, Prompt <- FALSE, Onset <- 1, Barge <- 2,
    Fluent <- TRUE, Parts <- 2, MaxTurns <- 1, MaxUtterances <- 2, MaxDrops <- 1, MaxWire <- 1,
    phase <- s1, streaming <- s2, barging <- s3, muted <- s4, held <- s5, vad <- s6, keyDown <- s7,
    starting <- s8, live <- s9, gen <- s10, queue <- s11, waits <- s12, resumed <- s13,
    utterances <- s14, shown <- s15, cut <- s16, up <- s17, down <- s18, sphase <- s19,
    turn <- s20, active <- s21, cancelled <- s22, work <- s23, hearing <- s24, mic <- s25,
    stt <- s26

\* Two phrases of two frames each.
Voice == INSTANCE RealtimeTts WITH
    MaxPhrases <- 2, Parts <- 2, plan <- s1, breaks <- s2, fx <- s3, cancel <- s4,
    socket <- s5, context <- s6, provider <- s7, messages <- s8, sender <- s9, taken <- s10,
    broken <- s11, fallback <- s12, replay <- s13, main <- s14, received <- s15,
    held <- s16, http <- s17, heard <- s18

HouseInit ==
    \/ part = "events" /\ Bus!Init /\ Zero9
    \/ part = "host" /\ Host!Init /\ Zero16
    \/ part = "cards" /\ Cat!Init /\ Zero10
    \/ part = "player" /\ Opponent!Init /\ Zero15
    \/ part = "tables" /\ Table!Init /\ Zero21
    \/ part = "pumps" /\ Pumped!Init /\ Zero21
    \/ part = "evening" /\ Evening!Init /\ Zero12
    \/ part = "morning" /\ Morning!Init /\ Zero12
    \/ part = "presence" /\ Alone!Init /\ Zero15
    \/ part = "restart" /\ Resumed!Init /\ Zero15
    \/ part = "weave" /\ Woven!Init /\ Zero15
    \/ part = "computer" /\ Screen!Init /\ Zero5
    \/ part = "mac" /\ Mac!Init /\ Zero10
    \/ part = "activity" /\ Ledger!Init /\ Zero17
    \/ part = "wall" /\ Hung!Init /\ Zero13
    \/ part = "room" /\ Room!Init /\ Zero13
    \/ part = "talk" /\ Spoken!Init
    \/ part = "listen" /\ Listened!Init
    \/ part = "hold" /\ HeldDown!Init
    \/ part = "speech" /\ Voice!Init /\ Zero18

HouseNext ==
    \/ part = "events" /\ Bus!Next /\ Keep9
    \/ part = "host" /\ Host!Next /\ Keep16
    \/ part = "cards" /\ Cat!Next /\ Keep10
    \/ part = "player" /\ Opponent!Next /\ Keep15
    \/ part = "tables" /\ Table!Next /\ Keep21
    \/ part = "pumps" /\ Pumped!Next /\ Keep21
    \/ part = "evening" /\ Evening!Next /\ Keep12
    \/ part = "morning" /\ Morning!Next /\ Keep12
    \/ part = "presence" /\ Alone!Next /\ Keep15
    \/ part = "restart" /\ Resumed!Next /\ Keep15
    \/ part = "weave" /\ Woven!Next /\ Keep15
    \/ part = "computer" /\ Screen!Next /\ Keep5
    \/ part = "mac" /\ Mac!Next /\ Keep10
    \/ part = "activity" /\ Ledger!Next /\ Keep17
    \/ part = "wall" /\ Hung!Next /\ Keep13
    \/ part = "room" /\ Room!Next /\ Keep13
    \/ part = "talk" /\ Spoken!Next /\ Keep26
    \/ part = "listen" /\ Listened!Next /\ Keep26
    \/ part = "hold" /\ HeldDown!Next /\ Keep26
    \/ part = "speech" /\ Voice!Next /\ Keep18

-----------------------------------------------------------------------------
\* The variables of every component have their types.
HouseTypeOK ==
    /\ part = "events" => Bus!TypeOK
    /\ part = "host" => Host!TypeOK
    /\ part = "cards" => Cat!TypeOK
    /\ part = "player" => Opponent!TypeOK
    /\ part = "tables" => Table!TypeOK
    /\ part = "pumps" => Pumped!TypeOK
    /\ part = "evening" => Evening!TypeOK
    /\ part = "morning" => Morning!TypeOK
    /\ part = "wall" => Hung!TypeOK
    /\ part = "room" => Room!TypeOK
    /\ part = "presence" => Alone!TypeOK
    /\ part = "restart" => Resumed!TypeOK
    /\ part = "weave" => Woven!TypeOK
    /\ part = "computer" => Screen!TypeOK
    /\ part = "mac" => Mac!TypeOK
    /\ part = "activity" => Ledger!TypeOK
    /\ part = "talk" => Spoken!TypeOK
    /\ part = "listen" => Listened!TypeOK
    /\ part = "hold" => HeldDown!TypeOK
    /\ part = "speech" => Voice!TypeOK

\* The browser and the host agree: the host's microphone is off while a browser listens and
\* what the host last asked for after the last one leaves (state.py); a browser whose last
\* snapshot is younger than the last event it missed shows a span as the ledger has it
\* (activity.py, activity.ts); the room shows the wall as it hangs, on which no edit was lost
\* to another (face/panels.py, panels.ts); a reply the user cut off stays cut as long as no utterance breaks off over it, one he did not cut is
\* not muted, what he says reaches the hub in an utterance that was opened for it, and when all
\* is said both are in one phase and nobody listens to him any more (voice/session.py,
\* useVoiceSession.ts).
BrowserAgrees ==
    /\ part = "host" => Host!BrowserHasTheMic
    /\ part = "activity" => Ledger!StatusAgrees
    /\ part = "wall" => Hung!WallIsShown /\ Hung!NoEditIsLost
    /\ part = "room" => Room!WallIsShown /\ Room!NoEditIsLost
    /\ part = "talk" =>
        Spoken!CutIsFinal /\ Spoken!UncutIsHeard /\ Spoken!PhaseAgrees /\ Spoken!WordsAreHeard
    /\ part = "listen" =>
        /\ Listened!UncutIsHeard /\ Listened!PhaseAgrees
        /\ Listened!WordsAreHeard /\ Listened!MicIsShut
    /\ part = "hold" =>
        /\ HeldDown!CutIsFinal /\ HeldDown!UncutIsHeard /\ HeldDown!PhaseAgrees
        /\ HeldDown!WordsAreHeard /\ HeldDown!MicIsShut

\* A game is played with the cards it was dealt, a seat's peek is never a lie and its menu has
\* only moves the rules accept (kittens/engine.py); Rau's fallback is a move the rules take,
\* and his Nope falls on the card it was decided for (kittens/player.py); a game of chess is
\* folded into the record once unless another is claimed meanwhile, its journal has no moves of
\* another game, it is parked as it stands, and a think of Rau's lands on the position it was
\* about (chess/session.py, chess/pump.py, chess/player.py).
TableIsHonest ==
    /\ part = "cards" => Cat!CardsConserved /\ Cat!PeekIsTrue /\ Cat!MenuIsHonest
    /\ part = "player" => Opponent!PlaysOn
    /\ part = "tables" => Table!ChessBooksOnce /\ Table!MovesOfThisGame
    /\ part = "pumps" => Pumped!ChessBooksOnce /\ Pumped!MovesOfThisGame
    /\ part = "evening" => Evening!ParkedAsItStands /\ Evening!KeepsHisManners
    /\ part = "morning" => Morning!ParkedAsItStands /\ Morning!KeepsHisManners

\* One silence hears two unasked sentences at most, whatever falls between the model's answer
\* and the loudspeaker: a reply, a job, a change of language, a restart (presence.py).
TwoPerSilence ==
    /\ part = "presence" => Alone!TwoPerSilence
    /\ part = "restart" => Resumed!TwoPerSilence
    /\ part = "weave" => Woven!TwoPerSilence

\* An action nobody has seen the effect of stays on record until it is observed or answered
\* for, across a restart (computer/session.py); a drag that is cancelled lets go where the
\* pointer is (computer/cua.py).
EffectsAreOwnedUp ==
    /\ part = "computer" => Screen!UnseenIsOnRecord
    /\ part = "mac" => Mac!DragStopsWhereItIs

\* The reply is heard in its order, no part of it twice, and to its end when nothing ended it
\* early, over the socket, over plain HTTP and over the move from one to the other
\* (voice/tts_stream.py).
HeardAsWritten == part = "speech" => Voice!HeardAsWritten

\* A browser that stays connected comes to show the state as it is, whatever a full queue
\* dropped (events.py, hub/server.py); a reply that is begun ends, however silent the provider
\* (voice/tts_stream.py).
CatchesUp ==
    /\ \/ <>[](part = "events" => Bus!Away)
       \/ []<>(part = "events" => Bus!UpToDate)
    /\ <>(part = "speech" => Voice!Ended)
=============================================================================
