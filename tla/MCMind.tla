----------------------------------- MODULE MCMind -----------------------------------
(***************************************************************************)
(* The components that think, speak and reach out: the conversation, the   *)
(* workers, the wire to the providers, the configuration, the sidecar, the *)
(* spoken text.                                                            *)
(***************************************************************************)
EXTENDS MCSlots

\* Named by the provider, not named at all, and with a character the wire refuses.
ThreeLists == {<<"", "">>, <<"call_1", "">>, <<"x">>}

\* A typed turn and a spoken one; each may use one tool, and a third message folds.
Typist == INSTANCE FaceBrain WITH
    Typed <- {1}, Spoken <- {2}, System <- {}, MaxCalls <- 1, FoldAt <- 3, KeepRecent <- 1,
    MaxResets <- 1, pc <- s1, cancel <- s2, active <- s3, history <- s4, pending <- s5,
    rounds <- s6, ran <- s7, wanted <- s8, heard <- s9, diary <- s10, fold <- s11,
    resets <- s12

\* A spoken turn while a job's result waits to be told.
Teller == INSTANCE FaceBrain WITH
    Typed <- {}, Spoken <- {2}, System <- {3}, MaxCalls <- 1, FoldAt <- 3, KeepRecent <- 1,
    MaxResets <- 1, pc <- s1, cancel <- s2, active <- s3, history <- s4, pending <- s5,
    rounds <- s6, ran <- s7, wanted <- s8, heard <- s9, diary <- s10, fold <- s11,
    resets <- s12

\* Two phases and a turn budget that may end inside the second.
Rounds == INSTANCE WorkerRun WITH
    Phases <- 2, MaxRounds <- 2, MaxTurns <- 2, Routes <- 1, FreshIds <- TRUE, Policy <- "",
    pc <- s1, phase <- s2, round <- s3, turns <- s4, route <- s5, premature <- s6,
    tried <- s7, calls <- s8, world <- s9, muts <- s10, evid <- s11, claims <- s12,
    done <- s13, outcome <- s14, cancelled <- s15, paused <- s16, mode <- s17, late <- s18

\* One phase with a second route to fall back to.
Ladder == INSTANCE WorkerRun WITH
    Phases <- 1, MaxRounds <- 3, MaxTurns <- 3, Routes <- 2, FreshIds <- TRUE, Policy <- "",
    pc <- s1, phase <- s2, round <- s3, turns <- s4, route <- s5, premature <- s6,
    tried <- s7, calls <- s8, world <- s9, muts <- s10, evid <- s11, claims <- s12,
    done <- s13, outcome <- s14, cancelled <- s15, paused <- s16, mode <- s17, late <- s18

\* A run of the scheduler's, with a provider that does not name its calls.
ReadOnly == INSTANCE WorkerRun WITH
    Phases <- 1, MaxRounds <- 2, MaxTurns <- 2, Routes <- 1, FreshIds <- FALSE,
    Policy <- "readonly", pc <- s1, phase <- s2, round <- s3, turns <- s4, route <- s5,
    premature <- s6, tried <- s7, calls <- s8, world <- s9, muts <- s10, evid <- s11,
    claims <- s12, done <- s13, outcome <- s14, cancelled <- s15, paused <- s16,
    mode <- s17, late <- s18

\* Two confirms of one job, two threads that decide and one that cancels.
Asked == INSTANCE Orchestrator WITH
    Cancellers <- {1}, Deciders <- {1, 2}, MaxJobs <- 1, MaxConfirms <- 2, MaxTurns <- 1,
    Pausable <- {}, Cap <- 1, PoolSize <- 1, state <- s1, parent <- s2, wpc <- s3,
    turns <- s4, flag <- s5, finished <- s6, coord <- s7, paused <- s8, told <- s9,
    shown <- s10, ready <- s11, answer <- s12, mine <- s13, asker <- s14, row <- s15,
    granted <- s16, lock <- s17, doomed <- s18, current <- s19, claimed <- s20,
    decision <- s21

\* One worker and a person who saves the same file.
Edits == INSTANCE FileEdits WITH
    Workers <- {1}, MaxVersion <- 6, Polite <- TRUE, file <- s1, reads <- s2, pc <- s3,
    text <- s4, saw <- s5, edits <- s6

\* Transcripts of five messages, folded once they weigh four.
Transcript == INSTANCE Wire WITH
    RawIds <- ThreeLists, MaxMessages <- 5, Threshold <- 3, Keep <- 2, log <- s1,
    keys <- s2, failed <- s3

\* A voice turn that streams and two calls that do not, around one circuit breaker.
Provider == INSTANCE ProviderStream WITH
    Calls <- {1, 2, 3}, Streams <- {1}, Indexes <- {0}, Threshold <- 2, Cooldown <- 1,
    MaxBad <- 0, MaxTime <- 2, pc <- s1, parts <- s2, stop <- s3, bad <- s4, heard <- s5,
    handed <- s6, failures <- s7, until <- s8, now <- s9, history <- s10

\* Two changes from the browser, one by hand, a crash anywhere, a disk that works.
Saved == INSTANCE ConfigFiles WITH
    Writers <- {1}, MaxSaves <- 2, MaxFaults <- 0, MaxHand <- 1, file <- s1, aside <- s2,
    pc <- s3, want <- s4, copy <- s5, chosen <- s6, saves <- s7, faults <- s8, hand <- s9

\* The same with a disk that fails once.
Unsaved == INSTANCE ConfigFiles WITH
    Writers <- {1}, MaxSaves <- 1, MaxFaults <- 1, MaxHand <- 1, file <- s1, aside <- s2,
    pc <- s3, want <- s4, copy <- s5, chosen <- s6, saves <- s7, faults <- s8, hand <- s9

\* Three days of dreams on their own, one fault.
Night == INSTANCE Dreams WITH
    Manuals <- {}, Steers <- {}, Apart <- TRUE, MaxDays <- 3, MaxEntries <- 1,
    MaxFaults <- 1, day <- s1, night <- s2, timer <- s3, lock <- s4, stopping <- s5,
    diary <- s6, logs <- s7, soul <- s8, bak <- s9, archive <- s10, ident <- s11,
    from <- s12, pc <- s13, work <- s14, paid <- s15, done <- s16, past <- s17

\* A day with a dream asked for and a steer, one fault.
Steered == INSTANCE Dreams WITH
    Manuals <- {1}, Steers <- {2}, Apart <- TRUE, MaxDays <- 1, MaxEntries <- 1,
    MaxFaults <- 1, day <- s1, night <- s2, timer <- s3, lock <- s4, stopping <- s5,
    diary <- s6, logs <- s7, soul <- s8, bak <- s9, archive <- s10, ident <- s11,
    from <- s12, pc <- s13, work <- s14, paid <- s15, done <- s16, past <- s17

\* Two attempts of a step, an approval in each, one fault.
Attempts == INSTANCE PiRuns WITH
    MaxAttempts <- 2, Budget <- 1, Gates <- 1, Idle <- 1, MaxTime <- 1, MaxRetries <- 1,
    MaxFaults <- 1, side <- s1, lastUsed <- s2, now <- s3, run <- s4, pc <- s5,
    attempt <- s6, turnsUsed <- s7, grant <- s8, seen <- s9, retries <- s10, got <- s11,
    deciding <- s12, said <- s13, watching <- s14, cancel <- s15, faults <- s16

\* One attempt with two approvals, one fault, and a clock for the idle sweep.
Sidecar == INSTANCE PiRuns WITH
    MaxAttempts <- 1, Budget <- 1, Gates <- 2, Idle <- 1, MaxTime <- 3, MaxRetries <- 1,
    MaxFaults <- 1, side <- s1, lastUsed <- s2, now <- s3, run <- s4, pc <- s5,
    attempt <- s6, turnsUsed <- s7, grant <- s8, seen <- s9, retries <- s10, got <- s11,
    deciding <- s12, said <- s13, watching <- s14, cancel <- s15, faults <- s16

\* Every text of three pieces, and the longer notations.
Korean == INSTANCE SpokenText WITH
    Short <- 3,
    Pieces <- {"3", "10", "2026", "-", "~", ":", "$", "km", "m", "degC", "si", "myeong", "eun", "mal", "api", "H2O", "/"},
    written <- s1, text <- s2, pass <- s3

\* Every word of four of these sounds.
Loanword == INSTANCE Hangulize WITH
    MaxLen <- 4, Sounds <- {"a", "ai", "k", "t", "n", "l", "sh", "y", "r", "h"}, word <- s1,
    at <- s2, syllables <- s3, onset <- s4, glide <- s5, short <- s6

\* The tables in the order the package merges them.
Words == INSTANCE Lexicon WITH
    merged <- s1, words <- s2, plain <- s3, read <- s4

MindInit ==
    \/ part = "typed" /\ Typist!Init /\ Zero12
    \/ part = "told" /\ Teller!Init /\ Zero12
    \/ part = "worker" /\ Rounds!Init /\ Zero18
    \/ part = "routes" /\ Ladder!Init /\ Zero18
    \/ part = "scheduled" /\ ReadOnly!Init /\ Zero18
    \/ part = "confirms" /\ Asked!Init /\ Zero21
    \/ part = "files" /\ Edits!Init /\ Zero6
    \/ part = "wire" /\ Transcript!Init /\ Zero3
    \/ part = "stream" /\ Provider!Init /\ Zero10
    \/ part = "config" /\ Saved!Init /\ Zero9
    \/ part = "faults" /\ Unsaved!Init /\ Zero9
    \/ part = "night" /\ Night!Init /\ Zero17
    \/ part = "steer" /\ Steered!Init /\ Zero17
    \/ part = "pi" /\ Attempts!Init /\ Zero16
    \/ part = "idle" /\ Sidecar!Init /\ Zero16
    \/ part = "korean" /\ Korean!Init /\ Zero3
    \/ part = "loanword" /\ Loanword!Init /\ Zero6
    \/ part = "lexicon" /\ Words!Init /\ Zero4

MindNext ==
    \/ part = "typed" /\ Typist!Next /\ Keep12
    \/ part = "told" /\ Teller!Next /\ Keep12
    \/ part = "worker" /\ Rounds!Next /\ Keep18
    \/ part = "routes" /\ Ladder!Next /\ Keep18
    \/ part = "scheduled" /\ ReadOnly!Next /\ Keep18
    \/ part = "confirms" /\ Asked!Next /\ Keep21
    \/ part = "files" /\ Edits!Next /\ Keep6
    \/ part = "wire" /\ Transcript!Next /\ Keep3
    \/ part = "stream" /\ Provider!Next /\ Keep10
    \/ part = "config" /\ Saved!Next /\ Keep9
    \/ part = "faults" /\ Unsaved!Next /\ Keep9
    \/ part = "night" /\ Night!Next /\ Keep17
    \/ part = "steer" /\ Steered!Next /\ Keep17
    \/ part = "pi" /\ Attempts!Next /\ Keep16
    \/ part = "idle" /\ Sidecar!Next /\ Keep16
    \/ part = "korean" /\ Korean!Next /\ Keep3
    \/ part = "loanword" /\ Loanword!Next /\ Keep6
    \/ part = "lexicon" /\ Words!Next /\ Keep4

-----------------------------------------------------------------------------
\* The variables of every component have their types.
MindTypeOK ==
    /\ part = "typed" => Typist!TypeOK
    /\ part = "told" => Teller!TypeOK
    /\ part = "worker" => Rounds!TypeOK
    /\ part = "routes" => Ladder!TypeOK
    /\ part = "scheduled" => ReadOnly!TypeOK
    /\ part = "confirms" => Asked!TypeOK
    /\ part = "files" => Edits!TypeOK
    /\ part = "wire" => Transcript!TypeOK
    /\ part = "stream" => Provider!TypeOK
    /\ part = "config" => Saved!TypeOK
    /\ part = "faults" => Unsaved!TypeOK
    /\ part = "night" => Night!TypeOK
    /\ part = "steer" => Steered!TypeOK
    /\ part = "pi" => Attempts!TypeOK
    /\ part = "idle" => Sidecar!TypeOK
    /\ part = "korean" => Korean!TypeOK
    /\ part = "loanword" => Loanword!TypeOK
    /\ part = "lexicon" => Words!TypeOK

\* The conversation says what was asked and what was answered: every reply stands behind the
\* question it answers and no exchange is kept twice, through barge-in, a stolen foreground, a
\* fold between the model's answer and its commit, and a reset; of the turns that have not
\* been told to stop only the newest answers (face/brain.py).
Foreground ==
    /\ part = "typed" =>
           Typist!AnswersStandByQuestions /\ Typist!NothingTwice /\ Typist!NewestWins
    /\ part = "told" =>
           Teller!AnswersStandByQuestions /\ Teller!NothingTwice /\ Teller!NewestWins

\* A worker acts on the world it has seen: what verifies a phase was read after the phase's
\* last mutation, a cancel is honoured before the next tool but one (agent/orchestrator.py),
\* and an edit replaces the content its worker read, whoever saved in between (agent/edit.py);
\* the log of a day is a log of the whole day (dream/dreamer.py).
WorksFromWhatItSaw ==
    /\ part = "worker" => Rounds!EvidenceIsFresh /\ Rounds!StopsBeforeTheNextTool
    /\ part = "routes" => Ladder!EvidenceIsFresh /\ Ladder!StopsBeforeTheNextTool
    /\ part = "scheduled" => ReadOnly!StopsBeforeTheNextTool
    /\ part = "files" => Edits!EditsWhatItSaw
    /\ part = "night" => Night!NightIsWhole

\* Whatever ids a provider sends and wherever a fold cuts, the transcript that goes out pairs
\* every call with one result, loses no result and keeps the work after the fold
\* (providers/base.py, agent/compaction.py); a call cut off by the budget is never run, and a
\* circuit is open only for failures that came in a row (providers/reliability.py).
TranscriptIsAccepted ==
    /\ part = "wire" =>
           Transcript!WireIsAccepted /\ Transcript!NoResultLost /\ Transcript!FoldKeepsTheWork
    /\ part = "stream" => Provider!NoCallOutOfBudget /\ Provider!OpenHasACause

\* What the user has chosen survives a crash between any two steps of a save, an edit by hand
\* and a file that no longer parses (providers/registry.py); the soul survives its rewriting,
\* by a dream or by the user, and is made from what the user last wrote (identity/store.py).
ChoiceStands ==
    /\ part = "config" => Saved!ChoiceStands
    /\ part = "night" => Night!NoSoulIsLost /\ Night!NeverPoisoned
    /\ part = "steer" => Steered!NoSoulIsLost /\ Steered!NeverPoisoned /\ Steered!SteerStands

\* Of the sidecar's runs one at a time is alive, what they may spend has been charged to the
\* job before they start, and no gated tool ran without the user's yes
\* (agent/orchestrator.py, pi/client.py, pi-sidecar/src); of the calls a job was let through
\* there are never more than its confirms the user approved, and none of them is asked for
\* once its worker is gone (agent/orchestrator.py); a night's dream is paid for three times at
\* most and applied once (dream/dreamer.py).
RunsAsGranted ==
    /\ part = "confirms" => Asked!ApprovalSpentOnce /\ Asked!NoGhostConfirm
    /\ part = "pi" => Attempts!RunsAsGranted
    /\ part = "idle" => Sidecar!RunsAsGranted
    /\ part = "night" => Night!PaidPerNight /\ Night!AppliedOnce

\* What is spoken means what was written: numbers, ranges, money and particles keep their
\* reading through the passes (voice/korean), no consonant of a loanword is lost when its
\* syllables are built (pronunciation), and a word has the reading of the first table that
\* claims it (lexicon).
ReadAsMeant ==
    /\ part = "korean" => Korean!ReadAsMeant /\ Korean!ParticlesAgree
    /\ part = "loanword" => Loanword!NothingIsSwallowed
    /\ part = "lexicon" => Words!FirstClaimWins
=============================================================================
