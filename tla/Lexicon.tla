------------------------------ MODULE Lexicon ------------------------------
(***************************************************************************)
(* The Korean reading lexicon of rau/voice/korean/lexicon: fourteen tables *)
(* merged in a fixed order, the first to claim a key giving its reading,   *)
(* and the lookup of rau/voice/korean/engine.py with its guard for short   *)
(* acronyms.                                                               *)
(*                                                                         *)
(* A table is the set of keys it claims; what a key is read as is told by  *)
(* the table it was read from.  Of the eight thousand keys the tables are  *)
(* cut down to those that several of them claim with different readings,   *)
(* one at least for every pair of tables that meet first on a key, which   *)
(* is all the merge can get wrong.                                         *)
(***************************************************************************)
EXTENDS Integers, Sequences, SequencesExt, FiniteSets

ROMANIZED == {"bts", "fan meeting", "kim"}
EXPRESSIONS == {"air conditioner", "asap", "level up", "mental", "vinyl"}
PLACES == {"jordan", "uae"}
BRANDS == {"bts", "jordan", "canon", "epic games", "premier league", "uefa"}
ACRONYMS == {"bts", "asap", "uae", "uefa", "4k", "am", "cd", "covid", "who", "it"}
PEOPLE == {"kim"}
TECHNOLOGY ==
    {"level up", "epic games", "4k", "copyright", "gradient", "microphone",
     "remote control", "retina"}
SCIENCE == {"gradient", "anatomy", "antibiotic", "conductor"}
MEDICINE ==
    {"covid", "retina", "antibiotic", "anxiety", "depression", "moisturizer",
     "muscle"}
BUSINESS == {"copyright", "depression", "credit"}
ACADEMIA ==
    {"mental", "canon", "anatomy", "anxiety", "depression", "credit", "literature",
     "vacation"}
CULTURE ==
    {"level up", "vinyl", "premier league", "cd", "copyright", "microphone",
     "conductor", "moisturizer", "literature", "baseball", "live"}
EVERYDAY ==
    {"fan meeting", "air conditioner", "mental", "vinyl", "microphone",
     "remote control", "muscle", "credit", "vacation", "baseball"}
BASIC == {"am", "who", "live"}

SOURCES ==
    <<ROMANIZED, EXPRESSIONS, PLACES, BRANDS, ACRONYMS, PEOPLE, TECHNOLOGY, SCIENCE,
      MEDICINE, BUSINESS, ACADEMIA, CULTURE, EVERYDAY, BASIC>>

Tables == DOMAIN SOURCES
AcronymTable == CHOOSE n \in Tables : SOURCES[n] = ACRONYMS
Keys == UNION Range(SOURCES)
ShortKeys == {"am", "cd", "it", "4k"} \cap Keys
None == 0 \* no reading

VARIABLES
    merged, \* tables the import has gone through
    words,  \* WORDS: the table each key is read from
    plain,  \* NON_ACRONYM
    read    \* the keys looked up so far: [key, upper, from]

vars == <<merged, words, plain, read>>

Init ==
    /\ merged = 0
    /\ words = [k \in Keys |-> None]
    /\ plain = [k \in Keys |-> None]
    /\ read = {}

-----------------------------------------------------------------------------
\* Slip: the last table to claim a key gives its reading.
LastClaim(merging, n) == [k \in Keys |-> IF k \in SOURCES[n] THEN n ELSE merging[k]]
\* dict.setdefault over one table.
Claim(merging, n) ==
    [k \in Keys |-> IF k \in SOURCES[n] /\ merging[k] = None THEN n ELSE merging[k]]

\* Slip: the merge without the acronyms stops at them.
StopsAt(n) == n >= AcronymTable
Skips(n) == n = AcronymTable

Merge ==
    /\ merged < Len(SOURCES)
    /\ merged' = merged + 1
    /\ words' = Claim(words, merged')
    /\ plain' = IF Skips(merged') THEN plain ELSE Claim(plain, merged')
    /\ UNCHANGED read

\* A lowercase key of one or two letters does not get its acronym reading.
Guarded(key, upper) == key \in ShortKeys /\ ~upper /\ key \in ACRONYMS

Lookup(key, upper) ==
    IF words[key] = None \/ ~Guarded(key, upper) THEN words[key] ELSE plain[key]

\* One token at a time is read; the last few are kept.
Read ==
    /\ merged = Len(SOURCES)
    /\ \E key \in Keys, upper \in BOOLEAN :
          read' = {[key |-> key, upper |-> upper, from |-> Lookup(key, upper)]}
    /\ UNCHANGED <<merged, words, plain>>

Next == Merge \/ Read

Spec == Init /\ [][Next]_vars

-----------------------------------------------------------------------------
(* Properties.                                                             *)

TypeOK ==
    /\ merged \in 0..Len(SOURCES)
    /\ words \in [Keys -> Tables \cup {None}] /\ plain \in [Keys -> Tables \cup {None}]
    /\ Cardinality(read) <= 1

Claimants(k) == {n \in 1..merged : k \in SOURCES[n]}
First(S) == IF S = {} THEN None ELSE CHOOSE n \in S : \A m \in S : n <= m

\* "A collision resolves the same way on every run": each key is read from the first
\* table that claims it, and from the first other one where acronyms are left out,
\* which agrees with it on every key that is no acronym.
FirstClaimWins ==
    \A k \in Keys :
        /\ words[k] = First(Claimants(k))
        /\ plain[k] = First(Claimants(k) \ {AcronymTable})

\* "A lowercase "it" inside an English fragment is not" an acronym
\* (rau/voice/korean/lexicon/__init__.py): where a word of the language has the key too,
\* the acronym is only read from capitals.
LowercaseIsAWord ==
    \A r \in read : ~r.upper /\ r.key \in BASIC => r.from # AcronymTable

=============================================================================
