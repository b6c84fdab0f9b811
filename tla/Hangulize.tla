------------------------------ MODULE Hangulize ------------------------------
(***************************************************************************)
(* The transliterator of rau/voice/korean/transliterate.py: the phonemes   *)
(* that the spelling rules make of a Latin word are assembled into Hangul  *)
(* syllables, one phoneme a step.                                          *)
(*                                                                         *)
(* Which spelling makes which phoneme is left out: a word is any short     *)
(* sequence of the phonemes the rules produce, one consonant for each way  *)
(* the assembly treats them.                                               *)
(***************************************************************************)
EXTENDS Integers, Sequences, SequencesExt, FiniteSets

CONSTANTS
    Sounds, \* the phonemes words are made of
    MaxLen  \* bound: phonemes in a word

\* ("v", jamo, long): "ai" is a diphthong of two syllables.
Vowels == {"a", "u", "ai", "A"}
ShortVowels == {"a", "u"} \* one jamo, not long
Glides == {"w", "y"}

\* Onsets, support syllables, codas and stop codas of the consonants.
ONSET_OF ==
    [k |-> "k", t |-> "t", s |-> "s", sh |-> "s", m |-> "m", n |-> "n", ng |-> "0",
     l |-> "r", r |-> "r", h |-> "h", d |-> "d"]
SUPPORT_OF ==
    [k |-> <<"k", "eu">>, t |-> <<"t", "eu">>, s |-> <<"s", "eu">>, sh |-> <<"s", "i">>,
     d |-> <<"d", "eu">>]
CODA_OF == [m |-> "m", n |-> "n", ng |-> "ng", l |-> "l"]
STOP_CODA == [k |-> "k", t |-> "s"]
CODA_CAPABLE == {"k", "n", "l", "m", "s", "ng"}
Y_GLIDE == [a |-> "ya", u |-> "yu"]
W_GLIDE == [a |-> "wa", u |-> "u"]

VARIABLES
    word,      \* the tokens of _phonemes
    at,        \* the next token
    syllables, \* assembled so far: [onset, vowel, coda]
    onset,     \* waiting for its vowel; "0" when there is none
    glide,     \* waiting for its vowel; "none" when there is none
    short      \* short_vowel

vars == <<word, at, syllables, onset, glide, short>>

\* What _RULES may make of a word of the language.
Words == {w \in BoundedSeq(Sounds, MaxLen) : w # << >>}

Init ==
    /\ word \in Words
    /\ at = 1
    /\ syllables = << >>
    /\ onset = "0"
    /\ glide = "none"
    /\ short = FALSE

-----------------------------------------------------------------------------
compose(on, vowel, coda) == [onset |-> on, vowel |-> vowel, coda |-> coda]

\* with_coda: only a syllable without a coda takes one.
Attaches(coda) == syllables # << >> /\ Last(syllables).coda = "none" /\ coda \in CODA_CAPABLE
With(coda) == [syllables EXCEPT ![Len(syllables)].coda = coda]

Glided(vowel) ==
    CASE glide = "y" /\ vowel \in DOMAIN Y_GLIDE -> Y_GLIDE[vowel]
      [] glide = "w" /\ vowel \in DOMAIN W_GLIDE -> W_GLIDE[vowel]
      [] OTHER -> vowel
Jamo(v) == IF v = "ai" THEN <<"a", "i">> ELSE IF v = "A" THEN <<"a">> ELSE <<v>>

\* _next_takes_vowel: a vowel follows, past any glides.
NextTakesVowel ==
    \E j \in (at + 1)..Len(word) :
        word[j] \in Vowels /\ \A i \in (at + 1)..(j - 1) : word[i] \in Glides

Token == word[at]
Consonant == at <= Len(word) /\ Token \notin Vowels \cup Glides
Step == at' = at + 1 /\ UNCHANGED word

Vowel ==
    /\ at <= Len(word) /\ Token \in Vowels
    /\ LET jamo == Jamo(Token)
           rest == [i \in 1..(Len(jamo) - 1) |-> compose("0", jamo[i + 1], "none")]
       IN  syllables' = Append(syllables, compose(onset, Glided(jamo[1]), "none")) \o rest
    /\ onset' = "0"
    /\ glide' = "none"
    /\ short' = (Token \in ShortVowels)
    /\ Step

Glide ==
    /\ at <= Len(word) /\ Token \in Glides
    /\ glide' = Token
    /\ UNCHANGED <<syllables, onset, short>>
    /\ Step

\* Before a vowel: an onset, doubled when it is an l, palatalising when it is sh.
Onset ==
    /\ Consonant /\ NextTakesVowel
    /\ IF Token = "l" /\ Attaches("l")
       THEN syllables' = With("l") /\ onset' = "r"
       ELSE UNCHANGED syllables /\ onset' = ONSET_OF[Token]
    /\ glide' = IF Token = "sh" THEN "y" ELSE glide
    /\ short' = FALSE
    /\ Step

Silent ==
    /\ Consonant /\ ~NextTakesVowel /\ Token \in {"r", "h"}
    /\ short' = FALSE
    /\ UNCHANGED <<syllables, onset, glide>>
    /\ Step

\* Slip: a consonant whose coda slot is taken is dropped.
DropsTaken(c) == syllables
\* The coda slot is taken: after l it resyllabifies, else a syllable of its own.
OwnSyllable(c) ==
    IF syllables # << >> /\ Last(syllables).coda = "l" /\ CODA_OF[c] \in CODA_CAPABLE \ {"l"}
    THEN Append(syllables, compose("r", "eu", CODA_OF[c]))
    ELSE Append(syllables, compose(ONSET_OF[c], "eu", "none"))

Support(c) ==
    IF c \in DOMAIN SUPPORT_OF
    THEN Append(syllables, compose(SUPPORT_OF[c][1], SUPPORT_OF[c][2], "none"))
    ELSE syllables

Coda ==
    /\ Consonant /\ ~NextTakesVowel /\ Token \notin {"r", "h"}
    /\ syllables' =
          IF short /\ Token \in DOMAIN STOP_CODA /\ Attaches(STOP_CODA[Token])
          THEN With(STOP_CODA[Token])
          ELSE IF Token \in DOMAIN CODA_OF
          THEN IF Attaches(CODA_OF[Token]) THEN With(CODA_OF[Token]) ELSE OwnSyllable(Token)
          ELSE Support(Token)
    /\ short' = FALSE
    /\ UNCHANGED <<onset, glide>>
    /\ Step

Next == Vowel \/ Glide \/ Onset \/ Silent \/ Coda

Spec == Init /\ [][Next]_vars

-----------------------------------------------------------------------------
(* Properties.                                                             *)

TypeOK ==
    /\ at \in 1..(Len(word) + 1)
    /\ \A i \in DOMAIN syllables : syllables[i].coda \in CODA_CAPABLE \cup {"none"}
    /\ onset \in Range(ONSET_OF) /\ glide \in Glides \cup {"none"}

Marks == Cardinality({i \in DOMAIN syllables : syllables[i].onset # "0"})
         + Cardinality({i \in DOMAIN syllables : syllables[i].coda # "none"})
VowelBefore(i) == \E j \in (i + 1)..Len(word) :
                      word[j] \in Vowels /\ \A k \in (i + 1)..(j - 1) : word[k] \in Glides
\* A consonant that is heard: not a glide, no r or h before a consonant, no ng, which is
\* mute where it cannot be a coda.
Heard(i) == /\ word[i] \notin Vowels \cup Glides \cup {"ng"}
            /\ word[i] \in {"r", "h"} => VowelBefore(i)

\* Nothing is swallowed: every vowel has its syllables, and every consonant but the
\* silent ones leaves its mark as an onset or a coda, however they pile up.
NothingIsSwallowed ==
    at > Len(word) =>
        /\ Marks >= Cardinality({i \in DOMAIN word : Heard(i)})
        /\ Len(syllables) >= Cardinality({i \in DOMAIN word : word[i] \in Vowels})
                             + Cardinality({i \in DOMAIN word : word[i] = "ai"})

=============================================================================
