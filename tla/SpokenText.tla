----------------------------- MODULE SpokenText -----------------------------
(***************************************************************************)
(* What a sentence goes through before it is spoken: the passes of         *)
(* rau/voice/korean over Korean text and those of                          *)
(* rau/voice/pronunciation.py over English text.  Every pass is a list of  *)
(* regular expressions, each rewriting what the earlier ones left; what    *)
(* can go wrong is one of them claiming what was another's.                *)
(*                                                                         *)
(* A text is a sequence of pieces: numbers, signs, units, particles and    *)
(* words, each one representative of its class.  Blanks are left out.      *)
(***************************************************************************)
EXTENDS Integers, Sequences, SequencesExt, FiniteSets

CONSTANTS
    Short, \* bound: every text of up to this many pieces
    Pieces \* the pieces those texts are made of

-----------------------------------------------------------------------------
(* The classes of pieces.                                                  *)

OneDigit == {"3"}
TwoDigits == {"10"}
Hours == OneDigit \cup TwoDigits \* [01]?\d|2[0-4]
Years == {"2026"}
Numbers == OneDigit \cup TwoDigits \cup Years

Speeds == [h |-> "siseok", s |-> "choseok"]
Lengths == {"km", "m"}
UNITS == [km |-> "killomiteo", m |-> "miteo", h |-> "sigan", kg |-> "killogeuraem", s |-> "cho"]
BARE_UNITS == {"km", "kg"}
Units == DOMAIN UNITS

\* Counters that force a native numeral; "dae" is also what a ratio is read with.
NATIVE_COUNTERS == {"si", "myeong", "dae"}
PAIRS == {[consonant |-> "eun", vowel |-> "neun"], [consonant |-> "gwa", vowel |-> "wa"]}
Particles == {p.consonant : p \in PAIRS} \cup {p.vowel : p \in PAIRS}
FOLLOWERS == Particles

FORMULAS == [H2O |-> "mul"]
WORDS == [api |-> "eipiai"]
LETTERS == [h |-> "eichi", m |-> "em", s |-> "eseu"]
Latin == Units \cup DOMAIN FORMULAS \cup {"api", "KBS", "xylo"}
Verbatim == {"code"}
Alnum == Numbers \cup Latin

\* Readings that end in a vowel; the others end in a consonant.
VowelFinal == {"killomiteo", "miteo", "cho", "eipiai", "keibieseu", "jaillo", "eichi", "eseu",
               "eichi 2 o"}
Readings == VowelFinal \cup {"sigan", "killogeuraem", "mul", "em"}
Native == [n \in Hours |-> IF n = "3" THEN "se" ELSE "yeol"]
NativeNumerals == {"se", "yeol"}
Hangul == Readings \cup Particles \cup NATIVE_COUNTERS \cup NativeNumerals
          \cup {"mal", "wol", "siwol", "nyeon", "il", "bun", "do", "seopssi", "yeongha", "eseo",
                "maineoseu", "jegop", "ui", "bunui", "deohagi", "siseok", "choseok", "dang",
                "dalleo", "peosenteu", "yak"}

-----------------------------------------------------------------------------
(* re.sub for patterns of a fixed number of pieces: leftmost first, what   *)
(* was matched is not looked at again; `before` and `after` are what the   *)
(* lookarounds see of the text as it was.                                  *)

Sub(text, n, Matches(_, _, _), Out(_)) ==
    LET scan[i \in 1..(Len(text) + n)] ==
            LET m == SubSeq(text, i, i + n - 1)
                before == IF i = 1 THEN "start" ELSE text[i - 1]
                after == IF i + n > Len(text) THEN "end" ELSE text[i + n]
            IN  IF i > Len(text) THEN << >>
                ELSE IF i + n - 1 <= Len(text) /\ Matches(m, before, after)
                     THEN Out(m) \o scan[i + n]
                     ELSE <<text[i]>> \o scan[i + 1]
    IN  scan[1]

\* Slip: the particle stays as it was typed.
AsTyped(reading, particle) == particle
\* agree: the particle takes the form the new reading calls for.
Agree(reading, particle) ==
    LET pair == CHOOSE p \in PAIRS : particle \in {p.consonant, p.vowel}
    IN  IF reading \notin Readings THEN particle
        ELSE IF reading \in VowelFinal THEN pair.vowel ELSE pair.consonant

\* A rewriting whose pattern may end in a particle, when no Hangul follows that.
SubAgreeing(text, n, Matches(_, _, _), Out(_)) ==
    LET bare(m, b, a) == Matches(m, b, a)
        full(m, b, a) == /\ m[n + 1] \in Particles /\ a \notin Hangul
                         /\ Matches(SubSeq(m, 1, n), b, m[n + 1])
        out(m) == Out(SubSeq(m, 1, n))
    IN  Sub(Sub(text, n + 1, full, LAMBDA m : out(m) \o <<Agree(Last(out(m)), m[n + 1])>>),
            n, bare, Out)

-----------------------------------------------------------------------------
(* rau/voice/korean/units.py                                               *)

Money(t) == Sub(t, 2, LAMBDA m, b, a : m[1] = "$" /\ m[2] \in Numbers
                                       /\ b \notin Alnum /\ a \notin Alnum,
                LAMBDA m : <<m[2], "dalleo">>)
ScaledMoney(t) == Sub(t, 3, LAMBDA m, b, a : m[1] = "$" /\ m[2] \in Numbers /\ m[3] = "m"
                                             /\ b \notin Alnum /\ a \notin Alnum,
                      LAMBDA m : <<"2026", "dalleo">>)
\* A sign before the number is the number's, whatever stands before it.
BelowZero(t) == Sub(t, 3, LAMBDA m, b, a : m[1] = "-" /\ m[2] \in Numbers /\ m[3] = "degC",
                    LAMBDA m : <<"seopssi", "yeongha", m[2], "do">>)
Celsius(t) == Sub(t, 2, LAMBDA m, b, a : m[1] \in Numbers /\ m[2] = "degC",
                  LAMBDA m : <<"seopssi", m[1], "do">>)
Percent(t) == Sub(t, 2, LAMBDA m, b, a : m[1] \in Numbers /\ m[2] = "%",
                  LAMBDA m : <<m[1], "peosenteu">>)
Compound(t) ==
    SubAgreeing(t, 4, LAMBDA m, b, a : /\ m[1] \in Numbers /\ m[2] \in Units /\ m[3] = "/"
                                       /\ m[4] \in Units /\ b \notin Alnum /\ a \notin Alnum,
                LAMBDA m : IF m[2] \in Lengths /\ m[4] \in DOMAIN Speeds
                           THEN <<Speeds[m[4]], m[1], UNITS[m[2]]>>
                           ELSE <<UNITS[m[4]], "dang", m[1], UNITS[m[2]]>>)
Measurement(t) ==
    SubAgreeing(t, 2, LAMBDA m, b, a : /\ m[1] \in Numbers /\ m[2] \in Units
                                       /\ b \notin Alnum /\ a \notin Alnum \cup {"/"},
                LAMBDA m : <<m[1], UNITS[m[2]]>>)

ApplyUnits(t) ==
    Measurement(Compound(Percent(Money(Celsius(BelowZero(ScaledMoney(t)))))))

Formula(t) == SubAgreeing(t, 1, LAMBDA m, b, a : m[1] \in DOMAIN FORMULAS
                                                 /\ b \notin Alnum /\ a \notin Latin,
                          LAMBDA m : <<FORMULAS[m[1]]>>)

-----------------------------------------------------------------------------
(* rau/voice/korean/numbers.py                                             *)

IsoDate(t) == Sub(t, 5, LAMBDA m, b, a : /\ m[1] \in Years /\ m[2] = "-" /\ m[3] \in Hours
                                         /\ m[4] = "-" /\ m[5] \in Hours
                                         /\ b \notin Numbers /\ a \notin Numbers,
                  LAMBDA m : <<m[1], "nyeon", m[3], "wol", m[5], "il">>)
Fraction(t) == Sub(t, 3, LAMBDA m, b, a : /\ m[1] \in OneDigit /\ m[2] = "/" /\ m[3] \in Hours
                                          /\ {b, a} \cap (Numbers \cup {"/"}) = {},
                   LAMBDA m : <<m[3], "bunui", m[1]>>)
Power(t) == Sub(t, 3, LAMBDA m, b, a : /\ m[1] \in Numbers /\ m[2] = "^" /\ m[3] \in Numbers
                                       /\ b \notin Latin /\ a \notin Alnum,
                LAMBDA m : <<m[1], "ui", m[3], "jegop">>)
NumRange(t) == Sub(t, 1, LAMBDA m, b, a : m[1] = "~" /\ b \in Numbers /\ a \in Numbers,
                   LAMBDA m : <<"eseo">>)
Minus(t) == Sub(t, 1, LAMBDA m, b, a : /\ m[1] = "-" /\ a \in Numbers
                                       /\ b \notin Alnum \cup Hangul,
                LAMBDA m : <<"maineoseu">>)
October(t) == Sub(t, 2, LAMBDA m, b, a : m = <<"10", "wol">> /\ b \notin Numbers
                                         /\ a \notin Numbers,
                  LAMBDA m : <<"siwol">>)
ColonClock(t) == Sub(t, 3, LAMBDA m, b, a : /\ m[1] \in Hours /\ m[2] = ":" /\ m[3] \in TwoDigits
                                            /\ {b, a} \cap (Numbers \cup {":"}) = {},
                     LAMBDA m : <<m[1], "si", m[3], "bun">>)
Clock(t) == Sub(t, 4, LAMBDA m, b, a : /\ m[1] \in Hours /\ m[2] = "si" /\ m[3] \in Hours
                                       /\ m[4] = "bun" /\ b \notin Numbers,
                LAMBDA m : <<Native[m[1]], "si", m[3], "bun">>)
Counter(t) == Sub(t, 2, LAMBDA m, b, a : /\ m[1] \in Hours /\ m[2] \in NATIVE_COUNTERS
                                         /\ b \notin Numbers
                                         /\ a \notin (Hangul \ FOLLOWERS) \cup Numbers,
                  LAMBDA m : <<Native[m[1]], m[2]>>)

\* Slip: the counters are read before the ranges and the clocks.
CountersFirst(t) ==
    Clock(ColonClock(October(Minus(NumRange(Counter(Power(Fraction(IsoDate(t)))))))))
ApplyNumbers(t) ==
    Counter(Clock(ColonClock(October(Minus(NumRange(Power(Fraction(IsoDate(t)))))))))

-----------------------------------------------------------------------------
(* rau/voice/korean/engine.py                                              *)

Ratio(t) == Sub(t, 3, LAMBDA m, b, a : /\ m[1] \in Numbers /\ m[2] = ":" /\ m[3] \in Numbers
                                       /\ {b, a} \cap (Numbers \cup {":"}) = {},
                LAMBDA m : <<m[1], "dae", m[3]>>)
Operators(t) == Sub(t, 1, LAMBDA m, b, a : m[1] = "+" /\ b \in Numbers /\ a \in Numbers,
                    LAMBDA m : <<"deohagi">>)
About(t) == Sub(t, 1, LAMBDA m, b, a : m[1] = "~" /\ a \in Numbers /\ b \notin Alnum \cup Hangul,
                LAMBDA m : <<"yak">>)
ApplySymbols(t) == About(Operators(Ratio(t)))

\* _speak_word: the lexicon, a unit that may stand bare, spelt out when in capitals,
\* transliterated when nothing knows it.
SpeakWord(w) ==
    CASE w \in DOMAIN WORDS -> WORDS[w]
      [] w \in BARE_UNITS -> UNITS[w]
      [] w \in DOMAIN LETTERS -> LETTERS[w]
      [] w = "H2O" -> "eichi 2 o"
      [] w = "KBS" -> "keibieseu"
      [] OTHER -> "jaillo"
ApplyWords(t) ==
    SubAgreeing(t, 1, LAMBDA m, b, a : m[1] \in Latin, LAMBDA m : <<SpeakWord(m[1])>>)

-----------------------------------------------------------------------------
(* rau/voice/pronunciation.py, for text without Hangul.                    *)

Names == [km |-> "kilometers", m |-> "meters", h |-> "hours", kg |-> "kilograms", s |-> "seconds"]

\* Slip: a length is seen before the amount of money it is part of.
LengthsFirst(t) ==
    Sub(t, 2, LAMBDA m, b, a : m[1] \in Numbers /\ m[2] \in Units /\ a \notin Alnum \cup {"/"},
        LAMBDA m : <<m[1], Names[m[2]]>>)
Financial(t) ==
    Sub(t, 3, LAMBDA m, b, a : m[1] = "$" /\ m[2] \in Numbers /\ m[3] = "m"
                               /\ b \notin Alnum /\ a \notin Alnum,
        LAMBDA m : <<m[2], "million", "dollars">>)

Degrees(t) == Sub(t, 2, LAMBDA m, b, a : m[1] \in Numbers /\ m[2] = "degC",
                  LAMBDA m : <<m[1], "degrees Celsius">>)
Amounts(t) == Sub(t, 2, LAMBDA m, b, a : m[1] = "$" /\ m[2] \in Numbers /\ b \notin Alnum
                                         /\ a \notin Alnum,
                  LAMBDA m : <<m[2], "dollars">>)
Rates(t) == Sub(t, 4, LAMBDA m, b, a : /\ m[1] \in Numbers /\ m[2] \in Units /\ m[3] = "/"
                                       /\ m[4] \in Units /\ b \notin Alnum /\ a \notin Alnum,
                LAMBDA m : <<m[1], Names[m[2]], "per", Names[m[4]]>>)
Lengthy(t) == Sub(t, 2, LAMBDA m, b, a : /\ m[1] \in Numbers /\ m[2] \in Units
                                         /\ b \notin Alnum /\ a \notin Alnum \cup {"/"},
                  LAMBDA m : <<m[1], Names[m[2]]>>)
Chemistry(t) == Sub(t, 1, LAMBDA m, b, a : m[1] \in DOMAIN FORMULAS /\ b \notin Latin
                                           /\ a \notin Latin,
                    LAMBDA m : <<"water">>)

Powers(t) == Sub(t, 3, LAMBDA m, b, a : m[1] \in Numbers /\ m[2] = "^" /\ m[3] \in Numbers
                                         /\ b \notin Alnum,
                 LAMBDA m : <<m[1], "to the", m[3], "power">>)
Signs(t) == Sub(t, 1, LAMBDA m, b, a : m[1] = "~" /\ a \in Numbers
                                        /\ b \notin Alnum \cup {"degC", "water"},
                LAMBDA m : <<"about">>)

NormalizeEnglish(t) ==
    Signs(Chemistry(Lengthy(Rates(Powers(Amounts(Degrees(Financial(t))))))))

-----------------------------------------------------------------------------
VARIABLES
    written, \* the text the model wrote
    text,    \* what the passes have made of it
    pass     \* the pass that comes next

vars == <<written, text, pass>>

HasHangul(t) == \E i \in DOMAIN t : t[i] \in Hangul

\* Notations that are longer than the short texts: two numbers and a sign, then a word.
Longer ==
    {<<n, sign, m, w>> : n \in Numbers, m \in Numbers, sign \in {":", "~", "/", "-", "+", "^"},
                         w \in {"myeong", "degC", "kg", "eun", "mal"}}
    \cup {<<n, "km", "/", d, w>> : n \in Numbers, d \in {"h", "kg"}, w \in {"eun", "mal"}}
    \cup {<<"2026", "-", "3", "-", "10", w>> : w \in {"eun", "mal"}}
    \cup {<<"$", "3", "m", w>> : w \in {"code", "eun", "km"}}

\* Words and numbers run into each other only as a number and its unit, and no degree
\* sign stands without a number.
Apart(t) == \A i \in 1..(Len(t) - 1) :
                {t[i], t[i + 1]} \subseteq Alnum \cup {"degC"} =>
                    t[i] \in Numbers /\ t[i + 1] \in Units \cup {"degC"}
Measured(t) == \A i \in DOMAIN t : t[i] = "degC" => i > 1 /\ t[i - 1] \in Numbers

Init ==
    /\ written \in {t \in BoundedSeq(Pieces, Short) \cup Longer : Apart(t) /\ Measured(t)}
    /\ text = written
    /\ pass = IF HasHangul(written) THEN "units" ELSE "english"

Pass(from, to, result) ==
    /\ pass = from
    /\ pass' = to
    /\ text' = result
    /\ UNCHANGED written

Units_ == Pass("units", "formula", ApplyUnits(text))
Formula_ == Pass("formula", "numbers", Formula(text))
\* Slip: the symbols are read before the numbers.
SymbolsFirst_ == Pass("numbers", "symbols", ApplyNumbers(ApplySymbols(text)))
Numbers_ == Pass("numbers", "symbols", ApplyNumbers(text))
Symbols_ == Pass("symbols", "words", ApplySymbols(text))
Words_ == Pass("words", "spoken", ApplyWords(text))
English_ == Pass("english", "spoken", NormalizeEnglish(text))

Next == Units_ \/ Formula_ \/ Numbers_ \/ Symbols_ \/ Words_ \/ English_

Spec == Init /\ [][Next]_vars

-----------------------------------------------------------------------------
(* Properties.                                                             *)

\* A text is between two passes.
TypeOK == pass \in {"units", "formula", "numbers", "symbols", "words", "english", "spoken"}

At(t, i) == IF i \in DOMAIN t THEN t[i] ELSE "edge"
Has(t, run) == \E i \in DOMAIN t : \A k \in DOMAIN run : At(t, i + k - 1) = run[k]
Alone(i, n, others) == At(written, i - 1) \notin others /\ At(written, i + n) \notin others

\* Two numbers and a colon are a clock, with a native hour, or a ratio, with digits
\* ("the clock has to claim 14:05 before the ratio rule turns it into" a ratio, "and the"
\* word "a ratio produces must not then look like a native counter", engine.py).
ColonsReadRight ==
    pass = "spoken" /\ HasHangul(written) =>
        \A i \in DOMAIN written :
            /\ At(written, i) \in Numbers /\ At(written, i + 1) = ":"
            /\ At(written, i + 2) \in Numbers /\ Alone(i, 3, Numbers \cup {":", "$", "-"})
            /\ At(written, i + 3) \notin {"degC", "wol"} \cup Units \cup NATIVE_COUNTERS
            => IF written[i] \in Hours /\ written[i + 2] \in TwoDigits
               THEN Has(text, <<Native[written[i]], "si", written[i + 2], "bun">>)
               ELSE \/ Has(text, <<written[i], "dae", written[i + 2]>>)
                    \/ Has(text, <<written[i], "dae", "siwol">>)

\* A range is spoken: it is resolved before "the native numeral [...] no longer looks
\* like a digit to the range" (numbers.py).
RangesAreSpoken ==
    pass = "spoken" /\ HasHangul(written) =>
        \A i \in DOMAIN text : At(text, i) = "~" /\ At(text, i - 1) \in Numbers =>
            At(text, i + 1) \notin Numbers \cup NativeNumerals

\* An amount is never read as a length: "compact financial notation must be claimed
\* before 5m can look like a five-meter measurement" (pronunciation.py).
MoneyIsMoney ==
    pass = "spoken" /\ ~HasHangul(written) =>
        \A i \in DOMAIN written :
            /\ At(written, i) = "$" /\ At(written, i + 1) \in Numbers /\ At(written, i + 2) = "m"
            /\ Alone(i, 3, Alnum)
            => Has(text, <<written[i + 1], "million", "dollars">>)

ReadAsMeant == ColonsReadRight /\ RangesAreSpoken /\ MoneyIsMoney

\* A particle after a word that was rewritten takes the form the new word calls for.
ParticlesAgree ==
    pass = "spoken" /\ HasHangul(written) =>
        \A i \in DOMAIN text :
            text[i] \in Readings /\ At(text, i + 1) \in Particles /\ At(text, i + 2) \notin Hangul
                => (text[i] \in VowelFinal) = (text[i + 1] \in {p.vowel : p \in PAIRS})

=============================================================================
