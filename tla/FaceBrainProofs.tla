---------------------------- MODULE FaceBrainProofs ----------------------------
(* That the history of FaceBrain keeps its order while turns race for the     *)
(* foreground: no message of another turn comes between a question and its    *)
(* answer, nothing is there twice, what a summary stands for is gone, no slot *)
(* outlives its turn, and of the turns still answering only the newest has    *)
(* not been told to stop. For any number of turns, of rounds, of folds and of *)
(* resets.                                                                    *)
EXTENDS FaceBrain, TLAPS, WellFoundedInduction, SequenceTheorems

\* What the bounds may be: no turn is named 0, which marks a summary, and a fold keeps
\* fewer messages than it takes to start one.
Limits == 0 \notin Turns /\ FoldAt \in Nat /\ KeepRecent \in 0..FoldAt

-----------------------------------------------------------------------------
(* Sequences: the least of a set, what a filter keeps, what a replacement     *)
(* and a fold put where.                                                      *)

\* A set of naturals that has a member has a least one.
LEMMA Least ==
    ASSUME NEW S, S \subseteq Nat, S # {}
    PROVE  \E m \in S : \A n \in S : m <= n
<1>1. IsWellFoundedOn(OpToRel(<, Nat), Nat)
  BY NatLessThanWellFounded, Zenon
<1>2. PICK m \in S : \A n \in S : ~(<<n, m>> \in OpToRel(<, Nat))
  BY <1>1, WFMin, Zenon
<1>3. \A n \in S : ~(n < m)
  BY <1>2 DEF OpToRel
<1>4. QED
  BY <1>3

\* The recursion of Visible defines a function.
SeenStep(h, reserved, f, i) ==
    IF i = 0 THEN << >>
    ELSE IF h[i].kind = "pending" /\ h[i].turn \in reserved THEN f[i - 1]
    ELSE Append(f[i - 1], h[i])

LEMMA SeenExists ==
    ASSUME NEW h, NEW reserved, NEW n \in Nat
    PROVE  \E f : f = [i \in 0..n |-> SeenStep(h, reserved, f, i)]
<1> DEFINE P(m) == \E f : f = [i \in 0..m |-> SeenStep(h, reserved, f, i)]
           Bad == {m \in Nat : ~P(m)}
<1>1. P(0)
  <2> DEFINE f == [i \in {0} |-> << >>]
  <2>1. f = [i \in 0..0 |-> SeenStep(h, reserved, f, i)]
    BY DEF SeenStep
  <2>2. QED
    BY <2>1
<1>2. ASSUME NEW m \in Nat, P(m) PROVE P(m + 1)
  <2>1. PICK f : f = [i \in 0..m |-> SeenStep(h, reserved, f, i)]
    BY <1>2
  <2> DEFINE g == [i \in 0..(m + 1) |-> IF i <= m THEN f[i] ELSE SeenStep(h, reserved, f, i)]
  <2>2. \A i \in 0..(m + 1) : g[i] = SeenStep(h, reserved, g, i)
    <3>1. TAKE i \in 0..(m + 1)
    <3>2. CASE i = 0
      BY <2>1, <3>2 DEF SeenStep
    <3>3. CASE i \in 1..m
      <4>1. g[i] = f[i] /\ g[i - 1] = f[i - 1] /\ f[i] = SeenStep(h, reserved, f, i)
        BY <2>1, <3>3
      <4>2. QED
        BY <4>1, <3>3 DEF SeenStep
    <3>4. CASE i = m + 1
      BY <3>4 DEF SeenStep
    <3>5. QED
      BY <3>2, <3>3, <3>4
  <2>3. g = [i \in 0..(m + 1) |-> SeenStep(h, reserved, g, i)]
    BY <2>2
  <2>4. QED
    BY <2>3
<1>3. ASSUME Bad # {} PROVE FALSE
  <2> HIDE DEF P
  <2>1. PICK m \in Bad : \A k \in Bad : m <= k
    BY <1>3, Least
  <2>2. m # 0
    BY <1>1, <2>1
  <2>3. m - 1 \in Nat /\ m - 1 \notin Bad
    BY <2>1, <2>2
  <2>4. P(m - 1 + 1)
    BY <1>2, <2>3
  <2>5. QED
    BY <2>1, <2>4
<1>4. QED
  BY <1>3

\* What Visible keeps is in the history, and is no slot of a reserved turn.
LEMMA VisibleFrom ==
    ASSUME NEW S, NEW h \in Seq(S), NEW reserved
    PROVE  Visible(h, reserved)
             \in Seq({m \in {h[i] : i \in 1..Len(h)} : ~(m.kind = "pending" /\ m.turn \in reserved)})
<1> DEFINE R == {m \in {h[i] : i \in 1..Len(h)} : ~(m.kind = "pending" /\ m.turn \in reserved)}
           F(f) == [i \in 0..Len(h) |-> SeenStep(h, reserved, f, i)]
           seen == CHOOSE f : f = F(f)
           Bad == {i \in 0..Len(h) : seen[i] \notin Seq(R)}
<1>1. Len(h) \in Nat
  OBVIOUS
<1>2. \E f : f = F(f)
  BY <1>1, SeenExists
<1>3. seen = F(seen)
  <2> HIDE DEF F
  <2>1. QED
    BY <1>2
<1>4. Visible(h, reserved) = seen[Len(h)]
  BY DEF Visible, SeenStep
<1> HIDE DEF seen
<1>5. \A i \in 0..Len(h) : seen[i] = SeenStep(h, reserved, seen, i)
  BY <1>3
<1>6. \A i \in 1..Len(h) : ~(h[i].kind = "pending" /\ h[i].turn \in reserved) => h[i] \in R
  OBVIOUS
<1> HIDE DEF R, F
<1>7. seen[0] \in Seq(R)
  <2>1. seen[0] = SeenStep(h, reserved, seen, 0)
    BY <1>1, <1>5
  <2>2. seen[0] = << >>
    BY <2>1 DEF SeenStep
  <2>3. QED
    BY <2>2
<1>8. ASSUME NEW i \in 1..Len(h), seen[i - 1] \in Seq(R) PROVE seen[i] \in Seq(R)
  <2>1. seen[i] = SeenStep(h, reserved, seen, i) /\ i # 0
    BY <1>1, <1>5
  <2>2. CASE h[i].kind = "pending" /\ h[i].turn \in reserved
    BY <1>8, <2>1, <2>2 DEF SeenStep
  <2>3. CASE ~(h[i].kind = "pending" /\ h[i].turn \in reserved)
    <3>1. h[i] \in R
      BY <1>6, <2>3
    <3>2. Append(seen[i - 1], h[i]) \in Seq(R)
      BY <1>8, <3>1
    <3>3. QED
      BY <2>1, <2>3, <3>2 DEF SeenStep
  <2>4. QED
    BY <2>2, <2>3
<1>9. ASSUME Bad # {} PROVE FALSE
  <2>1. Bad \subseteq Nat
    BY <1>1
  <2>2. PICK i \in Bad : \A k \in Bad : i <= k
    BY <1>9, <2>1, Least
  <2>3. i \in 1..Len(h)
    BY <1>1, <1>7, <2>2
  <2>4. i - 1 \in 0..Len(h) /\ ~(i <= i - 1)
    BY <1>1, <2>3
  <2>5. seen[i - 1] \in Seq(R)
    BY <2>2, <2>4
  <2>6. QED
    BY <1>8, <2>2, <2>3, <2>5
<1>10. seen[Len(h)] \in Seq(R)
  BY <1>1, <1>9
<1>11. QED
  BY <1>4, <1>10 DEF R

\* Where each message of a history with the p-th replaced by l others comes from.
Origin(p, l, i) == IF i < p THEN i ELSE IF i < p + l THEN p ELSE i - l + 1

\* The history with its p-th message replaced.
Replacing(h, p, by) == SubSeq(h, 1, p - 1) \o by \o SubSeq(h, p + 1, Len(h))

\* A replacement puts `by` where the one message was and shifts what follows.
LEMMA Replaced ==
    ASSUME NEW S, NEW h \in Seq(S), NEW by \in Seq(S), NEW p \in 1..Len(h), NEW r,
           r = Replacing(h, p, by)
    PROVE  /\ r \in Seq(S) /\ Len(r) = Len(h) - 1 + Len(by)
           /\ \A i \in 1..Len(r) :
                 r[i] = IF p <= i /\ i < p + Len(by) THEN by[i - p + 1]
                        ELSE h[Origin(p, Len(by), i)]
<1> DEFINE a == SubSeq(h, 1, p - 1)
           b == SubSeq(h, p + 1, Len(h))
<1>1. /\ a \in Seq(S) /\ Len(a) = p - 1 /\ \A i \in 1..(p - 1) : a[i] = h[i]
      /\ b \in Seq(S) /\ Len(b) = Len(h) - p /\ \A i \in 1..(Len(h) - p) : b[i] = h[p + i]
  <2>1. Len(h) \in Nat /\ \A i \in 1..Len(h) : h[i] \in S
    OBVIOUS
  <2>2. a \in Seq(S) /\ Len(a) = p - 1 /\ \A i \in 1..(p - 1) : a[i] = h[i]
    BY <2>1, SubSeqProperties
  <2>3. b \in Seq(S) /\ Len(b) = Len(h) - p /\ \A i \in 1..(Len(h) - p) : b[i] = h[p + i]
    <3>1. p + 1 \in Int /\ Len(h) \in Int /\ \A i \in (p + 1)..Len(h) : h[i] \in S
      BY <2>1
    <3>2. /\ b \in Seq(S) /\ Len(b) = IF p + 1 <= Len(h) THEN Len(h) - (p + 1) + 1 ELSE 0
          /\ \A i \in 1..(Len(h) - (p + 1) + 1) : b[i] = h[(p + 1) + i - 1]
      BY <3>1, SubSeqProperties
    <3>3. QED
      BY <2>1, <3>2
  <2>4. QED
    BY <2>2, <2>3
<1> HIDE DEF a, b
<1>2. PICK x : x = a \o by
  OBVIOUS
<1>3. /\ x \in Seq(S) /\ Len(x) = p - 1 + Len(by)
      /\ \A i \in 1..(p - 1 + Len(by)) : x[i] = IF i <= p - 1 THEN a[i] ELSE by[i - (p - 1)]
  <2>1. /\ a \o by \in Seq(S) /\ Len(a \o by) = Len(a) + Len(by)
        /\ \A i \in 1..(Len(a) + Len(by)) :
              (a \o by)[i] = IF i <= Len(a) THEN a[i] ELSE by[i - Len(a)]
    BY <1>1, ConcatProperties
  <2>2. /\ x \in Seq(S) /\ Len(x) = Len(a) + Len(by)
        /\ \A i \in 1..(Len(a) + Len(by)) : x[i] = IF i <= Len(a) THEN a[i] ELSE by[i - Len(a)]
    BY <1>2, <2>1, Zenon
  <2>3. QED
    BY <1>1, <2>2
<1>4. r = x \o b
  BY <1>2, Zenon DEF Replacing, a, b
<1>5. /\ r \in Seq(S) /\ Len(r) = Len(x) + Len(b)
      /\ \A i \in 1..(Len(x) + Len(b)) : r[i] = IF i <= Len(x) THEN x[i] ELSE b[i - Len(x)]
  <2>1. /\ x \o b \in Seq(S) /\ Len(x \o b) = Len(x) + Len(b)
        /\ \A i \in 1..(Len(x) + Len(b)) :
              (x \o b)[i] = IF i <= Len(x) THEN x[i] ELSE b[i - Len(x)]
    BY <1>1, <1>3, ConcatProperties
  <2>2. QED
    BY <1>4, <2>1, Zenon
<1>6. Len(by) \in Nat /\ Len(h) \in Nat
  OBVIOUS
<1>7. ASSUME NEW i \in 1..Len(r)
      PROVE  r[i] = IF p <= i /\ i < p + Len(by) THEN by[i - p + 1]
                    ELSE h[Origin(p, Len(by), i)]
  <2>1. i \in 1..(Len(h) - 1 + Len(by)) /\ Len(x) + Len(b) = Len(h) - 1 + Len(by)
    <3>1. Len(x) = p - 1 + Len(by) /\ Len(b) = Len(h) - p
      BY <1>1, <1>3
    <3>2. Len(x) + Len(b) = Len(h) - 1 + Len(by)
      BY <1>6, <3>1
    <3>3. i \in 1..(Len(x) + Len(b))
      BY <1>5
    <3>4. QED
      BY <3>2, <3>3
  <2>2. CASE i < p
    <3>1. i <= Len(x) /\ i \in 1..(Len(x) + Len(b)) /\ i \in 1..(p - 1 + Len(by)) /\ i \in 1..(p - 1)
      BY <1>3, <1>6, <2>1, <2>2
    <3>2. r[i] = x[i]
      BY <1>5, <3>1
    <3>3. x[i] = a[i] /\ a[i] = h[i]
      BY <1>1, <1>3, <3>1
    <3>4. QED
      BY <2>2, <3>2, <3>3 DEF Origin
  <2>3. CASE p <= i /\ i < p + Len(by)
    <3>1. /\ i <= Len(x) /\ i \in 1..(Len(x) + Len(b)) /\ i \in 1..(p - 1 + Len(by))
          /\ ~(i <= p - 1) /\ i - (p - 1) = i - p + 1
      BY <1>3, <1>6, <2>1, <2>3
    <3>2. r[i] = x[i]
      BY <1>5, <3>1
    <3>3. x[i] = by[i - p + 1]
      BY <1>3, <3>1
    <3>4. QED
      BY <2>3, <3>2, <3>3
  <2>4. CASE p + Len(by) <= i
    <3>1. /\ ~(i <= Len(x)) /\ i \in 1..(Len(x) + Len(b)) /\ i - Len(x) \in 1..(Len(h) - p)
          /\ p + (i - Len(x)) = i - Len(by) + 1
      BY <1>1, <1>3, <1>6, <2>1, <2>4
    <3>2. r[i] = b[i - Len(x)]
      BY <1>5, <3>1
    <3>3. b[i - Len(x)] = h[i - Len(by) + 1]
      BY <1>1, <3>1
    <3>4. ~(i < p) /\ ~(i < p + Len(by))
      BY <1>6, <2>4
    <3>5. QED
      BY <3>2, <3>3, <3>4 DEF Origin
  <2>5. QED
    BY <1>6, <2>2, <2>3, <2>4
<1>8. Len(r) = Len(h) - 1 + Len(by)
  BY <1>1, <1>3, <1>5, <1>6
<1>9. QED
  BY <1>5, <1>7, <1>8, Zenon

\* A prefix has the elements of what it is a prefix of.
LEMMA PrefixElements ==
    ASSUME NEW S, NEW s \in Seq(S), NEW h \in Seq(S), IsPrefix(s, h)
    PROVE  Len(s) <= Len(h) /\ \A i \in 1..Len(s) : s[i] = h[i]
<1>1. Len(s) \in Nat /\ Len(h) \in Nat /\ Len(s) <= Len(h)
  BY DEF IsPrefix
<1>2. \A i \in 1..(Len(s) - 1 + 1) : SubSeq(s, 1, Len(s))[i] = s[1 + i - 1]
  BY <1>1, SubSeqProperties
<1>3. \A i \in 1..(Len(s) - 1 + 1) : SubSeq(h, 1, Len(s))[i] = h[1 + i - 1]
  <2>1. \A i \in 1..Len(s) : h[i] \in S
    BY <1>1
  <2>2. QED
    BY <1>1, <2>1, SubSeqProperties
<1>4. ASSUME NEW i \in 1..Len(s) PROVE s[i] = h[i]
  <2>1. i \in 1..(Len(s) - 1 + 1) /\ 1 + i - 1 = i
    BY <1>1
  <2>2. SubSeq(s, 1, Len(s))[i] = s[i] /\ SubSeq(h, 1, Len(s))[i] = h[i]
    BY <1>2, <1>3, <2>1
  <2>3. SubSeq(s, 1, Len(s)) = SubSeq(h, 1, Len(s))
    BY DEF IsPrefix
  <2>4. QED
    BY <2>2, <2>3, Zenon
<1>5. QED
  BY <1>1, <1>4

\* A summary, or the head and the goal, put before what a fold keeps and what came since.
Joining(before, shown, h, cut) ==
    (before \o SubSeq(shown, cut + 1, Len(shown))) \o SubSeq(h, Len(shown) + 1, Len(h))

Shifted(r, before, h, cut) ==
    /\ Len(r) = Len(before) + Len(h) - cut
    /\ \A i \in 1..Len(r) :
          r[i] = IF i <= Len(before) THEN before[i] ELSE h[i - Len(before) + cut]

\* Of a fold of the first messages, all after the cut stands where it stood, one after another.
LEMMA Joined ==
    ASSUME NEW S, NEW h \in Seq(S), NEW shown \in Seq(S), NEW before \in Seq(S),
           IsPrefix(shown, h), NEW cut \in 0..Len(shown), NEW r,
           r = Joining(before, shown, h, cut)
    PROVE  r \in Seq(S) /\ Shifted(r, before, h, cut)
<1> DEFINE a == SubSeq(shown, cut + 1, Len(shown))
           b == SubSeq(h, Len(shown) + 1, Len(h))
<1>1. /\ Len(h) \in Nat /\ Len(shown) \in Nat /\ Len(before) \in Nat
      /\ Len(shown) <= Len(h) /\ \A i \in 1..Len(shown) : shown[i] = h[i]
  BY PrefixElements
<1>2. a \in Seq(S) /\ Len(a) = Len(shown) - cut /\ \A i \in 1..Len(a) : a[i] = h[cut + i]
  <2>1. cut + 1 \in Int /\ Len(shown) \in Int /\ \A i \in (cut + 1)..Len(shown) : shown[i] \in S
    BY <1>1
  <2>2. /\ a \in Seq(S) /\ Len(a) = IF cut + 1 <= Len(shown) THEN Len(shown) - (cut + 1) + 1 ELSE 0
        /\ \A i \in 1..(Len(shown) - (cut + 1) + 1) : a[i] = shown[(cut + 1) + i - 1]
    BY <2>1, SubSeqProperties
  <2> HIDE DEF a
  <2>3. Len(a) = Len(shown) - cut
    BY <1>1, <2>2
  <2>4. ASSUME NEW i \in 1..Len(a) PROVE a[i] = h[cut + i]
    <3>1. /\ i \in 1..(Len(shown) - (cut + 1) + 1) /\ (cut + 1) + i - 1 = cut + i
          /\ cut + i \in 1..Len(shown)
      BY <1>1, <2>3
    <3>2. a[i] = shown[cut + i]
      BY <2>2, <3>1
    <3>3. QED
      BY <1>1, <3>1, <3>2
  <2>5. QED
    BY <2>2, <2>3, <2>4
<1>3. b \in Seq(S) /\ Len(b) = Len(h) - Len(shown) /\ \A i \in 1..Len(b) : b[i] = h[Len(shown) + i]
  <2>1. Len(shown) + 1 \in Int /\ Len(h) \in Int /\ \A i \in (Len(shown) + 1)..Len(h) : h[i] \in S
    BY <1>1
  <2>2. /\ b \in Seq(S)
        /\ Len(b) = IF Len(shown) + 1 <= Len(h) THEN Len(h) - (Len(shown) + 1) + 1 ELSE 0
        /\ \A i \in 1..(Len(h) - (Len(shown) + 1) + 1) : b[i] = h[(Len(shown) + 1) + i - 1]
    BY <2>1, SubSeqProperties
  <2> HIDE DEF b
  <2>3. Len(b) = Len(h) - Len(shown)
    BY <1>1, <2>2
  <2>4. ASSUME NEW i \in 1..Len(b) PROVE b[i] = h[Len(shown) + i]
    <3>1. /\ i \in 1..(Len(h) - (Len(shown) + 1) + 1)
          /\ (Len(shown) + 1) + i - 1 = Len(shown) + i
      BY <1>1, <2>3
    <3>2. QED
      BY <2>2, <3>1
  <2>5. QED
    BY <2>2, <2>3, <2>4
<1> HIDE DEF a, b
<1>4. PICK x : x = before \o a
  OBVIOUS
<1>5. /\ x \in Seq(S) /\ Len(x) = Len(before) + Len(a)
      /\ \A i \in 1..(Len(before) + Len(a)) :
            x[i] = IF i <= Len(before) THEN before[i] ELSE a[i - Len(before)]
  <2>1. /\ before \o a \in Seq(S) /\ Len(before \o a) = Len(before) + Len(a)
        /\ \A i \in 1..(Len(before) + Len(a)) :
              (before \o a)[i] = IF i <= Len(before) THEN before[i] ELSE a[i - Len(before)]
    BY <1>2, ConcatProperties
  <2>2. QED
    BY <1>4, <2>1, Zenon
<1>6. r = x \o b
  BY <1>4, Zenon DEF Joining, a, b
<1>7. /\ r \in Seq(S) /\ Len(r) = Len(x) + Len(b)
      /\ \A i \in 1..(Len(x) + Len(b)) : r[i] = IF i <= Len(x) THEN x[i] ELSE b[i - Len(x)]
  <2>. x \in Seq(S) /\ b \in Seq(S)
    BY <1>3, <1>5
  <2>1. /\ x \o b \in Seq(S) /\ Len(x \o b) = Len(x) + Len(b)
        /\ \A i \in 1..(Len(x) + Len(b)) :
              (x \o b)[i] = IF i <= Len(x) THEN x[i] ELSE b[i - Len(x)]
    BY ConcatProperties
  <2>2. QED
    BY <1>6, <2>1, Zenon
<1>8. Len(r) = Len(before) + Len(h) - cut
  BY <1>1, <1>2, <1>3, <1>5, <1>7
<1>9. ASSUME NEW i \in 1..Len(r)
      PROVE  r[i] = IF i <= Len(before) THEN before[i] ELSE h[i - Len(before) + cut]
  <2>1. CASE i <= Len(before)
    <3>1. i \in 1..(Len(x) + Len(b)) /\ i <= Len(x) /\ i \in 1..(Len(before) + Len(a))
      BY <1>1, <1>2, <1>5, <1>7, <2>1
    <3>2. r[i] = x[i] /\ x[i] = before[i]
      BY <1>5, <1>7, <2>1, <3>1
    <3>3. QED
      BY <2>1, <3>2
  <2>2. CASE ~(i <= Len(before)) /\ i <= Len(x)
    <3>1. /\ i \in 1..(Len(x) + Len(b)) /\ i \in 1..(Len(before) + Len(a))
          /\ i - Len(before) \in 1..Len(a) /\ cut + (i - Len(before)) = i - Len(before) + cut
      BY <1>1, <1>2, <1>5, <1>7, <2>2
    <3>2. r[i] = x[i] /\ x[i] = a[i - Len(before)]
      BY <1>5, <1>7, <2>2, <3>1
    <3>3. a[i - Len(before)] = h[i - Len(before) + cut]
      BY <1>2, <3>1
    <3>4. QED
      BY <2>2, <3>2, <3>3
  <2>3. CASE ~(i <= Len(before)) /\ ~(i <= Len(x))
    <3>1. /\ i \in 1..(Len(x) + Len(b)) /\ i - Len(x) \in 1..Len(b)
          /\ Len(shown) + (i - Len(x)) = i - Len(before) + cut
      BY <1>1, <1>2, <1>3, <1>5, <1>7, <2>3
    <3>2. r[i] = b[i - Len(x)]
      BY <1>7, <2>3, <3>1
    <3>3. b[i - Len(x)] = h[i - Len(before) + cut]
      BY <1>3, <3>1
    <3>4. QED
      BY <2>3, <3>2, <3>3
  <2>4. QED
    BY <2>1, <2>2, <2>3
<1>10. QED
  BY <1>7, <1>8, <1>9, Zenon DEF Shifted


-----------------------------------------------------------------------------
(* The invariant. *)

\* The messages a turn leaves, its slot, and the summaries of what turns left.
Past == [turn : Turns, kind : {"user", "reply", "tools", "note"}, of : {{}}]
Slots == [turn : Turns, kind : {"pending"}, of : {{}}]
Summaries == [turn : {0}, kind : {"summary"}, of : SUBSET Past]
Message == Past \cup Slots \cup Summaries

\* Between two messages of a turn stand only messages of that turn.
Together(h) ==
    \A i, k \in 1..Len(h) :
        i < k /\ h[i].turn # 0 /\ h[i].turn = h[k].turn =>
            \A j \in i..k : h[j].turn = h[i].turn

\* A history in good order: a summary leads it, nothing is there twice, and what a summary
\* stands for is gone.
Orderly(h) ==
    /\ h \in Seq(Message)
    /\ \A i \in 1..Len(h) : h[i].turn = 0 => i = 1
    /\ \A i, j \in 1..Len(h) : h[i] = h[j] => i = j
    /\ \A i, j \in 1..Len(h) : h[j] \notin h[i].of
    /\ Together(h)

\* The kinds of message a turn may have left in the history when it stands at a label, be
\* they there or in a summary.
Shows(label) ==
    IF label \in {"new", "prepare", "meta"} THEN {}
    ELSE IF label = "playing" THEN {"user", "reply"}
    ELSE IF label = "ended" THEN {"user", "reply", "tools", "note"}
    ELSE {"user", "pending"}

Known(h) == {h[i] : i \in 1..Len(h)} \cup UNION {h[i].of : i \in 1..Len(h)}
Timely == \A m \in Known(history) : m.turn # 0 => m.kind \in Shows(pc[m.turn])

\* Every slot of the history is reserved, and the snapshot of a fold has none.
SlotsReserved == \A i \in 1..Len(history) : history[i].kind = "pending" => history[i].turn \in pending
FoldOfSettled ==
    \A shown \in fold : /\ shown \in Seq(Message) /\ Len(shown) > FoldAt
                        /\ \A i \in 1..Len(shown) : shown[i].kind # "pending"

Labels == {"new", "prepare", "meta", "round", "model", "tools", "ran", "empty", "answered",
           "cancelled", "uncut", "failed", "playing", "ended"}
TurnTypes ==
    /\ pc \in [Turns -> Labels] /\ cancel \in [Turns -> BOOLEAN]
    /\ active \subseteq Turns /\ pending \subseteq Turns

TurnInv == TurnTypes /\ NewestWins
HistoryInv == Orderly(history) /\ Timely /\ SlotsReserved /\ FoldOfSettled
FaceInv == TurnInv /\ HistoryInv

-----------------------------------------------------------------------------
(* What keeps a history in order. *)

LEMMA MessageFields ==
    ASSUME NEW m \in Message
    PROVE  /\ m.turn \in Turns \cup {0} /\ m.of \subseteq Past
           /\ m.kind # "summary" => m.of = {} /\ m.turn \in Turns
           /\ m.kind = "summary" => m.turn = 0
           /\ m.kind \notin {"pending", "summary"} => m \in Past
           /\ m.kind = "pending" => m = Msg(m.turn, "pending")
<1>1. CASE m \in Past
  BY <1>1 DEF Past
<1>2. CASE m \in Slots
  <2>1. m.turn \in Turns /\ m.kind = "pending" /\ m.of = {}
    BY <1>2 DEF Slots
  <2>2. m = Msg(m.turn, "pending")
    BY <1>2 DEF Slots, Msg
  <2>3. QED
    BY <2>1, <2>2
<1>3. CASE m \in Summaries
  BY <1>3 DEF Summaries
<1>4. QED
  BY <1>1, <1>2, <1>3 DEF Message

LEMMA PastIsMessage ==
    ASSUME NEW m \in Past
    PROVE  /\ m \in Message /\ m.turn \in Turns /\ m.of = {}
           /\ m.kind \in {"user", "reply", "tools", "note"}
BY DEF Past, Message

\* A history whose turns go the way of another's, never back, keeps its turns together.
LEMMA TogetherKept ==
    ASSUME NEW h \in Seq(Message), NEW r \in Seq(Message), Together(h),
           NEW e \in [1..Len(r) -> 1..Len(h)],
           \A i, j \in 1..Len(r) : i <= j => e[i] <= e[j],
           \A i \in 1..Len(r) : r[i].turn = 0 \/ r[i].turn = h[e[i]].turn,
           \A i \in 1..Len(r) : r[i].turn = 0 => i = 1
    PROVE  Together(r)
<1>1. SUFFICES ASSUME NEW i \in 1..Len(r), NEW k \in 1..Len(r), i < k,
                      r[i].turn # 0, r[i].turn = r[k].turn, NEW j \in i..k
               PROVE  r[j].turn = r[i].turn
  BY DEF Together
<1>2. Len(r) \in Nat /\ Len(h) \in Nat
  OBVIOUS
<1>3. j \in 1..Len(r) /\ i <= j /\ j <= k
  BY <1>1, <1>2
<1>4. e[i] \in 1..Len(h) /\ e[j] \in 1..Len(h) /\ e[k] \in 1..Len(h) /\ e[i] <= e[j] /\ e[j] <= e[k]
  BY <1>3
<1>5. r[j].turn # 0
  BY <1>1, <1>2, <1>3
<1>6. r[i].turn = h[e[i]].turn /\ r[j].turn = h[e[j]].turn /\ r[k].turn = h[e[k]].turn
  BY <1>1, <1>3, <1>5
<1>7. CASE e[i] = e[k]
  <2>1. e[j] = e[i]
    BY <1>4, <1>7
  <2>2. QED
    BY <1>6, <2>1
<1>8. CASE e[i] < e[k]
  <2>1. e[j] \in e[i]..e[k]
    BY <1>4
  <2>2. h[e[i]].turn # 0 /\ h[e[i]].turn = h[e[k]].turn
    BY <1>1, <1>6
  <2>3. h[e[j]].turn = h[e[i]].turn
    BY <1>4, <1>8, <2>1, <2>2 DEF Together
  <2>4. QED
    BY <1>6, <2>3
<1>9. QED
  BY <1>4, <1>7, <1>8

\* Some of a history, in its order, is in order.
LEMMA ThinnedIsOrderly ==
    ASSUME NEW h, Orderly(h), NEW r \in Seq(Message),
           NEW e \in [1..Len(r) -> 1..Len(h)],
           \A i, j \in 1..Len(r) : i < j => e[i] < e[j],
           \A i \in 1..Len(r) : r[i] = h[e[i]]
    PROVE  Orderly(r) /\ Known(r) \subseteq Known(h)
<1>1. h \in Seq(Message) /\ Together(h) /\ Len(h) \in Nat /\ Len(r) \in Nat
  BY DEF Orderly
<1>2. \A i, j \in 1..Len(r) : i <= j => e[i] <= e[j]
  <2>1. TAKE i, j \in 1..Len(r)
  <2>2. e[i] \in Nat /\ e[j] \in Nat /\ (i < j => e[i] < e[j])
    BY <1>1
  <2>3. QED
    BY <1>1, <2>2
<1>3. ASSUME NEW i \in 1..Len(r), r[i].turn = 0 PROVE i = 1
  <2>1. e[i] = 1
    BY <1>3 DEF Orderly
  <2>2. 1 \in 1..Len(r) /\ (1 < i => e[1] < e[i])
    BY <1>1
  <2>3. e[1] \in 1..Len(h)
    BY <2>2
  <2>4. QED
    BY <1>1, <2>1, <2>2, <2>3
<1>4. ASSUME NEW i \in 1..Len(r), NEW j \in 1..Len(r), r[i] = r[j] PROVE i = j
  <2>1. e[i] = e[j]
    BY <1>4 DEF Orderly
  <2>2. e[i] \in Nat /\ e[j] \in Nat /\ (i < j => e[i] < e[j]) /\ (j < i => e[j] < e[i])
    BY <1>1
  <2>3. QED
    BY <1>1, <2>1, <2>2
<1>5. ASSUME NEW i \in 1..Len(r), NEW j \in 1..Len(r) PROVE r[j] \notin r[i].of
  BY DEF Orderly
<1>6. Together(r)
  BY <1>1, <1>2, <1>3, TogetherKept
<1>7. Known(r) \subseteq Known(h)
  BY DEF Known
<1>8. QED
  BY <1>3, <1>4, <1>5, <1>6, <1>7 DEF Orderly

\* Messages of a turn, each the p-th of the history or not known to it, none of them twice.
Fits(by, t, h, p) ==
    /\ \A i \in 1..Len(by) : by[i].turn = t /\ (by[i] = h[p] \/ by[i] \notin Known(h))
    /\ \A i, j \in 1..Len(by) : by[i] = by[j] => i = j

\* What is known once they took its place.
Fills(r, by, h, p) ==
    \A m \in Known(r) : (m \in Known(h) /\ m # h[p]) \/ \E i \in 1..Len(by) : m = by[i]

\* One message replaced by others of its turn, none of which was known before.
LEMMA ReplacedIsOrderly ==
    ASSUME 0 \notin Turns, NEW h, Orderly(h), NEW p \in 1..Len(h), NEW by \in Seq(Past),
           NEW t \in Turns, h[p].turn = t, h[p].of = {},
           Fits(by, t, h, p), NEW r, r = Replacing(h, p, by)
    PROVE  Orderly(r) /\ Fills(r, by, h, p)
<1> DEFINE l == Len(by)
           Fresh(i) == p <= i /\ i < p + l
<1>1. h \in Seq(Message) /\ by \in Seq(Message) /\ Len(h) \in Nat /\ l \in Nat
  <2>1. \A i \in 1..Len(by) : by[i] \in Message
    BY PastIsMessage
  <2>2. by \in Seq(Message)
    BY <2>1
  <2>3. QED
    BY <2>2 DEF Orderly
<1>2. /\ r \in Seq(Message) /\ Len(r) = Len(h) - 1 + l
      /\ \A i \in 1..Len(r) : r[i] = IF Fresh(i) THEN by[i - p + 1] ELSE h[Origin(p, l, i)]
  BY <1>1, Replaced
<1>3. Len(r) \in Nat
  BY <1>1, <1>2
<1>4. ASSUME NEW i \in 1..Len(r)
      PROVE  /\ Origin(p, l, i) \in 1..Len(h)
             /\ Fresh(i) => i - p + 1 \in 1..l /\ Origin(p, l, i) = p
             /\ ~Fresh(i) => Origin(p, l, i) # p
  BY <1>1, <1>2, <1>3 DEF Origin
<1>5. ASSUME NEW i \in 1..Len(r), NEW j \in 1..Len(r)
      PROVE  /\ i <= j => Origin(p, l, i) <= Origin(p, l, j)
             /\ ~Fresh(i) /\ ~Fresh(j) /\ Origin(p, l, i) = Origin(p, l, j) => i = j
  BY <1>1, <1>2, <1>3 DEF Origin
<1>6. ASSUME NEW i \in 1..Len(r), Fresh(i)
      PROVE  /\ \E n \in 1..l : r[i] = by[n]
             /\ r[i] = by[i - p + 1] /\ i - p + 1 \in 1..l /\ r[i].turn = t /\ r[i] \in Past
             /\ r[i].of = {} /\ (r[i] = h[p] \/ r[i] \notin Known(h))
  <2>1. r[i] = by[i - p + 1] /\ i - p + 1 \in 1..l
    BY <1>2, <1>4, <1>6
  <2>2. by[i - p + 1] \in Past
    BY <2>1
  <2>3. by[i - p + 1].of = {}
    BY <2>2, PastIsMessage
  <2>4. by[i - p + 1].turn = t /\ (by[i - p + 1] = h[p] \/ by[i - p + 1] \notin Known(h))
    BY <2>1 DEF Fits
  <2>5. QED
    BY <2>1, <2>2, <2>3, <2>4
<1>7. ASSUME NEW i \in 1..Len(r), ~Fresh(i)
      PROVE  /\ r[i] = h[Origin(p, l, i)] /\ Origin(p, l, i) \in 1..Len(h) /\ Origin(p, l, i) # p
             /\ r[i] # h[p] /\ r[i] \in Known(h) /\ h[p] \notin r[i].of
  <2>1. r[i] = h[Origin(p, l, i)] /\ Origin(p, l, i) \in 1..Len(h) /\ Origin(p, l, i) # p
    BY <1>2, <1>4, <1>7
  <2>2. \A a \in 1..Len(h) : a # p => h[a] # h[p] /\ h[p] \notin h[a].of
    BY DEF Orderly
  <2>3. \A a \in 1..Len(h) : h[a] \in Known(h)
    BY DEF Known
  <2>4. QED
    BY <2>1, <2>2, <2>3
<1>8. \A a \in 1..Len(h) : h[a].of \subseteq Known(h)
  BY DEF Known
<1> HIDE DEF Fresh, l
<1>9. ASSUME NEW i \in 1..Len(r), r[i].turn = 0 PROVE i = 1
  <2>1. ~Fresh(i)
    BY <1>6, <1>9
  <2>2. h[Origin(p, l, i)].turn = 0 /\ Origin(p, l, i) \in 1..Len(h)
    BY <1>7, <1>9, <2>1
  <2>3. Origin(p, l, i) = 1 /\ p # 1
    BY <1>7, <2>1, <2>2 DEF Orderly
  <2>4. CASE i < p
    BY <2>3, <2>4 DEF Origin
  <2>5. CASE ~(i < p)
    BY <1>1, <1>3, <2>1, <2>3, <2>5 DEF Origin, Fresh
  <2>6. QED
    BY <2>4, <2>5
<1>10. ASSUME NEW i \in 1..Len(r), NEW j \in 1..Len(r), r[i] = r[j] PROVE i = j
  <2>1. CASE Fresh(i) /\ Fresh(j)
    <3>1. /\ by[i - p + 1] = by[j - p + 1]
          /\ i - p + 1 \in 1..Len(by) /\ j - p + 1 \in 1..Len(by)
      BY <1>6, <1>10, <2>1 DEF l
    <3>2. \A x, y \in 1..Len(by) : by[x] = by[y] => x = y
      BY DEF Fits
    <3>3. i - p + 1 = j - p + 1
      BY <3>1, <3>2, Zenon
    <3>4. QED
      BY <1>3, <3>3
  <2>2. CASE ~Fresh(i) /\ ~Fresh(j)
    <3>1. Origin(p, l, i) = Origin(p, l, j)
      BY <1>7, <1>10, <2>2 DEF Orderly
    <3>2. QED
      BY <1>5, <2>2, <3>1
  <2>3. CASE Fresh(i) /\ ~Fresh(j)
    BY <1>6, <1>7, <1>10, <2>3
  <2>4. CASE ~Fresh(i) /\ Fresh(j)
    BY <1>6, <1>7, <1>10, <2>4
  <2>5. QED
    BY <2>1, <2>2, <2>3, <2>4
<1>11. ASSUME NEW i \in 1..Len(r), NEW j \in 1..Len(r) PROVE r[j] \notin r[i].of
  <2>1. CASE Fresh(i)
    BY <1>6, <2>1
  <2>2. CASE ~Fresh(i) /\ ~Fresh(j)
    BY <1>7, <2>2 DEF Orderly
  <2>3. CASE ~Fresh(i) /\ Fresh(j)
    <3>1. r[i].of \subseteq Known(h) /\ h[p] \notin r[i].of
      BY <1>7, <1>8, <2>3
    <3>2. r[j] = h[p] \/ r[j] \notin Known(h)
      BY <1>6, <2>3
    <3>3. QED
      BY <3>1, <3>2
  <2>4. QED
    BY <2>1, <2>2, <2>3
<1>12. Together(r)
  <2> DEFINE e == [i \in 1..Len(r) |-> Origin(p, l, i)]
  <2>1. e \in [1..Len(r) -> 1..Len(h)] /\ \A i, j \in 1..Len(r) : i <= j => e[i] <= e[j]
    BY <1>4, <1>5 DEF l
  <2>2. \A i \in 1..Len(r) : r[i].turn = h[e[i]].turn
    <3>1. TAKE i \in 1..Len(r)
    <3>2. CASE Fresh(i)
      BY <1>4, <1>6, <3>2 DEF Fresh, l
    <3>3. CASE ~Fresh(i)
      BY <1>7, <3>3
    <3>4. QED
      BY <3>2, <3>3
  <2>3. Together(h)
    BY DEF Orderly
  <2> HIDE DEF e
  <2>4. h \in Seq(Message) /\ r \in Seq(Message)
    BY <1>1, <1>2
  <2>5. /\ \A i \in 1..Len(r) : r[i].turn = 0 \/ r[i].turn = h[e[i]].turn
        /\ \A i \in 1..Len(r) : r[i].turn = 0 => i = 1
    BY <1>9, <2>2
  <2>6. QED
    BY <2>1, <2>3, <2>4, <2>5, TogetherKept
<1>13. ASSUME NEW m \in Known(r)
       PROVE  (m \in Known(h) /\ m # h[p]) \/ \E i \in 1..Len(by) : m = by[i]
  <2>1. PICK i \in 1..Len(r) : m = r[i] \/ m \in r[i].of
    BY <1>13 DEF Known
  <2>2. CASE Fresh(i)
    <3>1. m = r[i]
      BY <1>6, <2>1, <2>2
    <3>2. QED
      BY <1>6, <2>2, <3>1 DEF l
  <2>3. CASE ~Fresh(i) /\ m = r[i]
    BY <1>7, <2>3
  <2>4. CASE ~Fresh(i) /\ m \in r[i].of
    <3>1. m # h[p]
      BY <1>7, <2>4
    <3>2. m \in Known(h)
      BY <1>7, <1>8, <2>4
    <3>3. QED
      BY <3>1, <3>2
  <2>5. QED
    BY <2>1, <2>2, <2>3, <2>4
<1>14. QED
  BY <1>2, <1>9, <1>10, <1>11, <1>12, <1>13 DEF Orderly, Fills

Reserving(h, t) == h \o <<Msg(t, "user"), Msg(t, "pending")>>
NewTo(t, h) == \A m \in Known(h) : m.turn # t

\* What a history holds once a turn reserved its place.
Adds(r, h, t) ==
    /\ \A m \in Known(r) : m \in Known(h) \/ m = Msg(t, "user") \/ m = Msg(t, "pending")
    /\ \A i \in 1..Len(r) : (\E j \in 1..Len(h) : r[i] = h[j]) \/ r[i].turn = t

\* A turn that left nothing yet adds its question and its slot at the end.
LEMMA ReservedIsOrderly ==
    ASSUME 0 \notin Turns, NEW h, Orderly(h), NEW t \in Turns, NewTo(t, h), NEW r, r = Reserving(h, t)
    PROVE  Orderly(r) /\ Adds(r, h, t)
<1> DEFINE u == Msg(t, "user")
           s == Msg(t, "pending")
           n == Len(h)
<1>1. /\ u \in Message /\ s \in Message /\ u # s /\ u.turn = t /\ s.turn = t
      /\ u.of = {} /\ s.of = {} /\ t # 0
  BY DEF Msg, Message, Past, Slots
<1>2. h \in Seq(Message) /\ n \in Nat
  BY DEF Orderly
<1> HIDE DEF u, s
<1>3. /\ r \in Seq(Message) /\ Len(r) = n + 2 /\ \A i \in 1..n : r[i] = h[i]
      /\ r[n + 1] = u /\ r[n + 2] = s
  <2>1. r = h \o <<u, s>>
    BY DEF Reserving, u, s
  <2> HIDE DEF n
  <2>2. <<u, s>> \in Seq(Message) /\ Len(<<u, s>>) = 2 /\ <<u, s>>[1] = u /\ <<u, s>>[2] = s
    BY <1>1
  <2>3. PICK w : w = <<u, s>>
    OBVIOUS
  <2>4. w \in Seq(Message) /\ Len(w) = 2 /\ w[1] = u /\ w[2] = s /\ r = h \o w
    BY <2>1, <2>2, <2>3, Zenon
  <2>5. /\ h \o w \in Seq(Message) /\ Len(h \o w) = Len(h) + Len(w)
        /\ \A i \in 1..(Len(h) + Len(w)) : (h \o w)[i] = IF i <= Len(h) THEN h[i] ELSE w[i - Len(h)]
    BY <1>2, <2>4, ConcatProperties
  <2>6. /\ r \in Seq(Message) /\ Len(r) = Len(h) + Len(w)
        /\ \A i \in 1..(Len(h) + Len(w)) : r[i] = IF i <= Len(h) THEN h[i] ELSE w[i - Len(h)]
    BY <2>4, <2>5, Zenon
  <2>7. QED
    BY <1>2, <2>4, <2>6 DEF n
<1>4. \A i \in 1..n : h[i] \in Known(h) /\ h[i].of \subseteq Known(h) /\ h[i].turn # t
  BY DEF Known, NewTo
<1>5. u \notin Known(h) /\ s \notin Known(h)
  BY <1>1 DEF NewTo
<1>6. ASSUME NEW i \in 1..Len(r)
      PROVE  (i \in 1..n /\ r[i] = h[i]) \/ (i = n + 1 /\ r[i] = u) \/ (i = n + 2 /\ r[i] = s)
  <2>1. i \in 1..(n + 2)
    BY <1>3
  <2>2. i \in 1..n \/ i = n + 1 \/ i = n + 2
    BY <1>2, <2>1
  <2>3. QED
    BY <1>3, <2>2
<1>7. ASSUME NEW i \in 1..Len(r), r[i].turn = 0 PROVE i = 1
  BY <1>1, <1>6, <1>7 DEF Orderly
<1>8. ASSUME NEW i \in 1..Len(r), NEW j \in 1..Len(r), r[i] = r[j] PROVE i = j
  <2>1. \A a, b \in 1..n : h[a] = h[b] => a = b
    BY DEF Orderly
  <2>2. QED
    BY <1>1, <1>4, <1>6, <1>8, <2>1
<1>9. ASSUME NEW i \in 1..Len(r), NEW j \in 1..Len(r) PROVE r[j] \notin r[i].of
  <2>1. \A a, b \in 1..n : h[b] \notin h[a].of
    BY DEF Orderly
  <2>2. QED
    BY <1>1, <1>4, <1>5, <1>6, <2>1
<1>10. Together(r)
  <2>1. SUFFICES ASSUME NEW i \in 1..Len(r), NEW k \in 1..Len(r), i < k,
                        r[i].turn # 0, r[i].turn = r[k].turn, NEW j \in i..k
                 PROVE  r[j].turn = r[i].turn
    BY DEF Together
  <2>2. j \in 1..Len(r) /\ i <= j /\ j <= k
    BY <1>2, <1>3
  <2>3. CASE k \in 1..n
    <3>1. i \in 1..n /\ j \in 1..n /\ r[i] = h[i] /\ r[j] = h[j] /\ r[k] = h[k]
      BY <1>2, <1>3, <2>1, <2>2, <2>3
    <3>2. \A a, c \in 1..n : a < c /\ h[a].turn # 0 /\ h[a].turn = h[c].turn =>
             \A b \in a..c : h[b].turn = h[a].turn
      BY DEF Orderly, Together
    <3>3. h[i].turn # 0 /\ h[i].turn = h[k].turn
      BY <2>1, <3>1
    <3>4. h[j].turn = h[i].turn
      BY <2>1, <2>3, <3>1, <3>2, <3>3
    <3>5. QED
      BY <3>1, <3>4
  <2>4. CASE k \notin 1..n
    <3>1. r[k].turn = t
      BY <1>1, <1>6, <2>4
    <3>2. i \notin 1..n
      BY <1>3, <1>4, <2>1, <3>1
    <3>3. j \notin 1..n
      BY <1>2, <2>2, <3>2
    <3>4. QED
      BY <1>1, <1>6, <2>1, <2>2, <3>1, <3>3
  <2>5. QED
    BY <2>3, <2>4
<1>11. \A m \in Known(r) : m \in Known(h) \/ m = u \/ m = s
  <2>1. TAKE m \in Known(r)
  <2>2. PICK i \in 1..Len(r) : m = r[i] \/ m \in r[i].of
    BY DEF Known
  <2>3. QED
    BY <1>1, <1>4, <1>6, <2>2
<1>12. \A i \in 1..Len(r) : (\E j \in 1..Len(h) : r[i] = h[j]) \/ r[i].turn = t
  BY <1>1, <1>6
<1>13. Orderly(r)
  BY <1>3, <1>7, <1>8, <1>9, <1>10 DEF Orderly
<1>14. QED
  BY <1>11, <1>12, <1>13 DEF Adds, u, s

\* One sequence, then another.
Chained(w, a, b) ==
    /\ Len(w) = Len(a) + Len(b)
    /\ \A i \in 1..(Len(a) + Len(b)) : w[i] = IF i <= Len(a) THEN a[i] ELSE b[i - Len(a)]

\* Some of a sequence, in its order.
Picked(w, s, f) ==
    /\ \A i \in 1..Len(w) : w[i] = s[f[i]]
    /\ \A i, j \in 1..Len(w) : i < j => f[i] < f[j]

\* The head and the goal a fold keeps without a summariser are of what it cuts, in order.
LEMMA HeadAndGoal ==
    ASSUME NEW shown \in Seq(Message), NEW cut \in 1..Len(shown), NEW g,
           NEW a \in Seq(Message), Len(a) = 0 \/ Len(a) = 1,
           Len(a) = 1 => a[1] = shown[1] /\ shown[1].kind = "summary",
           NEW b \in Seq(Message), Len(b) = 0 \/ Len(b) = 1,
           Len(b) = 1 => g \in 1..cut /\ b[1] = shown[g] /\ shown[g].kind = "user",
           NEW w, w \in Seq(Message), Chained(w, a, b)
    PROVE  \E f \in [1..Len(w) -> 1..cut] : Picked(w, shown, f)
<1> DEFINE f == [i \in 1..Len(w) |-> IF i <= Len(a) THEN 1 ELSE g]
<1>1. /\ Len(shown) \in Nat /\ cut \in Nat /\ 1 \in 1..cut /\ Len(w) \in Nat
      /\ Len(w) = Len(a) + Len(b)
      /\ \A i \in 1..(Len(a) + Len(b)) : w[i] = IF i <= Len(a) THEN a[i] ELSE b[i - Len(a)]
  BY DEF Chained
<1>2. ASSUME NEW i \in 1..Len(w)
      PROVE  \/ i = 1 /\ Len(a) = 1 /\ f[i] = 1 /\ w[i] = shown[1]
             \/ i = Len(a) + 1 /\ Len(b) = 1 /\ f[i] = g /\ w[i] = shown[g]
  <2>1. CASE i <= Len(a)
    <3>1. i = 1 /\ Len(a) = 1 /\ w[i] = a[i]
      BY <1>1, <2>1
    <3>2. QED
      BY <2>1, <3>1
  <2>2. CASE ~(i <= Len(a))
    <3>1. i - Len(a) = 1 /\ i = Len(a) + 1 /\ Len(b) = 1 /\ w[i] = b[i - Len(a)]
      BY <1>1, <2>2
    <3>2. QED
      BY <2>2, <3>1
  <2>3. QED
    BY <2>1, <2>2
<1>3. Len(a) = 1 /\ Len(b) = 1 => 1 < g
  <2>1. SUFFICES ASSUME Len(a) = 1, Len(b) = 1, g = 1 PROVE FALSE
    BY <1>1
  <2>2. shown[1].kind = "summary" /\ shown[1].kind = "user"
    BY <2>1
  <2>3. QED
    BY <2>2
<1>4. f \in [1..Len(w) -> 1..cut]
  <2>1. \A i \in 1..Len(w) : f[i] \in 1..cut
    BY <1>1, <1>2
  <2>2. QED
    BY <2>1
<1> HIDE DEF f
<1>5. \A i \in 1..Len(w) : w[i] = shown[f[i]]
  BY <1>2
<1>6. \A i, j \in 1..Len(w) : i < j => f[i] < f[j]
  <2>1. SUFFICES ASSUME NEW i \in 1..Len(w), NEW j \in 1..Len(w), i < j PROVE f[i] < f[j]
    OBVIOUS
  <2>2. i = 1 /\ f[i] = 1 /\ Len(a) = 1 /\ Len(b) = 1 /\ f[j] = g
    BY <1>1, <1>2, <2>1
  <2>3. QED
    BY <1>3, <2>2
<1>7. QED
  BY <1>4, <1>5, <1>6 DEF Picked

\* What a fold's summary stands for: messages that were there before the cut, or that the
\* summary before it stood for.
LEMMA CoveredIsPast ==
    ASSUME NEW h \in Seq(Message), NEW shown \in Seq(Message), NEW cut \in 1..Len(shown),
           IsPrefix(shown, h), \A i \in 1..Len(shown) : shown[i].kind # "pending",
           NEW m \in Covered(SubSeq(shown, 1, cut)), m.kind # "summary"
    PROVE  m \in Past /\ \E i \in 1..cut : m = h[i] \/ m \in h[i].of
<1> DEFINE span == SubSeq(shown, 1, cut)
<1>1. /\ Len(shown) \in Nat /\ cut \in Nat /\ Len(h) \in Nat
      /\ Len(shown) <= Len(h) /\ \A i \in 1..Len(shown) : shown[i] = h[i]
  BY PrefixElements
<1>2. /\ span \in Seq(Message) /\ Len(span) = cut
      /\ \A i \in 1..(cut - 1 + 1) : span[i] = shown[1 + i - 1]
  <2>1. \A i \in 1..cut : shown[i] \in Message
    BY <1>1
  <2>2. QED
    BY <1>1, <2>1, SubSeqProperties
<1>3. \A i \in 1..cut : span[i] = shown[i]
  BY <1>1, <1>2
<1>4. DOMAIN span = 1..cut
  BY <1>2
<1>5. PICK i \in 1..cut : m = span[i] \/ m \in span[i].of
  <2> HIDE DEF span
  <2>1. m \in ToSet(span) \/ \E x \in ToSet(span) : m \in x.of
    BY DEF Covered, span
  <2>2. QED
    BY <1>4, <2>1 DEF ToSet
<1> HIDE DEF span
<1>6. /\ i \in 1..Len(shown) /\ i \in 1..Len(h) /\ span[i] = h[i] /\ h[i] \in Message
      /\ h[i].kind # "pending"
  BY <1>1, <1>3
<1>7. m \in Past
  BY <1>5, <1>6, MessageFields
<1>8. QED
  BY <1>5, <1>6, <1>7

\* What a summary may stand for.
BeforeCut(S, h, cut) == \A m \in S : m \in Past /\ \E i \in 1..cut : m = h[i] \/ m \in h[i].of

\* A summary before what was after the cut, of what was before it.
LEMMA SummarisedIsOrderly ==
    ASSUME 0 \notin Turns, NEW h, Orderly(h), NEW cut \in 1..Len(h), NEW S,
           BeforeCut(S, h, cut), NEW w, Len(w) = 1, w[1] = Summary(S),
           NEW r \in Seq(Message), Shifted(r, w, h, cut)
    PROVE  /\ Orderly(r) /\ \A m \in Known(r) : m \in Known(h) \/ m.turn = 0
           /\ \A i \in 1..Len(r) : r[i].kind = "summary" \/ \E j \in 1..Len(h) : r[i] = h[j]
<1> DEFINE sm == Summary(S)
<1>1. h \in Seq(Message) /\ Len(h) \in Nat /\ cut \in Nat
  BY DEF Orderly
<1>2. sm \in Message /\ sm.turn = 0 /\ sm.kind = "summary" /\ sm.of = S /\ sm \notin Past
  BY DEF BeforeCut, Summary, Message, Summaries, Past
<1>3. /\ Len(r) \in Nat
      /\ \A i \in 1..Len(r) : (i = 1 /\ r[i] = sm) \/
            (i # 1 /\ i - 1 + cut \in 1..Len(h) /\ i - 1 + cut > cut /\ r[i] = h[i - 1 + cut])
  <2>1. /\ Len(r) = 1 + Len(h) - cut /\ Len(r) \in Nat
        /\ \A i \in 1..Len(r) : r[i] = IF i <= 1 THEN w[i] ELSE h[i - 1 + cut]
    BY <1>1 DEF Shifted
  <2>2. QED
    BY <1>1, <2>1
<1> HIDE DEF sm
<1>4. \A i \in 1..Len(h) : h[i] \in Message /\ h[i].of \subseteq Past /\ h[i] \in Known(h)
                           /\ h[i].of \subseteq Known(h) /\ (h[i].turn = 0 => i = 1)
  <2>1. TAKE i \in 1..Len(h)
  <2>2. h[i] \in Message
    BY <1>1
  <2>3. h[i].of \subseteq Past
    BY <2>2, MessageFields
  <2>4. QED
    BY <2>2, <2>3 DEF Known, Orderly
<1>5. \A m \in S : m \in Past /\ m \in Known(h)
  <2>1. SUFFICES ASSUME NEW m \in S PROVE m \in Past /\ m \in Known(h)
    OBVIOUS
  <2>2. PICK i \in 1..cut : m = h[i] \/ m \in h[i].of
    BY DEF BeforeCut
  <2>3. i \in 1..Len(h)
    BY <1>1
  <2>4. QED
    BY <1>4, <2>2, <2>3 DEF BeforeCut
<1>6. \A i, j \in 1..Len(h) : (h[i] = h[j] => i = j) /\ h[j] \notin h[i].of
  BY DEF Orderly
<1>7. ASSUME NEW i \in 1..Len(r), i # 1, NEW j \in 1..Len(r), j # 1
      PROVE  /\ r[i] = r[j] => i = j
             /\ r[j] \notin r[i].of /\ r[j] \notin S /\ r[i] # sm /\ r[i].turn # 0
  <2> DEFINE a == i - 1 + cut
             b == j - 1 + cut
  <2>1. /\ a \in 1..Len(h) /\ a > cut /\ r[i] = h[a]
        /\ b \in 1..Len(h) /\ b > cut /\ r[j] = h[b]
    BY <1>3, <1>7
  <2>2. a = b => i = j
    BY <1>1, <1>3
  <2> HIDE DEF a, b
  <2>3. r[j] \notin S
    <3>1. SUFFICES ASSUME h[b] \in S PROVE FALSE
      BY <2>1
    <3>2. PICK k \in 1..cut : h[b] = h[k] \/ h[b] \in h[k].of
      BY <3>1 DEF BeforeCut
    <3>3. k \in 1..Len(h) /\ k # b
      BY <1>1, <2>1
    <3>4. QED
      BY <1>6, <2>1, <3>2, <3>3
  <2>4. h[a].turn # 0
    BY <1>1, <1>4, <2>1
  <2>5. QED
    BY <1>2, <1>6, <2>1, <2>2, <2>3, <2>4
<1>8. ASSUME NEW i \in 1..Len(r), r[i].turn = 0 PROVE i = 1
  BY <1>7, <1>8
<1>9. ASSUME NEW i \in 1..Len(r), NEW j \in 1..Len(r), r[i] = r[j] PROVE i = j
  BY <1>2, <1>3, <1>7, <1>9
<1>10. ASSUME NEW i \in 1..Len(r), NEW j \in 1..Len(r) PROVE r[j] \notin r[i].of
  <2>1. CASE j = 1
    <3>1. r[j] = sm
      BY <1>3, <2>1
    <3>2. r[i].of \subseteq Past
      BY <1>2, <1>3, <1>4, <1>5
    <3>3. QED
      BY <1>2, <3>1, <3>2
  <2>2. CASE j # 1 /\ i = 1
    BY <1>2, <1>3, <1>7, <2>2
  <2>3. CASE j # 1 /\ i # 1
    BY <1>7, <2>3
  <2>4. QED
    BY <2>1, <2>2, <2>3
<1>11. Together(r)
  <2> DEFINE e == [i \in 1..Len(r) |-> IF i = 1 THEN 1 ELSE i - 1 + cut]
  <2>1. e \in [1..Len(r) -> 1..Len(h)]
    BY <1>1, <1>3
  <2>2. \A i, j \in 1..Len(r) : i <= j => e[i] <= e[j]
    BY <1>1, <1>3
  <2>3. \A i \in 1..Len(r) : r[i].turn = 0 \/ r[i].turn = h[e[i]].turn
    BY <1>2, <1>3
  <2>4. Together(h)
    BY DEF Orderly
  <2>5. \A i \in 1..Len(r) : r[i].turn = 0 => i = 1
    BY <1>8
  <2> HIDE DEF e
  <2>6. QED
    BY <1>1, <2>1, <2>2, <2>3, <2>4, <2>5, TogetherKept
<1>12. ASSUME NEW m \in Known(r) PROVE m \in Known(h) \/ m.turn = 0
  <2>1. PICK i \in 1..Len(r) : m = r[i] \/ m \in r[i].of
    BY <1>12 DEF Known
  <2>2. CASE i = 1
    <3>1. r[i] = sm
      BY <1>3, <2>2
    <3>2. QED
      BY <1>2, <1>5, <2>1, <3>1
  <2>3. CASE i # 1
    <3>1. PICK j \in 1..Len(h) : r[i] = h[j]
      BY <1>3, <2>3
    <3>2. QED
      BY <1>4, <2>1, <3>1
  <2>4. QED
    BY <2>2, <2>3
<1>13. \A i \in 1..Len(r) : r[i].kind = "summary" \/ \E j \in 1..Len(h) : r[i] = h[j]
  BY <1>2, <1>3
<1>14. QED
  BY <1>8, <1>9, <1>10, <1>11, <1>12, <1>13 DEF Orderly

\* A history that holds only what another held.
Thins(r, h) ==
    /\ Known(r) \subseteq Known(h)
    /\ \A i \in 1..Len(r) : \E j \in 1..Len(h) : r[i] = h[j]

\* Some of what was before the cut, in its order, before what was after it.
LEMMA GoalKeptIsOrderly ==
    ASSUME NEW h, Orderly(h), NEW cut \in 1..Len(h), NEW w \in Seq(Message),
           NEW g \in [1..Len(w) -> 1..cut], Picked(w, h, g),
           NEW r \in Seq(Message), Shifted(r, w, h, cut)
    PROVE  Orderly(r) /\ Thins(r, h)
<1> DEFINE e == [i \in 1..Len(r) |-> IF i <= Len(w) THEN g[i] ELSE i - Len(w) + cut]
<1>1. /\ h \in Seq(Message) /\ Len(h) \in Nat /\ cut \in Nat /\ Len(w) \in Nat
      /\ Len(r) \in Nat /\ Len(r) = Len(w) + Len(h) - cut
      /\ \A i \in 1..Len(r) : r[i] = IF i <= Len(w) THEN w[i] ELSE h[i - Len(w) + cut]
  BY DEF Orderly, Shifted
<1>2. /\ \A i \in 1..Len(w) : g[i] \in 1..cut /\ w[i] = h[g[i]]
      /\ \A i, j \in 1..Len(w) : i < j => g[i] < g[j]
  BY DEF Picked
<1>3. ASSUME NEW i \in 1..Len(r)
      PROVE  \/ i \in 1..Len(w) /\ e[i] = g[i] /\ e[i] \in 1..cut /\ r[i] = h[e[i]]
             \/ i > Len(w) /\ e[i] = i - Len(w) + cut /\ e[i] \in 1..Len(h) /\ e[i] > cut
                /\ r[i] = h[e[i]]
  <2>1. CASE i <= Len(w)
    <3>1. i \in 1..Len(w)
      BY <1>1, <2>1
    <3>2. r[i] = w[i]
      BY <1>1, <2>1
    <3>3. QED
      BY <1>2, <2>1, <3>1, <3>2
  <2>2. CASE ~(i <= Len(w))
    <3>1. i - Len(w) + cut \in 1..Len(h) /\ i - Len(w) + cut > cut /\ i > Len(w)
      BY <1>1, <2>2
    <3>2. r[i] = h[i - Len(w) + cut]
      BY <1>1, <2>2
    <3>3. QED
      BY <2>2, <3>1, <3>2
  <2>3. QED
    BY <2>1, <2>2
<1>4. e \in [1..Len(r) -> 1..Len(h)]
  <2>1. \A i \in 1..Len(r) : e[i] \in 1..Len(h)
    BY <1>1, <1>3
  <2>2. QED
    BY <2>1
<1> HIDE DEF e
<1>5. \A i, j \in 1..Len(r) : i < j => e[i] < e[j]
  <2>1. SUFFICES ASSUME NEW i \in 1..Len(r), NEW j \in 1..Len(r), i < j PROVE e[i] < e[j]
    OBVIOUS
  <2>2. CASE i \in 1..Len(w) /\ j \in 1..Len(w)
    <3>1. e[i] = g[i] /\ e[j] = g[j]
      BY <1>1, <1>3, <2>2
    <3>2. QED
      BY <1>2, <2>1, <2>2, <3>1
  <2>3. CASE j \notin 1..Len(w)
    <3>1. e[j] = j - Len(w) + cut /\ j > Len(w)
      BY <1>3, <2>3
    <3>2. CASE i \in 1..Len(w)
      <4>1. e[i] \in 1..cut
        BY <1>1, <1>3, <3>2
      <4>2. QED
        BY <1>1, <3>1, <4>1
    <3>3. CASE i \notin 1..Len(w)
      <4>1. e[i] = i - Len(w) + cut
        BY <1>3, <3>3
      <4>2. QED
        BY <1>1, <2>1, <3>1, <4>1
    <3>4. QED
      BY <3>2, <3>3
  <2>4. QED
    BY <1>1, <2>1, <2>2, <2>3
<1>6. \A i \in 1..Len(r) : r[i] = h[e[i]]
  BY <1>3
<1>7. Orderly(r) /\ Known(r) \subseteq Known(h)
  BY <1>4, <1>5, <1>6, ThinnedIsOrderly
<1>8. QED
  BY <1>4, <1>6, <1>7 DEF Thins

\* What a fold leaves of a history.
Folding(h, shown, summarised) == Folded(shown, summarised) \o SubSeq(h, Len(shown) + 1, Len(h))

FoldsTo(h, shown, summarised, r) ==
    /\ Orderly(h) /\ shown \in Seq(Message) /\ Len(shown) > FoldAt
    /\ \A i \in 1..Len(shown) : shown[i].kind # "pending"
    /\ IsPrefix(shown, h) /\ r = Folding(h, shown, summarised)

\* A history that holds only what another held, and a summary.
Condenses(r, h) ==
    /\ \A m \in Known(r) : m \in Known(h) \/ m.turn = 0
    /\ \A i \in 1..Len(r) : r[i].kind = "summary" \/ \E j \in 1..Len(h) : r[i] = h[j]

\* A fold of the first messages of a history leaves it in order.
LEMMA FoldedIsOrderly ==
    ASSUME Limits, NEW h, NEW shown, NEW summarised \in BOOLEAN, NEW r,
           FoldsTo(h, shown, summarised, r)
    PROVE  Orderly(r) /\ Condenses(r, h)
<1> DEFINE cut == Len(shown) - KeepRecent
           span == SubSeq(shown, 1, cut)
           S == {m \in Covered(span) : m.kind # "summary"}
           head == IF shown[1].kind = "summary" THEN <<shown[1]>> ELSE << >>
           users == {i \in 1..cut : shown[i].kind = "user"}
           goal == IF users = {} THEN << >> ELSE <<shown[Min(users)]>>
<1>1. /\ h \in Seq(Message) /\ Len(shown) \in Nat /\ Len(h) \in Nat /\ cut \in 1..Len(shown)
      /\ Len(shown) <= Len(h) /\ \A i \in 1..Len(shown) : shown[i] = h[i]
  <2>1. h \in Seq(Message) /\ shown \in Seq(Message) /\ IsPrefix(shown, h)
    BY DEF Orderly, FoldsTo
  <2>2. Len(shown) <= Len(h) /\ \A i \in 1..Len(shown) : shown[i] = h[i]
    BY <2>1, PrefixElements
  <2>3. cut \in 1..Len(shown)
    BY <2>1 DEF Limits, FoldsTo
  <2>4. QED
    BY <2>1, <2>2, <2>3
<1>2. h \in Seq(Message) /\ cut \in 0..Len(shown)
  BY <1>1
<1>3. shown \in Seq(Message)
  BY DEF FoldsTo
<1>4. IsPrefix(shown, h)
  BY DEF FoldsTo
<1>5. Orderly(h) /\ cut \in 1..Len(h)
  BY <1>1 DEF FoldsTo
<1>6. CASE summarised
  <2>1. r = Joining(<<Summary(S)>>, shown, h, cut)
    BY <1>6, Zenon DEF FoldsTo, Folding, Folded, Joining
  <2>2. BeforeCut(S, h, cut)
    <3>1. \A i \in 1..Len(shown) : shown[i].kind # "pending"
      BY DEF FoldsTo
    <3>2. cut \in 1..Len(shown)
      BY <1>1
    <3> HIDE DEF cut
    <3>3. QED
      BY <1>2, <1>3, <1>4, <3>1, <3>2, CoveredIsPast DEF BeforeCut
  <2> HIDE DEF cut, span, S
  <2>3. Summary(S) \in Message
    BY <2>2 DEF BeforeCut, Summary, Message, Summaries
  <2>4. PICK w : w = <<Summary(S)>>
    OBVIOUS
  <2>5. w \in Seq(Message) /\ Len(w) = 1 /\ w[1] = Summary(S)
    BY <2>3, <2>4
  <2>6. r = Joining(w, shown, h, cut)
    BY <2>1, <2>4
  <2>7. w \in Seq(Message)
    BY <2>5
  <2>8. r \in Seq(Message) /\ Shifted(r, w, h, cut)
    BY <1>2, <1>3, <1>4, <2>6, <2>7, Joined
  <2>9. 0 \notin Turns
    BY DEF Limits
  <2>10. QED
    BY <1>5, <2>2, <2>5, <2>8, <2>9, SummarisedIsOrderly DEF Condenses
<1>7. CASE ~summarised
  <2> DEFINE a == head
             b == goal
             m == Min(users)
  <2>1. r = Joining(a \o b, shown, h, cut)
    BY <1>7, Zenon DEF FoldsTo, Folding, Folded, Joining
  <2>2. /\ a \in Seq(Message)
        /\ Len(a) = 0 \/ Len(a) = 1
        /\ Len(a) = 1 => a[1] = shown[1] /\ shown[1].kind = "summary"
    <3>1. shown[1] \in Message
      BY <1>1, <1>3
    <3>2. CASE shown[1].kind = "summary"
      <4>1. a = <<shown[1]>>
        BY <3>2
      <4> HIDE DEF a
      <4>2. QED
        BY <3>1, <3>2, <4>1
    <3>3. CASE shown[1].kind # "summary"
      <4>1. a = << >>
        BY <3>3
      <4> HIDE DEF a
      <4>2. QED
        BY <4>1
    <3>4. QED
      BY <3>2, <3>3
  <2>4. /\ b \in Seq(Message)
        /\ Len(b) = 0 \/ Len(b) = 1
        /\ Len(b) = 1 => m \in 1..cut /\ b[1] = shown[m] /\ shown[m].kind = "user"
    <3>1. CASE users # {}
      <4> HIDE DEF cut
      <4>1. users \subseteq Nat
        BY <1>1
      <4>2. \E k \in users : \A l \in users : k <= l
        BY <3>1, <4>1, Least
      <4>3. m \in users
        BY <4>2, Zenon DEF Min
      <4>4. b = <<shown[m]>>
        BY <3>1
      <4>5. m \in 1..cut /\ shown[m].kind = "user"
        BY <4>3
      <4> HIDE DEF b, m, users
      <4>6. shown[m] \in Message
        BY <1>1, <1>3, <4>5
      <4>7. QED
        BY <4>4, <4>5, <4>6
    <3>2. CASE users = {}
      <4>1. b = << >>
        BY <3>2
      <4> HIDE DEF b
      <4>2. QED
        BY <4>1
    <3>3. QED
      BY <3>1, <3>2
  <2> HIDE DEF a, b, m, cut, users
  <2>5. PICK w : w = a \o b
    OBVIOUS
  <2>6. w \in Seq(Message) /\ Chained(w, a, b)
    <3>1. /\ a \o b \in Seq(Message) /\ Len(a \o b) = Len(a) + Len(b)
          /\ \A i \in 1..(Len(a) + Len(b)) :
                (a \o b)[i] = IF i <= Len(a) THEN a[i] ELSE b[i - Len(a)]
      <4>1. a \in Seq(Message) /\ b \in Seq(Message)
        BY <2>2, <2>4
      <4>2. QED
        BY <4>1, ConcatProperties
    <3>2. QED
      BY <2>5, <3>1, Zenon DEF Chained
  <2>7. PICK g \in [1..Len(w) -> 1..cut] : Picked(w, shown, g)
    <3>1. cut \in 1..Len(shown)
      BY <1>1
    <3>2. a \in Seq(Message) /\ b \in Seq(Message)
      BY <2>2, <2>4
    <3>3. Len(a) = 0 \/ Len(a) = 1
      BY <2>2
    <3>4. Len(a) = 1 => a[1] = shown[1] /\ shown[1].kind = "summary"
      BY <2>2
    <3>5. Len(b) = 0 \/ Len(b) = 1
      BY <2>4
    <3>6. Len(b) = 1 => m \in 1..cut /\ b[1] = shown[m] /\ shown[m].kind = "user"
      BY <2>4
    <3>7. QED
      BY <1>3, <2>6, <3>1, <3>2, <3>3, <3>4, <3>5, <3>6, HeadAndGoal
  <2>8. r = Joining(w, shown, h, cut)
    BY <2>1, <2>5
  <2>9. w \in Seq(Message)
    BY <2>6
  <2>10. r \in Seq(Message) /\ Shifted(r, w, h, cut)
    BY <1>2, <1>3, <1>4, <2>8, <2>9, Joined
  <2>11. Picked(w, h, g)
    <3>1. \A i \in 1..Len(w) : w[i] = h[g[i]]
      <4>1. TAKE i \in 1..Len(w)
      <4>2. g[i] \in 1..Len(shown)
        BY <1>1, <2>7
      <4>3. QED
        BY <1>1, <2>7, <4>2 DEF Picked
    <3>2. QED
      BY <2>7, <3>1 DEF Picked
  <2>12. Orderly(r) /\ Thins(r, h)
    BY <1>5, <2>9, <2>10, <2>11, GoalKeptIsOrderly
  <2>13. QED
    BY <2>12 DEF Condenses, Thins
<1>8. QED
  BY <1>6, <1>7

-----------------------------------------------------------------------------
(* What a turn leaves, and what that does to the invariant. *)

LEMMA KnownMessages ==
    ASSUME NEW h, Orderly(h), NEW m \in Known(h)
    PROVE  m \in Message /\ (m.kind = "pending" => \E i \in 1..Len(h) : m = h[i])
<1>1. PICK i \in 1..Len(h) : m = h[i] \/ m \in h[i].of
  BY DEF Known
<1>2. h[i] \in Message
  BY DEF Orderly
<1>3. CASE m = h[i]
  BY <1>2, <1>3
<1>4. CASE m \in h[i].of
  <2>1. m \in Past
    BY <1>2, <1>4, MessageFields
  <2>2. QED
    BY <2>1, PastIsMessage
<1>5. QED
  BY <1>1, <1>3, <1>4

\* A turn that moves to a label where all it has left may stand.
LEMMA TimelyKept ==
    ASSUME Limits, TurnTypes, Timely, Orderly(history'), NEW t \in Turns, NEW l \in Labels,
           pc' = [pc EXCEPT ![t] = l],
           \A m \in Known(history') : m.turn = t => m.kind \in Shows(l),
           \A m \in Known(history') : m.turn = 0 \/ m.turn = t \/ m \in Known(history)
    PROVE  Timely'
<1>1. SUFFICES ASSUME NEW m \in Known(history'), m.turn # 0
               PROVE  m.kind \in Shows(pc'[m.turn])
  BY DEF Timely
<1>2. m.turn \in Turns
  <2>1. m \in Message
    BY KnownMessages
  <2>2. m.turn \in Turns \cup {0}
    BY <2>1, MessageFields
  <2>3. QED
    BY <1>1, <2>2
<1>3. CASE m.turn = t
  <2>1. pc'[m.turn] = l
    BY <1>3 DEF TurnTypes
  <2>2. QED
    BY <1>3, <2>1
<1>4. CASE m.turn # t
  <2>1. pc'[m.turn] = pc[m.turn]
    BY <1>2, <1>4 DEF TurnTypes
  <2>2. m.kind \in Shows(pc[m.turn])
    BY <1>1, <1>4 DEF Timely
  <2>3. QED
    BY <2>1, <2>2
<1>5. QED
  BY <1>3, <1>4

\* A turn that moves on and leaves the history alone.
LEMMA MovesOn ==
    ASSUME Limits, TurnTypes, HistoryInv, NEW t \in Turns, NEW l \in Labels,
           pc' = [pc EXCEPT ![t] = l], Shows(pc[t]) \subseteq Shows(l),
           history' = history, pending' = pending
    PROVE  Orderly(history') /\ Timely' /\ SlotsReserved'
<1>1. Orderly(history') /\ Known(history') = Known(history)
  BY DEF HistoryInv
<1>2. \A m \in Known(history') : m.turn = t => m.kind \in Shows(l)
  <2>1. \A m \in Known(history) : m.turn # 0 => m.kind \in Shows(pc[m.turn])
    BY DEF HistoryInv, Timely
  <2>2. t # 0
    BY DEF Limits
  <2>3. QED
    BY <1>1, <2>1, <2>2
<1>3. Timely
  BY DEF HistoryInv
<1>4. Timely'
  BY <1>1, <1>2, <1>3, TimelyKept
<1>5. SlotsReserved'
  BY DEF HistoryInv, SlotsReserved
<1>6. QED
  BY <1>1, <1>4, <1>5

\* The snapshot a fold starts from has no slot of a turn under way.
LEMMA CompactSettles ==
    ASSUME NEW h, NEW reserved, Orderly(h), FoldOfSettled, MaybeCompact(h, reserved),
           \A i \in 1..Len(h) : h[i].kind = "pending" => h[i].turn \in reserved
    PROVE  FoldOfSettled'
<1> DEFINE shown == Visible(h, reserved)
           R == {m \in {h[i] : i \in 1..Len(h)} : ~(m.kind = "pending" /\ m.turn \in reserved)}
<1>1. h \in Seq(Message)
  BY DEF Orderly
<1>2. shown \in Seq(R)
  BY <1>1, VisibleFrom
<1>3. R \subseteq Message /\ \A m \in R : m.kind # "pending"
  BY <1>1
<1> HIDE DEF R
<1>4. fold' = fold \/ (fold' = {shown} /\ Len(shown) > FoldAt)
  BY DEF MaybeCompact
<1> HIDE DEF shown
<1>5. shown \in Seq(Message) /\ \A i \in 1..Len(shown) : shown[i].kind # "pending"
  BY <1>2, <1>3
<1>6. CASE fold' = fold
  BY <1>6 DEF FoldOfSettled
<1>7. CASE fold' = {shown} /\ Len(shown) > FoldAt
  BY <1>5, <1>7 DEF FoldOfSettled
<1>8. QED
  BY <1>4, <1>6, <1>7

\* What a turn may put in place of its slot or of its reply.
Says(by, t, kinds) ==
    /\ by \in Seq(Past)
    /\ \A i \in 1..Len(by) : by[i].turn = t /\ by[i].kind \in kinds \ {"user"}
    /\ \A i, j \in 1..Len(by) : by[i] = by[j] => i = j

LEMMA PlaceIsThere ==
    ASSUME NEW m, history \in Seq(Message), Contains(history, m)
    PROVE  Place(m) \in 1..Len(history) /\ history[Place(m)] = m
<1>1. DOMAIN history = 1..Len(history)
  OBVIOUS
<1>2. \E i \in DOMAIN history : history[i] = m
  BY <1>1 DEF Contains
<1>3. Place(m) \in DOMAIN history /\ history[Place(m)] = m
  BY <1>2, Zenon DEF Place
<1>4. QED
  BY <1>1, <1>3

\* A turn that puts what it leaves where its slot, or its reply, was.
LEMMA SlotReplaced ==
    ASSUME Limits, TurnTypes, HistoryInv, NEW t \in Turns, NEW k \in {"pending", "reply"},
           NEW l \in {"playing", "ended"}, Shows(pc[t]) = {"user", k},
           NEW by, Says(by, t, Shows(l)), Replace(Msg(t, k), by),
           pending' = pending \ {t}, pc' = [pc EXCEPT ![t] = l]
    PROVE  Orderly(history') /\ Timely' /\ SlotsReserved'
<1> DEFINE m == Msg(t, k)
<1>1. /\ m.turn = t /\ m.kind = k /\ m.of = {} /\ t # 0 /\ 0 \notin Turns /\ l \in Labels
      /\ Orderly(history) /\ Timely /\ SlotsReserved /\ history \in Seq(Message)
  BY DEF Msg, Limits, HistoryInv, Labels, Orderly
<1>2. /\ {"user", "reply"} \subseteq Shows(l)
      /\ Shows(l) \subseteq {"user", "reply", "tools", "note"}
  BY DEF Shows
<1>3. \A x \in Known(history) : x.turn = t => x.kind = "user" \/ x.kind = k
  BY <1>1 DEF Timely
<1>4. \A i \in 1..Len(by) : /\ by[i] \in Past /\ by[i].turn = t /\ by[i].kind \in Shows(l)
                            /\ by[i].kind # "user" /\ by[i].kind # "pending"
                            /\ (by[i] = m \/ by[i] \notin Known(history))
  <2>1. SUFFICES ASSUME NEW i \in 1..Len(by)
                 PROVE  /\ by[i] \in Past /\ by[i].turn = t /\ by[i].kind \in Shows(l)
                        /\ by[i].kind # "user" /\ by[i].kind # "pending"
                        /\ (by[i] = m \/ by[i] \notin Known(history))
    OBVIOUS
  <2>2. by[i] \in Past /\ by[i].turn = t /\ by[i].kind \in Shows(l) /\ by[i].kind # "user"
    BY DEF Says
  <2>3. by[i].kind # "pending"
    BY <1>2, <2>2
  <2>4. ASSUME by[i] \in Known(history) PROVE by[i] = m
    <3>1. by[i].kind = k
      BY <1>3, <2>2, <2>4
    <3>2. by[i] = [turn |-> t, kind |-> k, of |-> {}]
      BY <2>2, <3>1 DEF Past
    <3>3. QED
      BY <3>2 DEF Msg
  <2>5. QED
    BY <2>2, <2>3, <2>4
<1>5. /\ Orderly(history')
      /\ \A x \in Known(history') : \/ x \in Known(history) /\ (k = "pending" => x # m)
                                    \/ \E i \in 1..Len(by) : x = by[i]
  <2>1. CASE Contains(history, m)
    <3> DEFINE p == Place(m)
    <3>1. p \in 1..Len(history) /\ history[p] = m
      BY <1>1, <2>1, PlaceIsThere
    <3>2. history' = Replacing(history, p, by)
      BY <2>1, Zenon DEF Replace, Replacing
    <3> HIDE DEF p, m
    <3>3. history[p].turn = t /\ history[p].of = {} /\ by \in Seq(Past)
      BY <1>1, <3>1 DEF Says
    <3>4. Fits(by, t, history, p)
      BY <1>4, <3>1 DEF Fits, Says
    <3>5. Orderly(history) /\ 0 \notin Turns
      BY <1>1
    <3>6. Orderly(history') /\ Fills(history', by, history, p)
      BY <3>1, <3>2, <3>3, <3>4, <3>5, ReplacedIsOrderly
    <3>7. QED
      BY <3>1, <3>6 DEF Fills
  <2>2. CASE ~Contains(history, m)
    <3>1. history' = history
      BY <2>2 DEF Replace
    <3>2. ASSUME NEW x \in Known(history), k = "pending" PROVE x # m
      <4>1. x.kind = "pending" => \E i \in 1..Len(history) : x = history[i]
        BY <1>1, KnownMessages
      <4>2. ~\E i \in 1..Len(history) : history[i] = m
        BY <2>2 DEF Contains
      <4>3. QED
        BY <1>1, <3>2, <4>1, <4>2
    <3>3. QED
      BY <1>1, <3>1, <3>2
  <2>3. QED
    BY <2>1, <2>2
<1>6. ASSUME NEW x \in Known(history'), x.turn = t PROVE x.kind \in Shows(l)
  <2>1. CASE \E i \in 1..Len(by) : x = by[i]
    BY <1>4, <2>1
  <2>2. CASE x \in Known(history) /\ (k = "pending" => x # m)
    <3>1. x.kind = "user" \/ x.kind = k
      BY <1>3, <1>6, <2>2
    <3>2. ASSUME x.kind = k, k = "pending" PROVE FALSE
      <4>1. x \in Message
        BY <1>1, <2>2, KnownMessages
      <4>2. x = Msg(t, "pending")
        BY <1>6, <3>2, <4>1, MessageFields
      <4>3. QED
        BY <2>2, <3>2, <4>2
    <3>3. QED
      BY <1>2, <3>1, <3>2
  <2>3. QED
    BY <1>5, <2>1, <2>2
<1>7. \A x \in Known(history') : x.turn = 0 \/ x.turn = t \/ x \in Known(history)
  BY <1>4, <1>5
<1>8. Timely'
  BY <1>1, <1>5, <1>6, <1>7, TimelyKept
<1>9. SlotsReserved'
  <2>1. SUFFICES ASSUME NEW i \in 1..Len(history'), history'[i].kind = "pending"
                 PROVE  history'[i].turn \in pending'
    BY DEF SlotsReserved
  <2> DEFINE x == history'[i]
  <2>2. x \in Known(history')
    BY DEF Known
  <2>3. x \in Known(history) /\ x.turn # t
    BY <1>2, <1>4, <1>5, <1>6, <2>1, <2>2
  <2>4. PICK j \in 1..Len(history) : x = history[j]
    BY <1>1, <2>1, <2>3, KnownMessages
  <2>5. x.turn \in pending
    BY <1>1, <2>1, <2>4 DEF SlotsReserved
  <2>6. QED
    BY <2>3, <2>5
<1>10. QED
  BY <1>5, <1>8, <1>9

\* One more at the end.
LEMMA OneMore ==
    ASSUME NEW r, NEW w, NEW n
    PROVE  <<r>> \o <<w>> = <<r, w>> /\ <<r, w>> \o <<n>> = <<r, w, n>>
<1> DEFINE S == {r, w, n}
<1>1. <<r>> \in Seq(S) /\ <<r, w>> \in Seq(S) /\ <<r, w, n>> \in Seq(S) /\ w \in S /\ n \in S
  OBVIOUS
<1>2. <<r>> \o <<w>> = <<r, w>>
  <2>1. Append(<<r>>, w) = <<r>> \o <<w>>
    BY <1>1, AppendIsConcat
  <2>2. PICK x : x = Append(<<r>>, w)
    OBVIOUS
  <2>3. PICK y : y = <<r, w>>
    OBVIOUS
  <2>4. x \in Seq(S) /\ Len(x) = 2 /\ x[1] = r /\ x[2] = w
    BY <1>1, <2>2
  <2>5. y \in Seq(S) /\ Len(y) = 2 /\ y[1] = r /\ y[2] = w
    BY <1>1, <2>3
  <2>6. Len(x) = Len(y) /\ \A i \in 1..Len(x) : x[i] = y[i]
    BY <2>4, <2>5
  <2>7. x = y
    BY <2>4, <2>5, <2>6, SeqEqual
  <2>8. QED
    BY <2>1, <2>2, <2>3, <2>7, Zenon
<1>3. <<r, w>> \o <<n>> = <<r, w, n>>
  <2>1. Append(<<r, w>>, n) = <<r, w>> \o <<n>>
    BY <1>1, AppendIsConcat
  <2>2. PICK x : x = Append(<<r, w>>, n)
    OBVIOUS
  <2>3. PICK y : y = <<r, w, n>>
    OBVIOUS
  <2>4. x \in Seq(S) /\ Len(x) = 3 /\ x[1] = r /\ x[2] = w /\ x[3] = n
    BY <1>1, <2>2
  <2>5. y \in Seq(S) /\ Len(y) = 3 /\ y[1] = r /\ y[2] = w /\ y[3] = n
    BY <1>1, <2>3
  <2>6. Len(x) = Len(y) /\ \A i \in 1..Len(x) : x[i] = y[i]
    BY <2>4, <2>5
  <2>7. x = y
    BY <2>4, <2>5, <2>6, SeqEqual
  <2>8. QED
    BY <2>1, <2>2, <2>3, <2>7, Zenon
<1>4. QED
  BY <1>2, <1>3

\* What a cut leaves: what was heard, the tools that ran, and the note.
CutWords(t, aired) ==
    (IF aired THEN <<Msg(t, "reply")>> ELSE << >>)
    \o (IF ran[t] > 0 THEN <<Msg(t, "tools")>> ELSE << >>)
    \o <<Msg(t, "note")>>

LEMMA CutSays ==
    ASSUME NEW t \in Turns, NEW aired
    PROVE  Says(CutWords(t, aired), t, Shows("ended"))
<1> DEFINE r == Msg(t, "reply")
           w == Msg(t, "tools")
           n == Msg(t, "note")
<1>1. /\ r \in Past /\ r.turn = t /\ r.kind = "reply"
      /\ w \in Past /\ w.turn = t /\ w.kind = "tools"
      /\ n \in Past /\ n.turn = t /\ n.kind = "note"
      /\ {"reply", "tools", "note"} \subseteq Shows("ended") \ {"user"}
  BY DEF Msg, Past, Shows
<1>2. /\ <<r>> \o <<w>> \o <<n>> = <<r, w, n>> /\ <<r>> \o << >> \o <<n>> = <<r, n>>
      /\ << >> \o <<w>> \o <<n>> = <<w, n>> /\ << >> \o << >> \o <<n>> = <<n>>
  <2> HIDE DEF r, w, n
  <2>1. <<r>> \o <<w>> = <<r, w>> /\ <<r, w>> \o <<n>> = <<r, w, n>>
    BY OneMore
  <2>2. <<r>> \o <<n>> = <<r, n>> /\ <<w>> \o <<n>> = <<w, n>>
    BY OneMore
  <2>3. <<r>> \o << >> = <<r>> /\ << >> \o <<w>> = <<w>> /\ << >> \o << >> = << >>
        /\ << >> \o <<n>> = <<n>>
    OBVIOUS
  <2>4. QED
    BY <2>1, <2>2, <2>3, Zenon
<1>3. CutWords(t, aired) \in {<<r, w, n>>, <<r, n>>, <<w, n>>, <<n>>}
  <2>1. CASE aired /\ ran[t] > 0
    BY <1>2, <2>1, Zenon DEF CutWords
  <2>2. CASE aired /\ ~(ran[t] > 0)
    BY <1>2, <2>2, Zenon DEF CutWords
  <2>3. CASE ~aired /\ ran[t] > 0
    BY <1>2, <2>3, Zenon DEF CutWords
  <2>4. CASE ~aired /\ ~(ran[t] > 0)
    BY <1>2, <2>4, Zenon DEF CutWords
  <2>5. QED
    BY <2>1, <2>2, <2>3, <2>4, Zenon
<1> HIDE DEF r, w, n
<1>4. ASSUME NEW by \in {<<r, w, n>>, <<r, n>>, <<w, n>>, <<n>>}
      PROVE  Says(by, t, Shows("ended"))
  <2> DEFINE K == Shows("ended")
  <2>1. \A x \in {r, w, n} : x \in Past /\ x.turn = t /\ x.kind \in K \ {"user"}
    BY <1>1
  <2>2. r # w /\ r # n /\ w # n
    BY <1>1
  <2> HIDE DEF K
  <2>3. Says(by, t, K)
    <3>1. CASE by = <<r, w, n>>
      BY <2>1, <2>2, <3>1 DEF Says
    <3>2. CASE by = <<r, n>>
      BY <2>1, <2>2, <3>2 DEF Says
    <3>3. CASE by = <<w, n>>
      BY <2>1, <2>2, <3>3 DEF Says
    <3>4. CASE by = <<n>>
      BY <2>1, <3>4 DEF Says
    <3>5. QED
      BY <1>4, <3>1, <3>2, <3>3, <3>4
  <2>4. QED
    BY <2>3 DEF K
<1>5. QED
  BY <1>3, <1>4

\* A reply alone, or nothing.
LEMMA ReplySays ==
    ASSUME NEW t \in Turns, NEW l \in {"playing", "ended"}
    PROVE  Says(<<Msg(t, "reply")>>, t, Shows(l)) /\ Says(<< >>, t, Shows(l))
<1>1. /\ Msg(t, "reply") \in Past /\ Msg(t, "reply").turn = t
      /\ Msg(t, "reply").kind \in Shows(l) \ {"user"}
  BY DEF Msg, Past, Shows
<1> DEFINE x == Msg(t, "reply")
           K == Shows(l)
<1> HIDE DEF x, K
<1>2. x \in Past /\ x.turn = t /\ x.kind \in K \ {"user"}
  BY <1>1 DEF x, K
<1>3. Says(<<x>>, t, K)
  BY <1>2 DEF Says
<1>4. Says(<< >>, t, K)
  BY DEF Says
<1>5. QED
  BY <1>3, <1>4 DEF x, K

\* A turn that ends with a cut.
LEMMA CutKeeps ==
    ASSUME Limits, TurnTypes, HistoryInv, NEW t \in Turns, NEW k \in {"pending", "reply"},
           Shows(pc[t]) = {"user", k}, NEW aired, Cut(t, Msg(t, k), aired), Goto(t, "ended")
    PROVE  HistoryInv'
<1>1. /\ Replace(Msg(t, k), CutWords(t, aired)) /\ pending' = pending \ {t}
      /\ (MaybeCompact(history', pending') \/ fold' = fold)
  BY Zenon DEF Cut, CutWords
<1>2. Says(CutWords(t, aired), t, Shows("ended"))
  BY CutSays
<1>3. pc' = [pc EXCEPT ![t] = "ended"]
  BY DEF Goto
<1>4. Orderly(history') /\ Timely' /\ SlotsReserved'
  BY <1>1, <1>2, <1>3, SlotReplaced
<1>5. FoldOfSettled'
  <2>1. /\ FoldOfSettled
        /\ \A i \in 1..Len(history') : history'[i].kind = "pending" => history'[i].turn \in pending'
    BY <1>4 DEF SlotsReserved, HistoryInv
  <2>2. CASE MaybeCompact(history', pending')
    BY <1>4, <2>1, <2>2, CompactSettles
  <2>3. CASE fold' = fold
    BY <2>1, <2>3 DEF FoldOfSettled
  <2>4. QED
    BY <1>1, <2>2, <2>3
<1>6. QED
  BY <1>4, <1>5 DEF HistoryInv

-----------------------------------------------------------------------------
(* The steps. *)

Answers == {"prepare", "round", "model", "tools", "ran", "empty", "answered"}

\* A turn that moves on keeps the foreground, or leaves it with nothing more to say.
LEMMA TurnMoves ==
    ASSUME TurnInv, NEW t \in Turns, NEW l \in Labels, Goto(t, l),
           l \in Answers => pc[t] \in Answers,
           active' = active \/ (active' = active \ {t} /\ l \notin Answers),
           cancel' = cancel, pending' \subseteq Turns
    PROVE  TurnInv'
<1>1. TurnTypes'
  BY DEF TurnInv, TurnTypes, Goto
<1>2. ASSUME NEW u \in Turns, pc'[u] \in Answers, ~cancel'[u] PROVE active' = {u}
  <2>1. pc[u] \in Answers /\ (u = t => l \in Answers)
    BY <1>2 DEF TurnInv, TurnTypes, Goto
  <2>2. active = {u}
    BY <1>2, <2>1 DEF TurnInv, NewestWins, Answering, Answers
  <2>3. QED
    BY <2>1, <2>2
<1>3. NewestWins'
  BY <1>2 DEF NewestWins, Answering, Answers
<1>4. QED
  BY <1>1, <1>3 DEF TurnInv

\* The rounds of a turn, its calls and its retries.
Rounding(t) == Round(t) \/ Token(t) \/ ModelReturns(t) \/ Working(t)

LEMMA RoundsMove ==
    ASSUME TurnTypes, NEW t \in Turns, Rounding(t)
    PROVE  \E l \in Labels : /\ Goto(t, l) /\ Shows(pc[t]) \subseteq Shows(l)
                             /\ (l \in Answers => pc[t] \in Answers)
                             /\ UNCHANGED <<cancel, active, history, pending, fold>>
<1> DEFINE Q(l) == /\ Goto(t, l) /\ Shows(pc[t]) \subseteq Shows(l)
                   /\ (l \in Answers => pc[t] \in Answers)
                   /\ UNCHANGED <<cancel, active, history, pending, fold>>
<1>1. UNCHANGED pc => Goto(t, pc[t])
  BY DEF TurnTypes, Goto
<1>2. Shows(pc[t]) \subseteq Shows(pc[t]) /\ pc[t] \in Labels
  BY DEF TurnTypes
<1>3. ASSUME pc[t] \in {"round", "model", "tools", "ran", "empty"},
             NEW l \in {"round", "model", "tools", "ran", "empty", "answered", "cancelled", "failed"}
      PROVE  /\ Shows(pc[t]) \subseteq Shows(l) /\ l \in Labels
             /\ (l \in Answers => pc[t] \in Answers)
  <2>1. Shows(pc[t]) = {"user", "pending"} /\ Shows(l) = {"user", "pending"}
    BY <1>3 DEF Shows
  <2>2. pc[t] \in Answers /\ l \in Labels
    BY <1>3 DEF Answers, Labels
  <2>3. QED
    BY <2>1, <2>2
<1>4. CASE Round(t)
  <2>1. /\ pc[t] = "round" /\ (Goto(t, "cancelled") \/ Goto(t, "model"))
        /\ UNCHANGED <<cancel, active, history, pending, fold>>
    BY <1>4 DEF Round
  <2>2. QED
    BY <1>3, <2>1
<1>5. CASE Token(t)
  <2>1. /\ pc[t] = "model" /\ (Goto(t, "cancelled") \/ UNCHANGED pc)
        /\ UNCHANGED <<cancel, active, history, pending, fold>>
    BY <1>5 DEF Token
  <2>2. QED
    BY <1>1, <1>2, <1>3, <2>1
<1>6. CASE ModelReturns(t)
  <2>1. /\ pc[t] = "model"
        /\ \/ Goto(t, "cancelled") \/ Goto(t, "tools") \/ Goto(t, "answered")
           \/ Goto(t, "empty") \/ Goto(t, "failed")
        /\ UNCHANGED <<cancel, active, history, pending, fold>>
    BY <1>6 DEF ModelReturns
  <2>2. QED
    BY <1>3, <2>1
<1>7. CASE Tool(t)
  <2>1. /\ pc[t] = "tools"
        /\ (Goto(t, "cancelled") \/ Goto(t, "ran") \/ Goto(t, "failed") \/ UNCHANGED pc)
        /\ UNCHANGED <<cancel, active, history, pending, fold>>
    BY <1>7 DEF Tool
  <2>2. QED
    BY <1>1, <1>2, <1>3, <2>1
<1>8. CASE ToolSettled(t)
  <2>1. /\ pc[t] = "ran" /\ (Goto(t, "cancelled") \/ Goto(t, "tools"))
        /\ UNCHANGED <<cancel, active, history, pending, fold>>
    BY <1>8 DEF ToolSettled
  <2>2. QED
    BY <1>3, <2>1
<1>9. CASE RoundEnds(t)
  <2>1. /\ pc[t] = "tools" /\ (Goto(t, "cancelled") \/ Goto(t, "round"))
        /\ UNCHANGED <<cancel, active, history, pending, fold>>
    BY <1>9 DEF RoundEnds
  <2>2. QED
    BY <1>3, <2>1
<1>10. CASE Retry(t)
  <2>1. /\ pc[t] = "empty"
        /\ (Goto(t, "cancelled") \/ Goto(t, "failed") \/ Goto(t, "answered") \/ UNCHANGED pc)
        /\ UNCHANGED <<cancel, active, history, pending, fold>>
    BY <1>10 DEF Retry
  <2>2. QED
    BY <1>1, <1>2, <1>3, <2>1
<1>11. QED
  BY <1>4, <1>5, <1>6, <1>7, <1>8, <1>9, <1>10 DEF Rounding, Working

LEMMA RoundingKeeps ==
    ASSUME Limits, FaceInv, NEW t \in Turns, Rounding(t)
    PROVE  FaceInv'
<1>1. PICK l \in Labels : /\ Goto(t, l) /\ Shows(pc[t]) \subseteq Shows(l)
                          /\ (l \in Answers => pc[t] \in Answers)
                          /\ UNCHANGED <<cancel, active, history, pending, fold>>
  BY RoundsMove DEF FaceInv, TurnInv
<1>2. TurnInv /\ TurnTypes /\ HistoryInv /\ pending' \subseteq Turns
  BY <1>1 DEF FaceInv, TurnInv, TurnTypes
<1>3. TurnInv'
  BY <1>1, <1>2, TurnMoves
<1>4. Orderly(history') /\ Timely' /\ SlotsReserved'
  BY <1>1, <1>2, MovesOn DEF Goto
<1>5. FoldOfSettled'
  BY <1>1, <1>2 DEF HistoryInv, FoldOfSettled
<1>6. QED
  BY <1>3, <1>4, <1>5 DEF FaceInv, HistoryInv

LEMMA BeginKeeps ==
    ASSUME Limits, FaceInv, NEW t \in Turns, Begin(t)
    PROVE  FaceInv'
<1>1. /\ pc[t] = "new" /\ pc' = [pc EXCEPT ![t] = "prepare"] /\ active' = {t}
      /\ UNCHANGED <<history, pending, fold>>
  BY DEF Begin, Goto
<1>2. TurnTypes /\ NewestWins /\ HistoryInv
  BY DEF FaceInv, TurnInv
<1>3. cancel' \in [Turns -> BOOLEAN] /\ \A u \in Turns : cancel[u] => cancel'[u]
  BY <1>2 DEF Begin, Preempts, TurnTypes
<1>4. TurnTypes'
  BY <1>1, <1>2, <1>3 DEF TurnTypes, Labels
<1>5. ASSUME NEW u \in Turns, u # t, Answering(u)', ~cancel'[u] PROVE FALSE
  <2>1. Answering(u) /\ ~cancel[u]
    BY <1>1, <1>2, <1>3, <1>5 DEF Answering, TurnTypes
  <2>2. active = {u}
    BY <1>2, <2>1 DEF NewestWins
  <2>3. CASE t \in System
    BY <2>2, <2>3 DEF Begin
  <2>4. CASE t \notin System
    BY <1>5, <2>2, <2>4 DEF Begin, Preempts
  <2>5. QED
    BY <2>3, <2>4
<1>6. NewestWins'
  BY <1>1, <1>5 DEF NewestWins
<1>7. Shows(pc[t]) \subseteq Shows("prepare") /\ "prepare" \in Labels
  BY <1>1 DEF Shows, Labels
<1>8. Orderly(history') /\ Timely' /\ SlotsReserved'
  BY <1>1, <1>2, <1>7, MovesOn
<1>9. FoldOfSettled'
  BY <1>1, <1>2 DEF HistoryInv, FoldOfSettled
<1>10. QED
  BY <1>4, <1>6, <1>8, <1>9 DEF FaceInv, TurnInv, HistoryInv

LEMMA BargeKeeps ==
    ASSUME FaceInv, NEW t \in Turns, Barge(t)
    PROVE  FaceInv'
<1>1. cancel' = [cancel EXCEPT ![t] = TRUE] /\ UNCHANGED <<pc, active, history, pending, fold>>
  BY DEF Barge, turnVars
<1>2. TurnTypes /\ NewestWins /\ HistoryInv
  BY DEF FaceInv, TurnInv
<1>3. TurnTypes'
  BY <1>1, <1>2 DEF TurnTypes
<1>4. NewestWins'
  BY <1>1, <1>2 DEF NewestWins, Answering, TurnTypes
<1>5. HistoryInv'
  BY <1>1, <1>2 DEF HistoryInv, Timely, SlotsReserved, FoldOfSettled
<1>6. QED
  BY <1>3, <1>4, <1>5 DEF FaceInv, TurnInv

LEMMA ImmediateKeeps ==
    ASSUME Limits, FaceInv, NEW t \in Turns, Immediate(t)
    PROVE  FaceInv'
<1>1. PICK l \in {"meta", "ended"} : Goto(t, l)
  BY DEF Immediate, Leave
<1>2. /\ pc[t] = "prepare" /\ active' = active \ {t}
      /\ UNCHANGED <<cancel, history, pending, fold>>
  BY DEF Immediate, Leave
<1>3. /\ TurnInv /\ TurnTypes /\ HistoryInv /\ pending' \subseteq Turns /\ l \in Labels
      /\ l \notin Answers
  BY <1>2 DEF FaceInv, TurnInv, TurnTypes, Labels, Answers
<1>4. TurnInv'
  BY <1>1, <1>2, <1>3, TurnMoves
<1>5. Shows(pc[t]) \subseteq Shows(l) /\ pc' = [pc EXCEPT ![t] = l]
  BY <1>1, <1>2 DEF Shows, Goto
<1>6. Orderly(history') /\ Timely' /\ SlotsReserved'
  BY <1>2, <1>3, <1>5, MovesOn
<1>7. FoldOfSettled'
  BY <1>2, <1>3 DEF HistoryInv, FoldOfSettled
<1>8. QED
  BY <1>4, <1>6, <1>7 DEF FaceInv, HistoryInv

LEMMA ReserveKeeps ==
    ASSUME Limits, FaceInv, NEW t \in Turns, Reserve(t)
    PROVE  FaceInv'
<1>1. /\ pc[t] = "prepare" /\ Goto(t, "round") /\ pending' = pending \cup {t}
      /\ UNCHANGED <<cancel, active, fold>>
  BY DEF Reserve
<1>2. /\ TurnInv /\ TurnTypes /\ HistoryInv /\ pending' \subseteq Turns /\ "round" \in Labels
      /\ pc[t] \in Answers
  BY <1>1 DEF FaceInv, TurnInv, TurnTypes, Labels, Answers
<1>3. TurnInv'
  BY <1>1, <1>2, TurnMoves
<1>4. 0 \notin Turns /\ Orderly(history) /\ Timely
  BY <1>2 DEF Limits, HistoryInv
<1>5. \A m \in Known(history) : m.turn # t
  BY <1>1, <1>4 DEF Timely, Shows
<1>6. Orderly(history') /\ Adds(history', history, t)
  <2>1. history' = Reserving(history, t)
    BY Zenon DEF Reserve, Reserving
  <2>2. NewTo(t, history)
    BY <1>5 DEF NewTo
  <2>3. QED
    BY <1>4, <2>1, <2>2, ReservedIsOrderly
<1>7. \A m \in Known(history') : /\ m.turn = t => m.kind \in Shows("round")
                                 /\ (m.turn = 0 \/ m.turn = t \/ m \in Known(history))
  BY <1>5, <1>6 DEF Adds, Msg, Shows
<1>8. Timely'
  BY <1>1, <1>2, <1>4, <1>6, <1>7, TimelyKept DEF Goto
<1>9. SlotsReserved'
  BY <1>1, <1>2, <1>6 DEF Adds, HistoryInv, SlotsReserved
<1>10. FoldOfSettled'
  BY <1>1, <1>2 DEF HistoryInv, FoldOfSettled
<1>11. QED
  BY <1>3, <1>6, <1>8, <1>9, <1>10 DEF FaceInv, HistoryInv

\* A turn that commits its reply, or nothing, and may ask for a fold.
LEMMA CommitKeeps ==
    ASSUME Limits, TurnTypes, HistoryInv, NEW t \in Turns, NEW l \in {"playing", "ended"},
           Shows(pc[t]) = {"user", "pending"}, Goto(t, l), NEW by,
           by = <<Msg(t, "reply")>> \/ by = << >>,
           Replace(Msg(t, "pending"), by), pending' = pending \ {t},
           MaybeCompact(history', pending') \/ fold' = fold
    PROVE  HistoryInv'
<1>1. Says(by, t, Shows(l))
  <2>1. Says(<<Msg(t, "reply")>>, t, Shows(l)) /\ Says(<< >>, t, Shows(l))
    BY ReplySays
  <2>2. QED
    BY <2>1, Zenon
<1>2. pc' = [pc EXCEPT ![t] = l]
  BY DEF Goto
<1>3. Orderly(history') /\ Timely' /\ SlotsReserved'
  BY <1>1, <1>2, SlotReplaced
<1>4. /\ FoldOfSettled
      /\ \A i \in 1..Len(history') : history'[i].kind = "pending" => history'[i].turn \in pending'
  BY <1>3 DEF SlotsReserved, HistoryInv
<1>5. CASE MaybeCompact(history', pending')
  <2>1. FoldOfSettled'
    BY <1>3, <1>4, <1>5, CompactSettles
  <2>2. QED
    BY <1>3, <2>1 DEF HistoryInv
<1>6. CASE fold' = fold
  <2>1. FoldOfSettled'
    BY <1>4, <1>6 DEF FoldOfSettled
  <2>2. QED
    BY <1>3, <2>1 DEF HistoryInv
<1>7. QED
  BY <1>5, <1>6

LEMMA FinishKeeps ==
    ASSUME Limits, FaceInv, NEW t \in Turns, Finish(t)
    PROVE  FaceInv'
<1>1. pc[t] = "answered" /\ cancel' = cancel
  BY DEF Finish
<1>2. /\ TurnInv /\ TurnTypes /\ HistoryInv /\ {"cancelled", "playing", "ended"} \subseteq Labels
      /\ \A l \in {"cancelled", "playing", "ended"} : l \notin Answers
      /\ Shows(pc[t]) = {"user", "pending"} /\ Shows("cancelled") = {"user", "pending"}
  BY <1>1 DEF FaceInv, TurnInv, Labels, Answers, Shows
<1>3. CASE t \notin Spoken /\ Stopped(t)
  <2>1. Goto(t, "cancelled") /\ UNCHANGED <<history, pending, fold, active>>
    BY <1>3 DEF Finish
  <2>2. pending' \subseteq Turns
    BY <1>2, <2>1 DEF TurnTypes
  <2>3. TurnInv'
    BY <1>1, <1>2, <2>1, <2>2, TurnMoves
  <2>4. Orderly(history') /\ Timely' /\ SlotsReserved'
    BY <1>2, <2>1, MovesOn DEF Goto
  <2>5. FoldOfSettled'
    BY <1>2, <2>1 DEF HistoryInv, FoldOfSettled
  <2>6. QED
    BY <2>3, <2>4, <2>5 DEF FaceInv, HistoryInv
<1>4. CASE ~(t \notin Spoken /\ Stopped(t))
  <2>1. /\ Replace(Msg(t, "pending"), <<Msg(t, "reply")>>) /\ pending' = pending \ {t}
        /\ \/ Leave(t, "playing") /\ UNCHANGED fold
           \/ Leave(t, "ended") /\ MaybeCompact(history', pending \ {t})
    BY <1>4, Zenon DEF Finish, CommitReply
  <2>2. PICK l \in {"playing", "ended"} : Leave(t, l)
    BY <2>1
  <2>3. Goto(t, l) /\ active' = active \ {t} /\ (MaybeCompact(history', pending') \/ fold' = fold)
    BY <2>1, <2>2, Zenon DEF Leave
  <2>4. pending' \subseteq Turns
    BY <1>2, <2>1 DEF TurnTypes
  <2>5. TurnInv'
    BY <1>1, <1>2, <2>3, <2>4, TurnMoves
  <2>6. HistoryInv'
    BY <1>2, <2>1, <2>3, CommitKeeps
  <2>7. QED
    BY <2>5, <2>6 DEF FaceInv
<1>5. QED
  BY <1>3, <1>4

LEMMA CancelledKeeps ==
    ASSUME Limits, FaceInv, NEW t \in Turns, Cancelled(t)
    PROVE  FaceInv'
<1>1. pc[t] = "cancelled" /\ cancel' = cancel
  BY DEF Cancelled
<1>2. /\ TurnInv /\ TurnTypes /\ HistoryInv /\ {"uncut", "ended"} \subseteq Labels
      /\ "uncut" \notin Answers /\ "ended" \notin Answers
      /\ Shows(pc[t]) = {"user", "pending"} /\ Shows("uncut") = {"user", "pending"}
  BY <1>1 DEF FaceInv, TurnInv, Labels, Answers, Shows
<1>3. CASE t \in Spoken
  <2>1. Goto(t, "uncut") /\ active' = active \ {t} /\ UNCHANGED <<history, pending, fold>>
    BY <1>3 DEF Cancelled, Leave
  <2>2. pending' \subseteq Turns
    BY <1>2, <2>1 DEF TurnTypes
  <2>3. TurnInv'
    BY <1>1, <1>2, <2>1, <2>2, TurnMoves
  <2>4. Orderly(history') /\ Timely' /\ SlotsReserved'
    BY <1>2, <2>1, MovesOn DEF Goto
  <2>5. FoldOfSettled'
    BY <1>2, <2>1 DEF HistoryInv, FoldOfSettled
  <2>6. QED
    BY <2>3, <2>4, <2>5 DEF FaceInv, HistoryInv
<1>4. CASE t \notin Spoken
  <2>1. Cut(t, Msg(t, "pending"), FALSE) /\ Goto(t, "ended") /\ active' = active \ {t}
    BY <1>4 DEF Cancelled, Leave
  <2>2. pending' \subseteq Turns
    BY <1>2, <2>1 DEF TurnTypes, Cut
  <2>3. TurnInv'
    BY <1>1, <1>2, <2>1, <2>2, TurnMoves
  <2>4. HistoryInv'
    BY <1>2, <2>1, CutKeeps
  <2>5. QED
    BY <2>3, <2>4 DEF FaceInv
<1>5. QED
  BY <1>3, <1>4

LEMMA SessionCutsKeeps ==
    ASSUME Limits, FaceInv, NEW t \in Turns, SessionCuts(t)
    PROVE  FaceInv'
<1>1. pc[t] = "uncut" /\ UNCHANGED <<cancel, active>> /\ Goto(t, "ended")
  BY DEF SessionCuts
<1>2. PICK aired : Cut(t, Msg(t, "pending"), aired)
  BY DEF SessionCuts
<1>3. /\ TurnInv /\ TurnTypes /\ HistoryInv /\ "ended" \in Labels /\ "ended" \notin Answers
      /\ Shows(pc[t]) = {"user", "pending"}
  BY <1>1 DEF FaceInv, TurnInv, Labels, Answers, Shows
<1>4. pending' \subseteq Turns
  BY <1>2, <1>3 DEF TurnTypes, Cut
<1>5. TurnInv'
  BY <1>1, <1>3, <1>4, TurnMoves
<1>6. HistoryInv'
  BY <1>1, <1>2, <1>3, CutKeeps
<1>7. QED
  BY <1>5, <1>6 DEF FaceInv

LEMMA FailedKeeps ==
    ASSUME Limits, FaceInv, NEW t \in Turns, Failed(t)
    PROVE  FaceInv'
<1>1. pc[t] = "failed" /\ cancel' = cancel /\ Goto(t, "ended") /\ active' = active \ {t}
  BY DEF Failed, Leave
<1>2. /\ TurnInv /\ TurnTypes /\ HistoryInv /\ "ended" \in Labels /\ "ended" \notin Answers
      /\ Shows(pc[t]) = {"user", "pending"}
  BY <1>1 DEF FaceInv, TurnInv, Labels, Answers, Shows
<1>3. CASE t \in Spoken /\ Stopped(t)
  <2>1. Cut(t, Msg(t, "pending"), heard[t])
    BY <1>3, Zenon DEF Failed
  <2>2. pending' \subseteq Turns
    BY <1>2, <2>1 DEF TurnTypes, Cut
  <2>3. TurnInv'
    BY <1>1, <1>2, <2>2, TurnMoves
  <2>4. HistoryInv'
    BY <1>1, <1>2, <2>1, CutKeeps
  <2>5. QED
    BY <2>3, <2>4 DEF FaceInv
<1>4. CASE ~(t \in Spoken /\ Stopped(t))
  <2>1. /\ Replace(Msg(t, "pending"), IF heard[t] THEN <<Msg(t, "reply")>> ELSE << >>)
        /\ pending' = pending \ {t} /\ fold' = fold
    BY <1>4, Zenon DEF Failed
  <2>2. PICK by : by = IF heard[t] THEN <<Msg(t, "reply")>> ELSE << >>
    OBVIOUS
  <2>3. by = <<Msg(t, "reply")>> \/ by = << >>
    BY <2>2, Zenon
  <2>4. Replace(Msg(t, "pending"), by)
    BY <2>1, <2>2, Zenon
  <2>5. pending' \subseteq Turns
    BY <1>2, <2>1 DEF TurnTypes
  <2>6. TurnInv'
    BY <1>1, <1>2, <2>5, TurnMoves
  <2>7. HistoryInv'
    BY <1>1, <1>2, <2>1, <2>3, <2>4, CommitKeeps
  <2>8. QED
    BY <2>6, <2>7 DEF FaceInv
<1>5. QED
  BY <1>3, <1>4

LEMMA PlayedKeeps ==
    ASSUME Limits, FaceInv, NEW t \in Turns, Played(t)
    PROVE  FaceInv'
<1>1. /\ pc[t] \in {"playing", "meta"} /\ UNCHANGED <<cancel, active, history, pending>>
      /\ Goto(t, "ended") /\ MaybeCompact(history, pending)
  BY DEF Played
<1>2. /\ TurnInv /\ TurnTypes /\ HistoryInv /\ "ended" \in Labels /\ "ended" \notin Answers
      /\ Shows(pc[t]) \subseteq Shows("ended") /\ pending' \subseteq Turns
  BY <1>1 DEF FaceInv, TurnInv, TurnTypes, Labels, Answers, Shows
<1>3. TurnInv'
  BY <1>1, <1>2, TurnMoves
<1>4. Orderly(history') /\ Timely' /\ SlotsReserved'
  BY <1>1, <1>2, MovesOn DEF Goto
<1>5. FoldOfSettled'
  <2>1. /\ Orderly(history) /\ FoldOfSettled
        /\ \A i \in 1..Len(history) : history[i].kind = "pending" => history[i].turn \in pending
    BY <1>2 DEF HistoryInv, SlotsReserved
  <2>2. QED
    BY <1>1, <2>1, CompactSettles
<1>6. QED
  BY <1>3, <1>4, <1>5 DEF FaceInv, HistoryInv

LEMMA BargedInKeeps ==
    ASSUME Limits, FaceInv, NEW t \in Turns, BargedIn(t)
    PROVE  FaceInv'
<1>1. pc[t] = "playing" /\ UNCHANGED <<cancel, active>> /\ Goto(t, "ended")
  BY DEF BargedIn
<1>2. PICK aired \in BOOLEAN : Cut(t, Msg(t, "reply"), aired)
  BY DEF BargedIn
<1>3. /\ TurnInv /\ TurnTypes /\ HistoryInv /\ "ended" \in Labels /\ "ended" \notin Answers
      /\ Shows(pc[t]) = {"user", "reply"}
  BY <1>1 DEF FaceInv, TurnInv, Labels, Answers, Shows
<1>4. pending' \subseteq Turns
  BY <1>2, <1>3 DEF TurnTypes, Cut
<1>5. TurnInv'
  BY <1>1, <1>3, <1>4, TurnMoves
<1>6. HistoryInv'
  BY <1>1, <1>2, <1>3, CutKeeps
<1>7. QED
  BY <1>5, <1>6 DEF FaceInv

LEMMA FoldEndsKeeps ==
    ASSUME Limits, FaceInv, FoldEnds
    PROVE  FaceInv'
<1>1. fold' = {} /\ UNCHANGED <<pc, cancel, active, pending>>
  BY DEF FoldEnds, turnVars
<1>2. TurnTypes /\ NewestWins /\ HistoryInv
  BY DEF FaceInv, TurnInv
<1>3. TurnInv'
  BY <1>1, <1>2 DEF TurnInv, TurnTypes, NewestWins, Answering
<1>4. Orderly(history') /\ Condenses(history', history)
  <2>1. PICK shown \in fold, summarised \in BOOLEAN :
          history' = IF StillThere(shown) THEN Folding(history, shown, summarised) ELSE history
    BY Zenon DEF FoldEnds, Folding
  <2>2. CASE StillThere(shown)
    <3>1. FoldsTo(history, shown, summarised, history')
      <4>1. history' = Folding(history, shown, summarised) /\ IsPrefix(shown, history)
        BY <2>1, <2>2 DEF StillThere
      <4>2. /\ Orderly(history) /\ shown \in Seq(Message) /\ Len(shown) > FoldAt
            /\ \A i \in 1..Len(shown) : shown[i].kind # "pending"
        BY <1>2 DEF HistoryInv, FoldOfSettled
      <4>3. QED
        BY <4>1, <4>2, Zenon DEF FoldsTo
    <3>2. QED
      BY <3>1, FoldedIsOrderly
  <2>3. CASE ~StillThere(shown)
    <3>1. history' = history
      BY <2>1, <2>3
    <3>2. QED
      BY <1>2, <3>1 DEF HistoryInv, Condenses
  <2>4. QED
    BY <2>2, <2>3
<1>5. Timely'
  BY <1>1, <1>2, <1>4 DEF HistoryInv, Timely, Condenses
<1>6. SlotsReserved'
  BY <1>1, <1>2, <1>4 DEF HistoryInv, SlotsReserved, Condenses
<1>7. FoldOfSettled'
  BY <1>1 DEF FoldOfSettled
<1>8. QED
  BY <1>3, <1>4, <1>5, <1>6, <1>7 DEF FaceInv, HistoryInv

\* An empty history is in order.
LEMMA EmptyIsOrderly == Orderly(<< >>) /\ Known(<< >>) = {}
BY DEF Orderly, Together, Known

LEMMA ResetKeeps ==
    ASSUME FaceInv, Reset
    PROVE  FaceInv'
<1>1. history' = << >> /\ pending' = {} /\ UNCHANGED <<pc, cancel, active, fold>>
  BY DEF Reset, turnVars
<1>2. TurnTypes /\ NewestWins /\ HistoryInv
  BY DEF FaceInv, TurnInv
<1>3. TurnInv'
  BY <1>1, <1>2 DEF TurnInv, TurnTypes, NewestWins, Answering
<1>4. Orderly(history') /\ Known(history') = {}
  BY <1>1, EmptyIsOrderly
<1>5. Timely'
  BY <1>4 DEF Timely
<1>6. SlotsReserved'
  BY <1>1 DEF SlotsReserved
<1>7. FoldOfSettled'
  BY <1>1, <1>2 DEF HistoryInv, FoldOfSettled
<1>8. QED
  BY <1>3, <1>4, <1>5, <1>6, <1>7 DEF FaceInv, HistoryInv

-----------------------------------------------------------------------------
(* The theorems. *)

LEMMA FaceInit == Init => FaceInv
<1>1. SUFFICES ASSUME Init PROVE FaceInv
  OBVIOUS
<1>2. TurnInv
  BY <1>1 DEF Init, TurnInv, TurnTypes, Labels, NewestWins, Answering
<1>3. Orderly(history) /\ Known(history) = {}
  BY <1>1, EmptyIsOrderly DEF Init
<1>4. Timely
  BY <1>3 DEF Timely
<1>5. SlotsReserved
  BY <1>1 DEF Init, SlotsReserved
<1>6. FoldOfSettled
  BY <1>1 DEF Init, FoldOfSettled
<1>7. QED
  BY <1>2, <1>3, <1>4, <1>5, <1>6 DEF FaceInv, HistoryInv

LEMMA FaceStep == Limits /\ FaceInv /\ [Next]_vars => FaceInv'
<1>1. SUFFICES ASSUME Limits, FaceInv, [Next]_vars PROVE FaceInv'
  OBVIOUS
<1>2. ASSUME NEW t \in Turns, Talking(t) PROVE FaceInv'
  BY <1>1, <1>2, BeginKeeps, ImmediateKeeps, ReserveKeeps, RoundingKeeps DEF Talking, Rounding
<1>3. ASSUME NEW t \in Turns, Working(t) PROVE FaceInv'
  BY <1>1, <1>3, RoundingKeeps DEF Rounding
<1>4. ASSUME NEW t \in Turns, Closing_(t) PROVE FaceInv'
  BY <1>1, <1>4, FinishKeeps, CancelledKeeps, SessionCutsKeeps, FailedKeeps, PlayedKeeps,
     BargedInKeeps, BargeKeeps DEF Closing_
<1>5. CASE FoldEnds
  BY <1>1, <1>5, FoldEndsKeeps
<1>6. CASE Reset
  BY <1>1, <1>6, ResetKeeps
<1>7. CASE UNCHANGED vars
  <2>1. UNCHANGED <<pc, cancel, active, history, pending, fold>>
    BY <1>7 DEF vars, turnVars
  <2>2. QED
    BY <1>1, <2>1 DEF FaceInv, TurnInv, TurnTypes, NewestWins, Answering, HistoryInv, Timely,
                      SlotsReserved, FoldOfSettled
<1>8. QED
  BY <1>1, <1>2, <1>3, <1>4, <1>5, <1>6, <1>7 DEF Next

\* The invariant: the history is in order, each turn has left in it what its place allows,
\* every slot is reserved, and a fold reads settled messages only.
THEOREM FaceInvariant == ASSUME Limits PROVE Spec => []FaceInv
<1>1. Init => FaceInv
  BY FaceInit
<1>2. FaceInv /\ [Next]_vars => FaceInv'
  BY FaceStep
<1>3. QED
  BY <1>1, <1>2, PTL DEF Spec

\* However turns preempt one another, of those still answering only the one in the
\* foreground has not been told to stop (_begin_foreground_turn).
THEOREM TheNewestWins == ASSUME Limits PROVE Spec => []NewestWins
<1>1. FaceInv => NewestWins
  BY DEF FaceInv, TurnInv
<1>2. QED
  BY <1>1, FaceInvariant, PTL

\* Whatever a late turn leaves behind, be it a reply, a cut or a fold, no message of another
\* turn comes between a question and its answer (_reserve_stream_turn).
THEOREM AnswersStand == ASSUME Limits PROVE Spec => []AnswersStandByQuestions
<1>1. FaceInv => AnswersStandByQuestions
  <2>1. SUFFICES ASSUME FaceInv PROVE AnswersStandByQuestions
    OBVIOUS
  <2>2. history \in Seq(Message) /\ Together(history)
    BY <2>1 DEF FaceInv, HistoryInv, Orderly
  <2>3. DOMAIN history = 1..Len(history)
    BY <2>2
  <2>4. QED
    BY <2>2, <2>3 DEF AnswersStandByQuestions, Together
<1>2. QED
  BY <1>1, FaceInvariant, PTL

\* Nothing is said twice, nothing a summary stands for is brought back, and no slot outlives
\* its turn (_fold_history, finish_interrupted_turn).
THEOREM SaidOnce == ASSUME Limits PROVE Spec => []NothingTwice
<1>1. FaceInv => NothingTwice
  <2>1. SUFFICES ASSUME FaceInv PROVE NothingTwice
    OBVIOUS
  <2>2. Orderly(history) /\ Timely /\ history \in Seq(Message)
    BY <2>1 DEF FaceInv, HistoryInv, Orderly
  <2>3. DOMAIN history = 1..Len(history)
    BY <2>2
  <2>4. IsInjective(history)
    BY <2>2, <2>3 DEF Orderly, IsInjective
  <2>5. \A i \in DOMAIN history : history[i].of \cap ToSet(history) = {}
    BY <2>2, <2>3 DEF Orderly, ToSet
  <2>6. ASSUME NEW t \in Turns, pc[t] = "ended", Contains(history, Msg(t, "pending"))
        PROVE  FALSE
    <3>1. PICK i \in 1..Len(history) : history[i] = Msg(t, "pending")
      BY <2>6, Zenon DEF Contains
    <3>2. history[i] \in Known(history) /\ history[i].turn = t /\ history[i].kind = "pending"
      BY <3>1 DEF Known, Msg
    <3>3. t # 0
      BY DEF Limits
    <3>4. history[i].kind \in Shows(pc[history[i].turn])
      <4>1. \A m \in Known(history) : m.turn # 0 => m.kind \in Shows(pc[m.turn])
        BY <2>2 DEF Timely
      <4>2. QED
        BY <3>2, <3>3, <4>1
    <3>5. QED
      BY <2>6, <3>2, <3>4 DEF Shows
  <2>7. QED
    BY <2>4, <2>5, <2>6 DEF NothingTwice
<1>2. QED
  BY <1>1, FaceInvariant, PTL
=============================================================================
