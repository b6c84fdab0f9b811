------------------------------ MODULE RauProofs ------------------------------
(***************************************************************************)
(* What Rau keeps on his own account, for all values of the constants: his *)
(* silence (the presence heartbeat of Presence, extended here), and then   *)
(* the hands of a job: the file tools (FileEdits), the worker's loop over  *)
(* its tools (WorkerRun), computer use (ComputerUse, and MacInput on the   *)
(* machine itself), the optional sidecar (PiRuns), each a specification of *)
(* its own, instantiated under a name of its own.                          *)
(***************************************************************************)
EXTENDS Presence, TLAPS, WellFoundedInduction, FiniteSetTheorems, FunctionTheorems

(* No silence of the user hears more than two sentences it did not ask for:   *)
(* for any number of turns and of restarts and however long it runs. The      *)
(* sentences on their way and those heard are counted against the record in   *)
(* memory and, as long as none is said twice, against the one on disk.        *)


\* A set of naturals that has a member has a least one.
LEMMA Least ==
    ASSUME NEW S, S \subseteq Nat, S # {}
    PROVE  \E m \in S : \A n \in S : m <= n
<1>1. IsWellFoundedOn(OpToRel(<, Nat), Nat)
  BY NatLessThanWellFounded, Zenon
<1>2. PICK m \in S : \A n \in S : ~(<<n, m>> \in OpToRel(<, Nat))
  BY <1>1, WFMin, Zenon
<1>3. \A n \in S : ~(n < m)
  BY <1>2 DEF OpToRel
<1>4. QED
  BY <1>3

\* The recursion of Untold defines a function.
UntoldStep(es, ts, f, i) ==
    IF i = 0 THEN << >>
    ELSE IF es[i].ts \in ts THEN f[i - 1] ELSE Append(f[i - 1], es[i])

LEMMA UntoldExists ==
    ASSUME NEW es, NEW ts, NEW n \in Nat
    PROVE  \E f : f = [i \in 0..n |-> UntoldStep(es, ts, f, i)]
<1> DEFINE P(m) == \E f : f = [i \in 0..m |-> UntoldStep(es, ts, f, i)]
           Bad == {m \in Nat : ~P(m)}
<1>1. P(0)
  <2> DEFINE f == [i \in {0} |-> << >>]
  <2>1. f = [i \in 0..0 |-> UntoldStep(es, ts, f, i)]
    BY DEF UntoldStep
  <2>2. QED
    BY <2>1
<1>2. ASSUME NEW m \in Nat, P(m) PROVE P(m + 1)
  <2>1. PICK f : f = [i \in 0..m |-> UntoldStep(es, ts, f, i)]
    BY <1>2
  <2> DEFINE g == [i \in 0..(m + 1) |-> IF i <= m THEN f[i] ELSE UntoldStep(es, ts, f, i)]
  <2>2. \A i \in 0..(m + 1) : g[i] = UntoldStep(es, ts, g, i)
    <3>1. TAKE i \in 0..(m + 1)
    <3>2. CASE i = 0
      BY <2>1, <3>2 DEF UntoldStep
    <3>3. CASE i \in 1..m
      <4>1. g[i] = f[i] /\ g[i - 1] = f[i - 1] /\ f[i] = UntoldStep(es, ts, f, i)
        BY <2>1, <3>3
      <4>2. QED
        BY <4>1, <3>3 DEF UntoldStep
    <3>4. CASE i = m + 1
      BY <3>4 DEF UntoldStep
    <3>5. QED
      BY <3>2, <3>3, <3>4
  <2>3. g = [i \in 0..(m + 1) |-> UntoldStep(es, ts, g, i)]
    BY <2>2
  <2>4. QED
    BY <2>3
<1>3. ASSUME Bad # {} PROVE FALSE
  <2> HIDE DEF P
  <2>1. PICK m \in Bad : \A k \in Bad : m <= k
    BY <1>3, Least
  <2>2. m # 0
    BY <1>1, <2>1
  <2>3. m - 1 \in Nat /\ m - 1 \notin Bad
    BY <2>1, <2>2
  <2>4. P(m - 1 + 1)
    BY <1>2, <2>3
  <2>5. QED
    BY <2>1, <2>4
<1>4. QED
  BY <1>3

\* What Untold keeps was there.
LEMMA UntoldFrom ==
    ASSUME NEW S, NEW es \in Seq(S), NEW consumed
    PROVE  Untold(es, consumed) \in Seq({es[i] : i \in 1..Len(es)})
<1> DEFINE ts == {c.ts : c \in consumed}
           R == {es[i] : i \in 1..Len(es)}
           F(f) == [i \in 0..Len(es) |-> UntoldStep(es, ts, f, i)]
           kept == CHOOSE f : f = F(f)
           Bad == {i \in 0..Len(es) : kept[i] \notin Seq(R)}
<1>1. Len(es) \in Nat
  OBVIOUS
<1>2. \E f : f = F(f)
  BY <1>1, UntoldExists
<1>3. kept = F(kept)
  <2> HIDE DEF F
  <2>1. QED
    BY <1>2
<1>4. Untold(es, consumed) = kept[Len(es)]
  BY DEF Untold, UntoldStep
<1> HIDE DEF kept
<1>5. \A i \in 0..Len(es) : kept[i] = UntoldStep(es, ts, kept, i)
  BY <1>3
<1>6. \A i \in 1..Len(es) : es[i] \in R
  OBVIOUS
<1> HIDE DEF R, ts, F
<1>7. kept[0] \in Seq(R)
  <2>1. kept[0] = UntoldStep(es, ts, kept, 0)
    BY <1>1, <1>5
  <2>2. kept[0] = << >>
    BY <2>1 DEF UntoldStep
  <2>3. QED
    BY <2>2
<1>8. ASSUME NEW i \in 1..Len(es), kept[i - 1] \in Seq(R) PROVE kept[i] \in Seq(R)
  <2>1. Append(kept[i - 1], es[i]) \in Seq(R)
    BY <1>6, <1>8
  <2>2. kept[i] = UntoldStep(es, ts, kept, i) /\ i # 0
    BY <1>1, <1>5
  <2>3. QED
    BY <1>8, <2>1, <2>2 DEF UntoldStep
<1>9. ASSUME Bad # {} PROVE FALSE
  <2>1. Bad \subseteq Nat
    BY <1>1
  <2>2. PICK i \in Bad : \A k \in Bad : i <= k
    BY <1>9, <2>1, Least
  <2>3. i \in 1..Len(es)
    BY <1>1, <1>7, <2>2
  <2>4. i - 1 \in 0..Len(es) /\ ~(i <= i - 1)
    BY <1>1, <2>3
  <2>5. kept[i - 1] \in Seq(R)
    BY <2>2, <2>4
  <2>6. QED
    BY <1>8, <2>2, <2>3, <2>5
<1>10. kept[Len(es)] \in Seq(R)
  BY <1>1, <1>9
<1>11. QED
  BY <1>4, <1>10 DEF R

-----------------------------------------------------------------------------
(* The invariant. *)

Event == [kind : {"nudge", "task_progress"}, line : Nat \cup Sayings, ts : Nat]
Record == [user : Nat, count : 0..MaxNudges, last : Nat, attempt : Nat]
Tongues == Locales \cup {"none"}
Thread == [at : {"idle", "asked", "answered", "append", "write", "push"}, user : Nat,
           count : 0..MaxNudges, locale : Tongues, line : Nat \cup Sayings,
           kind : {"nudge", "task_progress"}, ts : Nat, list : Seq(Event)]

Typed ==
    /\ now \in 1..MaxTime /\ crashes \in Nat
    /\ p \in Record /\ disk \in [p : Record, events : Seq(Event)]
    /\ events \in Seq(Event) /\ \A l \in lock : l.keep \in Seq(Event)
    /\ nudge \in Thread
    /\ queue \in Seq([user : Nat, locale : Tongues]) /\ locale \in Locales
    /\ said \in [0..MaxTime -> Nat]

\* Whoever is spoken to was last heard of before now.
Dated ==
    /\ p.user <= now /\ p.last <= now /\ disk.p.user = p.user
    /\ p.count = 0 => p.last = 0
    /\ disk.p.count = 0 => disk.p.last = 0
    /\ disk.p.last <= now
    /\ \A i \in 1..Len(queue) : queue[i].user < now
    /\ \A c \in now..MaxTime : said[c] = 0

Thinking == nudge.at \in {"asked", "answered"}
Nudging == nudge.at \in {"append", "write", "push"} /\ nudge.kind = "nudge"

\* The nudge in the making belongs to the silence of nudge.user, which is this one or over.
Current ==
    /\ nudge.at = "push" => nudge.kind = "nudge"
    /\ Thinking \/ Nudging => nudge.user < now
    /\ Thinking =>
        /\ nudge.count <= 1
        /\ p.count = IF p.user = nudge.user THEN nudge.count ELSE 0

Waiting(q, c) == Cardinality({i \in 1..Len(q) : q[i].user = c})
InHand(places) ==
    IF nudge.at \in places /\ nudge.kind = "nudge" /\ nudge.user = p.user THEN 1 ELSE 0
Owed(places) == said[p.user] + Waiting(queue, p.user) + InHand(places)

\* Every nudge that is on its way or was heard is charged to this silence; a restart forgets
\* what is on its way, and what is past the events list is charged on disk.
Charged == Owed({"append", "write", "push"}) <= p.count
Kept == Owed({"push"}) <= disk.p.count

\* The sentences of the list are older than the one in the making: none is a repetition.
Bound(q) == IF q.last >= q.user THEN q.last ELSE q.user
Below(es, b) == \A i \in 1..Len(es) : es[i].kind = "nudge" => es[i].line <= b

\* The sentence in the making, and the list it goes to, while they are in the timer's hands.
Making ==
    /\ nudge.at = "write" => Below(nudge.list, Bound(p))
    /\ nudge.at = "asked" /\ p.user = nudge.user => Bound(p) < now
    /\ nudge.at = "answered" => nudge.line <= now
    /\ nudge.at \in {"append", "write"} /\ nudge.kind = "nudge" => nudge.line <= Bound(p)
    /\ nudge.at = "answered" \/ (nudge.at \in {"append", "write"} /\ nudge.kind = "nudge") =>
        /\ nudge.line # 0
        /\ Below(events, nudge.line - 1)
        /\ \A l \in lock : Below(l.keep, nudge.line - 1)
    /\ nudge.at = "write" /\ nudge.kind = "nudge" => Below(nudge.list, nudge.line - 1)

Unrepeated ==
    /\ Below(events, Bound(p)) /\ Below(disk.events, Bound(disk.p))
    /\ \A l \in lock : Below(l.keep, Bound(p))
    /\ Making

Restarts == MaxCrashes # 0

PresenceInv ==
    /\ Typed /\ Dated /\ Current /\ Charged /\ TwoPerSilence
    /\ Restarts => Kept /\ Unrepeated

\* MAX_NUDGES_PER_SILENCE apart, the seconds are at least one; and a sentence is said twice
\* only in a program that is not restarted.
Hypotheses ==
    /\ MaxTime \in Nat \ {0} /\ First \in Nat \ {0} /\ Second \in Nat \ {0}
    /\ MaxCrashes \in Nat
    /\ Sayings = {} \/ MaxCrashes = 0

-----------------------------------------------------------------------------
(* Lemmas about the queue. *)

LEMMA WaitingIsNat ==
    ASSUME NEW S, NEW q \in Seq(S), NEW c
    PROVE  /\ IsFiniteSet({i \in 1..Len(q) : q[i].user = c})
           /\ Waiting(q, c) \in Nat
<1>1. IsFiniteSet(1..Len(q))
  BY FS_Interval
<1>2. IsFiniteSet({i \in 1..Len(q) : q[i].user = c})
  BY <1>1, FS_Subset
<1>3. QED
  BY <1>2, FS_CardinalityType DEF Waiting

LEMMA WaitingNone ==
    ASSUME NEW S, NEW q \in Seq(S), NEW c, \A i \in 1..Len(q) : q[i].user # c
    PROVE  Waiting(q, c) = 0
<1>1. {i \in 1..Len(q) : q[i].user = c} = {}
  OBVIOUS
<1>2. QED
  BY <1>1, FS_EmptySet DEF Waiting

LEMMA WaitingAppend ==
    ASSUME NEW S, NEW q \in Seq(S), NEW x \in S, NEW c
    PROVE  Waiting(Append(q, x), c) = Waiting(q, c) + (IF x.user = c THEN 1 ELSE 0)
<1> DEFINE A == {i \in 1..Len(q) : q[i].user = c}
           B == {i \in 1..Len(Append(q, x)) : Append(q, x)[i].user = c}
<1>1. IsFiniteSet(A) /\ Cardinality(A) \in Nat
  BY WaitingIsNat DEF Waiting
<1>2. Len(q) + 1 \notin A /\ Len(q) \in Nat
  OBVIOUS
<1>3. CASE x.user = c
  <2>1. B = A \cup {Len(q) + 1}
    BY <1>3
  <2> HIDE DEF A, B
  <2>2. Cardinality(B) = Cardinality(A) + 1
    BY <1>1, <1>2, <2>1, FS_AddElement
  <2>3. QED
    BY <1>3, <2>2 DEF Waiting, A, B
<1>4. CASE x.user # c
  <2>1. B = A
    BY <1>4
  <2>2. Waiting(Append(q, x), c) = Cardinality(A) /\ Waiting(q, c) = Cardinality(A)
    BY <2>1 DEF Waiting
  <2> HIDE DEF A, B
  <2>3. QED
    BY <1>1, <1>4, <2>2
<1>5. QED
  BY <1>3, <1>4

LEMMA WaitingTail ==
    ASSUME NEW S, NEW q \in Seq(S), q # << >>, NEW c
    PROVE  Waiting(q, c) = Waiting(Tail(q), c) + (IF Head(q).user = c THEN 1 ELSE 0)
<1> DEFINE A == {i \in 1..Len(Tail(q)) : Tail(q)[i].user = c}
           B == {i \in 2..Len(q) : q[i].user = c}
           C == {i \in 1..Len(q) : q[i].user = c}
           f == [i \in A |-> i + 1]
<1>1. Len(q) \in Nat \ {0} /\ Len(Tail(q)) = Len(q) - 1 /\ Head(q) = q[1]
      /\ (\A i \in 1..Len(Tail(q)) : Tail(q)[i] = q[i + 1])
  OBVIOUS
<1>2. IsFiniteSet(A) /\ Cardinality(A) \in Nat
  <2>1. Tail(q) \in Seq(S)
    OBVIOUS
  <2>2. QED
    BY <2>1, WaitingIsNat DEF Waiting
<1>3. f \in Bijection(A, B)
  <2>1. \A i \in A : f[i] \in B
    BY <1>1
  <2>2. \A i, j \in A : f[i] = f[j] => i = j
    BY <1>1
  <2>3. \A j \in B : j - 1 \in A /\ f[j - 1] = j
    BY <1>1
  <2>4. f \in [A -> B] /\ \A j \in B : \E i \in A : f[i] = j
    BY <2>1, <2>3
  <2>5. QED
    BY <2>2, <2>4, Fun_IsBij
<1>4. IsFiniteSet(B) /\ Cardinality(B) = Cardinality(A)
  <2>1. Bijection(A, B) # {}
    BY <1>3
  <2> HIDE DEF A, B, f
  <2>2. QED
    BY <1>2, <2>1, FS_Bijection DEF ExistsBijection
<1>5. CASE Head(q).user = c
  <2>1. C = B \cup {1} /\ 1 \notin B
    BY <1>1, <1>5
  <2> HIDE DEF A, B, C
  <2>2. Cardinality(C) = Cardinality(B) + 1
    BY <1>2, <1>4, <2>1, FS_AddElement
  <2>3. QED
    BY <1>4, <1>5, <2>2 DEF Waiting, A, C
<1>6. CASE Head(q).user # c
  <2>1. C = B
    BY <1>1, <1>6
  <2>2. Waiting(q, c) = Cardinality(C) /\ Waiting(Tail(q), c) = Cardinality(A)
    BY DEF Waiting
  <2> HIDE DEF A, B, C
  <2>3. QED
    BY <1>2, <1>4, <1>6, <2>1, <2>2
<1>7. QED
  BY <1>5, <1>6

-----------------------------------------------------------------------------
(* Lemmas about the list of events. *)

LEMMA Numbered ==
    ASSUME Hypotheses, Restarts
    PROVE  Nat \cup Sayings = Nat
BY DEF Hypotheses, Restarts

LEMMA BelowMore ==
    ASSUME Hypotheses, Restarts, NEW es \in Seq(Event), NEW b \in Int, NEW d \in Int, b <= d,
           Below(es, b)
    PROVE  Below(es, d)
<1>1. \A i \in 1..Len(es) : es[i].line \in Nat
  <2>1. \A e \in Event : e.line \in Nat \cup Sayings
    BY DEF Event
  <2>2. \A i \in 1..Len(es) : es[i] \in Event
    OBVIOUS
  <2>3. QED
    BY <2>1, <2>2, Numbered
<1>2. QED
  BY <1>1 DEF Below

LEMMA BelowAppend ==
    ASSUME NEW es \in Seq(Event), NEW e \in Event, NEW b, Below(es, b),
           e.kind = "nudge" => e.line <= b
    PROVE  Below(Append(es, e), b)
BY DEF Below

LEMMA BelowTail ==
    ASSUME NEW es \in Seq(Event), es # << >>, NEW b, Below(es, b)
    PROVE  Tail(es) \in Seq(Event) /\ Below(Tail(es), b)
BY DEF Below

LEMMA BelowUntold ==
    ASSUME NEW es \in Seq(Event), NEW consumed
    PROVE  /\ Untold(es, consumed) \in Seq(Event)
           /\ \A b : Below(es, b) => Below(Untold(es, consumed), b)
<1> DEFINE R == {es[i] : i \in 1..Len(es)}
           u == Untold(es, consumed)
<1>1. u \in Seq(R)
  BY UntoldFrom
<1>2. R \subseteq Event
  OBVIOUS
<1> HIDE DEF u
<1>3. \A j \in 1..Len(u) : u[j] \in R
  BY <1>1
<1>4. u \in Seq(Event)
  <2> HIDE DEF R
  <2>1. QED
    BY <1>1, <1>2
<1>5. ASSUME NEW b, Below(es, b) PROVE Below(u, b)
  BY <1>3, <1>5 DEF Below
<1>6. QED
  BY <1>4, <1>5 DEF u

LEMMA BoundIsNat ==
    ASSUME NEW q \in Record
    PROVE  Bound(q) \in Nat /\ q.user <= Bound(q) /\ q.last <= Bound(q)
BY DEF Record, Bound

-----------------------------------------------------------------------------
(* The initial state, and the steps that touch none of this. *)

LEMMA PresenceInit ==
    ASSUME Hypotheses, Init
    PROVE  PresenceInv
<1>1. now = 1 /\ p = Fresh /\ disk = [p |-> Fresh, events |-> << >>] /\ events = << >>
      /\ lock = {} /\ nudge = Resting /\ queue = << >> /\ crashes = 0 /\ locale \in Locales
      /\ said = [c \in 0..MaxTime |-> 0]
  BY DEF Init
<1>2. Fresh \in Record /\ Resting \in Thread
  BY DEF Fresh, Record, Resting, Thread, Tongues, NeverSeen, MaxNudges
<1>3. Typed
  BY <1>1, <1>2 DEF Hypotheses, Typed
<1>4. Dated /\ Current
  BY <1>1 DEF Hypotheses, Dated, Current, Fresh, Resting, NeverSeen, Thinking, Nudging
<1>5. Owed({"append", "write", "push"}) = 0 /\ Owed({"push"}) = 0
  <2>1. Waiting(queue, p.user) = 0
    <3>1. queue \in Seq({0}) /\ Len(queue) = 0
      BY <1>1
    <3>2. \A i \in 1..Len(queue) : queue[i].user # p.user
      BY <3>1
    <3>3. QED
      BY <3>1, <3>2, WaitingNone
  <2>2. said[p.user] = 0
    <3>1. 0 \in 0..MaxTime /\ p.user = 0
      BY <1>1 DEF Fresh, NeverSeen, Hypotheses
    <3>2. QED
      BY <1>1, <3>1
  <2>3. QED
    BY <1>1, <2>1, <2>2 DEF Owed, InHand, Resting
<1>6. Charged /\ Kept
  BY <1>1, <1>5 DEF Charged, Kept, Fresh
<1>7. TwoPerSilence
  BY <1>1 DEF TwoPerSilence, MaxNudges
<1>8. Unrepeated
  BY <1>1 DEF Unrepeated, Making, Below, Resting
<1>9. QED
  BY <1>3, <1>4, <1>6, <1>7, <1>8 DEF PresenceInv

QuietVars == <<now, p, disk, events, nudge, queue, said, crashes>>

LEMMA QuietKeeps ==
    ASSUME PresenceInv, UNCHANGED QuietVars, locale' \in Locales,
           \A l \in lock' : \/ l \in lock
                            \/ /\ l.keep \in Seq(Event)
                               /\ \A b : Below(events, b) => Below(l.keep, b)
    PROVE  PresenceInv'
<1>1. UNCHANGED <<now, p, disk, events, nudge, queue, said, crashes>>
  BY DEF QuietVars
<1>2. Typed'
  BY <1>1 DEF PresenceInv, Typed
<1>3. Dated' /\ Current' /\ TwoPerSilence'
  BY <1>1 DEF PresenceInv, Dated, Current, TwoPerSilence, Thinking, Nudging
<1>4. Charged' /\ (Kept => Kept')
  BY <1>1 DEF PresenceInv, Charged, Kept, Owed, InHand, Waiting
<1>5. Unrepeated => Unrepeated'
  <2> SUFFICES ASSUME Unrepeated PROVE Unrepeated'
    OBVIOUS
  <2>1. \A es, b : Below(es, b)' <=> Below(es, b)
    BY DEF Below
  <2>2. \A b : Below(events, b) => \A l \in lock' : l \notin lock => Below(l.keep, b)
    OBVIOUS
  <2>3. Bound(p)' = Bound(p) /\ Bound(disk.p)' = Bound(disk.p)
    BY <1>1 DEF Bound
  <2>4. Below(events, Bound(p))' /\ Below(disk.events, Bound(disk.p))'
    BY <1>1 DEF Unrepeated, Making, Bound, Below
  <2>5. \A l \in lock' : Below(l.keep, Bound(p))
    BY <2>2 DEF Unrepeated, Making
  <2>6. nudge.at = "answered" \/ (nudge.at \in {"append", "write"} /\ nudge.kind = "nudge") =>
            \A l \in lock' : Below(l.keep, nudge.line - 1)
    BY <2>2 DEF Unrepeated, Making
  <2>7. QED
    BY <1>1, <2>4, <2>5, <2>6 DEF Unrepeated, Making, Bound, Below
<1>6. QED
  BY <1>2, <1>3, <1>4, <1>5 DEF PresenceInv

LEMMA BrainEndsKeeps ==
    ASSUME PresenceInv, NEW t \in Turns, BrainEnds(t)
    PROVE  PresenceInv'
<1>1. UNCHANGED QuietVars /\ locale' = locale
  BY DEF BrainEnds, QuietVars, roomVars
<1> DEFINE consumed == UNION {o.told : o \in open}
<1>2. \A l \in lock' : l \in lock \/ l.keep = Untold(events, consumed)
  BY DEF BrainEnds
<1>3. events \in Seq(Event) /\ locale \in Locales
  BY DEF PresenceInv, Typed
<1>4. QED
  BY <1>1, <1>2, <1>3, BelowUntold, QuietKeeps

LEMMA OthersKeep ==
    ASSUME PresenceInv,
           \/ \E t \in Turns : Arrive(t) \/ BrainBegins(t) \/ Prompt(t)
           \/ Surroundings
           \/ UNCHANGED vars
    PROVE  PresenceInv'
<1>1. UNCHANGED QuietVars /\ lock' = lock
  BY DEF Arrive, BrainBegins, Prompt, Surroundings, vars, turnVars, roomVars, QuietVars
<1>2. locale' \in Locales
  BY DEF Arrive, BrainBegins, Prompt, Surroundings, vars, turnVars, roomVars, PresenceInv, Typed
<1>3. QED
  BY <1>1, <1>2, QuietKeeps

-----------------------------------------------------------------------------
(* The steps. *)

LEMMA Sizes ==
    ASSUME Hypotheses, PresenceInv
    PROVE  /\ now \in 1..MaxTime /\ p \in Record /\ disk.p \in Record
           /\ events \in Seq(Event) /\ disk.events \in Seq(Event)
           /\ p.user \in 0..MaxTime /\ said[p.user] \in Nat
           /\ Waiting(queue, p.user) \in Nat
           /\ \A places : InHand(places) \in {0, 1}
           /\ Bound(p) \in Nat /\ Bound(p) <= now /\ Bound(disk.p) \in Nat
<1>1. now \in 1..MaxTime /\ p \in Record /\ disk.p \in Record /\ p.user <= now /\ p.last <= now
      /\ events \in Seq(Event) /\ disk.events \in Seq(Event) /\ said \in [0..MaxTime -> Nat]
      /\ queue \in Seq([user : Nat, locale : Tongues])
  BY DEF PresenceInv, Typed, Dated
<1>2. p.user \in 0..MaxTime /\ said[p.user] \in Nat
  BY <1>1 DEF Record, Hypotheses
<1>3. Waiting(queue, p.user) \in Nat
  BY <1>1, WaitingIsNat
<1>4. Bound(p) \in Nat /\ Bound(p) <= now /\ Bound(disk.p) \in Nat
  <2>1. Bound(p) \in Nat /\ Bound(disk.p) \in Nat
    BY <1>1, BoundIsNat
  <2>2. Bound(p) <= now
    BY <1>1 DEF Bound
  <2>3. QED
    BY <2>1, <2>2
<1>5. \A places : InHand(places) \in {0, 1}
  BY DEF InHand
<1>6. QED
  BY <1>1, <1>2, <1>3, <1>4, <1>5

\* A reply opens a new silence, of which nothing was said yet.
LEMMA ReplyKeeps ==
    ASSUME Hypotheses, PresenceInv, NEW t \in Turns, NoteUserReply(t)
    PROVE  PresenceInv'
<1>1. p' = [user |-> now, count |-> 0, last |-> 0, attempt |-> 0]
      /\ disk' = [p |-> p', events |-> events]
      /\ UNCHANGED <<now, events, lock, nudge, queue, locale, said, crashes>>
  BY DEF NoteUserReply, Fresh, Save, roomVars
<1>2. now \in 1..MaxTime /\ said \in [0..MaxTime -> Nat]
      /\ (\A c \in now..MaxTime : said[c] = 0)
      /\ queue \in Seq([user : Nat, locale : Tongues])
      /\ (\A i \in 1..Len(queue) : queue[i].user < now)
      /\ (Thinking \/ Nudging => nudge.user < now) /\ (Thinking => nudge.count <= 1)
      /\ events \in Seq(Event) /\ nudge \in Thread
      /\ (nudge.at = "push" => nudge.kind = "nudge")
  BY DEF PresenceInv, Typed, Dated, Current
<1>3. p' \in Record /\ p'.user = now /\ p'.count = 0 /\ p'.last = 0
      /\ disk'.p = p' /\ disk'.events = events
  BY <1>1, <1>2 DEF Record, MaxNudges
<1>4. Typed'
  <2>1. disk' \in [p : Record, events : Seq(Event)]
    BY <1>1, <1>2, <1>3
  <2>2. QED
    BY <1>1, <1>3, <2>1 DEF PresenceInv, Typed
<1>5. Dated'
  BY <1>1, <1>2, <1>3 DEF Dated
<1>6. Current'
  BY <1>1, <1>2, <1>3 DEF Current, Thinking, Nudging, Thread
<1>7. said'[p'.user] = 0 /\ Waiting(queue, now) = 0
  <2>1. \A i \in 1..Len(queue) : queue[i].user # now
    BY <1>2
  <2>2. QED
    BY <1>1, <1>2, <1>3, <2>1, WaitingNone
<1>8. Charged' /\ Kept'
  <2>1. InHand({"append", "write", "push"})' = 0 /\ InHand({"push"})' = 0
    BY <1>1, <1>2, <1>3 DEF InHand, Nudging, Thread
  <2>2. Waiting(queue, p.user)' = 0
    BY <1>1, <1>3, <1>7
  <2>3. QED
    BY <1>3, <1>7, <2>1, <2>2 DEF Charged, Kept, Owed
<1>9. TwoPerSilence'
  BY <1>1 DEF PresenceInv, TwoPerSilence
<1>10. ASSUME Restarts, Unrepeated PROVE Unrepeated'
  <2>1. Bound(p') = now /\ Bound(p) <= now /\ Bound(p) \in Nat /\ now \in Nat
    BY <1>2, <1>3, Sizes DEF Bound
  <2>2. \A es \in Seq(Event) : Below(es, Bound(p)) => Below(es, Bound(p'))
    BY <1>2, <1>10, <2>1, BelowMore
  <2>3. Below(events, Bound(p')) /\ (\A l \in lock : Below(l.keep, Bound(p')))
        /\ (nudge.at = "write" => Below(nudge.list, Bound(p')))
    <3>1. \A l \in lock : l.keep \in Seq(Event)
      BY DEF PresenceInv, Typed
    <3>2. nudge.list \in Seq(Event)
      BY <1>2 DEF Thread
    <3>3. QED
      BY <1>2, <1>10, <2>2, <3>1, <3>2 DEF Unrepeated, Making
  <2>4. nudge.line \in Nat
    BY <1>2, <1>10, Numbered DEF Thread
  <2>5. nudge.at = "asked" => p'.user # nudge.user
    BY <1>2, <1>3 DEF Thinking, Thread
  <2>6. nudge.at \in {"append", "write"} /\ nudge.kind = "nudge" => nudge.line <= Bound(p')
    BY <1>10, <2>1, <2>4 DEF Unrepeated, Making
  <2>7. Bound(disk.p)' = Bound(p')
    BY <1>3 DEF Bound
  <2>8. /\ Below(events, Bound(p))' /\ Below(disk.events, Bound(disk.p))'
        /\ (\A l \in lock : Below(l.keep, Bound(p)))'
        /\ (nudge.at = "write" => Below(nudge.list, Bound(p)))'
    BY <1>1, <1>3, <2>3, <2>7 DEF Below, Bound
  <2>9. QED
    BY <1>1, <1>3, <1>10, <2>5, <2>6, <2>8 DEF Unrepeated, Making, Below, Bound
<1>11. QED
  BY <1>4, <1>5, <1>6, <1>8, <1>9, <1>10 DEF PresenceInv, Restarts

\* Only what is in the timer's hands changes.
LEMMA ThreadKeeps ==
    ASSUME Hypotheses, PresenceInv,
           UNCHANGED <<now, p, disk, events, lock, queue, locale, said, crashes>>,
           nudge' \in Thread, Current',
           InHand({"append", "write", "push"})' <= InHand({"append", "write", "push"}),
           InHand({"push"})' <= InHand({"push"}),
           Restarts /\ Unrepeated => Making'
    PROVE  PresenceInv'
<1>1. Typed' /\ Dated' /\ TwoPerSilence'
  BY DEF PresenceInv, Typed, Dated, TwoPerSilence
<1>2. Charged' /\ (Kept => Kept')
  <2>1. said'[p'.user] = said[p.user] /\ Waiting(queue, p.user)' = Waiting(queue, p.user)
        /\ p' = p /\ disk' = disk
    BY DEF Waiting
  <2>2. /\ InHand({"append", "write", "push"}) \in {0, 1}
        /\ InHand({"append", "write", "push"})' \in {0, 1}
        /\ InHand({"push"}) \in {0, 1} /\ InHand({"push"})' \in {0, 1}
    BY DEF InHand
  <2>3. said[p.user] \in Nat /\ Waiting(queue, p.user) \in Nat /\ p.count \in Nat
        /\ disk.p.count \in Nat
    BY Sizes DEF Record
  <2>4. Charged
    BY DEF PresenceInv
  <2>5. QED
    BY <2>1, <2>2, <2>3, <2>4 DEF Charged, Kept, Owed
<1>3. Restarts /\ Unrepeated => Unrepeated'
  BY DEF Unrepeated, Below, Bound
<1>4. QED
  BY <1>1, <1>2, <1>3 DEF PresenceInv, Restarts

LEMMA NoLineKeeps ==
    ASSUME Hypotheses, PresenceInv, NoLine
    PROVE  PresenceInv'
<1>1. nudge' = Resting /\ UNCHANGED <<now, p, disk, events, lock, queue, locale, said, crashes>>
  BY DEF NoLine, turnVars, roomVars
<1>2. nudge' \in Thread
  BY <1>1 DEF Resting, Thread, Tongues, MaxNudges
<1>3. Current' /\ Making'
  BY <1>1 DEF Current, Making, Thinking, Nudging, Resting
<1>4. InHand({"append", "write", "push"})' = 0 /\ InHand({"push"})' = 0
  BY <1>1 DEF InHand, Resting
<1>5. InHand({"append", "write", "push"}) \in {0, 1} /\ InHand({"push"}) \in {0, 1}
  BY DEF InHand
<1>6. QED
  BY <1>1, <1>2, <1>3, <1>4, <1>5, ThreadKeeps

LEMMA ProgressKeeps ==
    ASSUME Hypotheses, PresenceInv, Progress
    PROVE  PresenceInv'
<1>1. /\ nudge' = [nudge EXCEPT !.at = "append", !.kind = "task_progress", !.line = 0, !.ts = now]
      /\ UNCHANGED <<now, p, disk, events, lock, queue, locale, said, crashes>>
  BY DEF Progress, turnVars, roomVars
<1>2. nudge \in Thread /\ now \in Nat
  BY DEF PresenceInv, Typed
<1>3. nudge' \in Thread /\ nudge'.at = "append" /\ nudge'.kind = "task_progress"
  BY <1>1, <1>2 DEF Thread
<1>4. Current' /\ Making'
  BY <1>3 DEF Current, Making, Thinking, Nudging
<1>5. InHand({"append", "write", "push"})' = 0 /\ InHand({"push"})' = 0
  BY <1>3 DEF InHand
<1>6. InHand({"append", "write", "push"}) \in {0, 1} /\ InHand({"push"}) \in {0, 1}
  BY DEF InHand
<1>7. QED
  BY <1>1, <1>3, <1>4, <1>5, <1>6, ThreadKeeps

\* A line that answers is as old as the clock, and so none of those on the list.
LEMMA AnswerKeeps ==
    ASSUME Hypotheses, PresenceInv, NEW line \in {now} \cup Sayings, Answer(line)
    PROVE  PresenceInv'
<1>1. /\ nudge.at = "asked"
      /\ nudge' = IF StillWanted THEN [nudge EXCEPT !.at = "answered", !.line = line] ELSE Resting
      /\ UNCHANGED <<now, p, disk, events, lock, queue, locale, said, crashes>>
  BY DEF Answer, turnVars, roomVars
<1>2. CASE ~StillWanted
  <2>1. NoLine
    BY <1>1, <1>2 DEF Answer, NoLine
  <2>2. QED
    BY <2>1, NoLineKeeps
<1>3. CASE StillWanted
  <2>1. nudge \in Thread /\ now \in Nat /\ line \in Nat \cup Sayings /\ p.user = nudge.user
    BY <1>3 DEF PresenceInv, Typed, StillWanted
  <2>2. nudge' = [nudge EXCEPT !.at = "answered", !.line = line]
    BY <1>1, <1>3
  <2>3. nudge' \in Thread /\ nudge'.at = "answered" /\ nudge'.line = line
        /\ nudge'.user = nudge.user /\ nudge'.count = nudge.count
    BY <2>1, <2>2 DEF Thread
  <2>4. Current'
    BY <1>1, <2>3 DEF PresenceInv, Current, Thinking, Nudging
  <2>5. ASSUME Restarts, Unrepeated PROVE Making'
    <3>1. line = now
      BY <2>5 DEF Restarts, Hypotheses
    <3>2. Bound(p) \in Nat /\ Bound(p) <= now - 1 /\ now \in 1..MaxTime
      BY <1>1, <2>1, <2>5, Sizes DEF Unrepeated, Making
    <3>3. \A es \in Seq(Event) : Below(es, Bound(p)) => Below(es, now - 1)
      BY <2>5, <3>2, BelowMore
    <3>4. events \in Seq(Event) /\ \A l \in lock : l.keep \in Seq(Event)
      BY DEF PresenceInv, Typed
    <3>5. Below(events, now - 1) /\ \A l \in lock : Below(l.keep, now - 1)
      BY <2>5, <3>3, <3>4 DEF Unrepeated
    <3>6. (Below(events, now - 1))' /\ (\A l \in lock : Below(l.keep, now - 1))'
      BY <1>1, <3>5 DEF Below
    <3>7. QED
      BY <1>1, <2>1, <2>3, <3>1, <3>2, <3>6 DEF Making
  <2>6. InHand({"append", "write", "push"})' = 0 /\ InHand({"push"})' = 0
    BY <2>3 DEF InHand
  <2>7. InHand({"append", "write", "push"}) \in {0, 1} /\ InHand({"push"}) \in {0, 1}
    BY DEF InHand
  <2>8. QED
    BY <1>1, <2>3, <2>4, <2>5, <2>6, <2>7, ThreadKeeps
<1>4. QED
  BY <1>2, <1>3

LEMMA ReadEventsKeeps ==
    ASSUME Hypotheses, PresenceInv, ReadEvents
    PROVE  PresenceInv'
<1>1. /\ nudge.at = "append" /\ nudge' = [nudge EXCEPT !.at = "write", !.list = events]
      /\ UNCHANGED <<now, p, disk, events, lock, queue, locale, said, crashes>>
  BY DEF ReadEvents, turnVars, roomVars
<1>2. nudge \in Thread /\ events \in Seq(Event)
  BY DEF PresenceInv, Typed
<1>3. nudge' \in Thread /\ nudge'.at = "write" /\ nudge'.list = events /\ nudge'.line = nudge.line
      /\ nudge'.kind = nudge.kind /\ nudge'.user = nudge.user
  BY <1>1, <1>2 DEF Thread
<1>4. Current'
  BY <1>1, <1>3 DEF PresenceInv, Current, Thinking, Nudging
<1>5. InHand({"append", "write", "push"})' = InHand({"append", "write", "push"})
      /\ InHand({"push"})' = InHand({"push"})
  BY <1>1, <1>3 DEF InHand
<1>6. Restarts /\ Unrepeated => Making'
  BY <1>1, <1>3 DEF Unrepeated, Making, Below, Bound
<1>7. InHand({"append", "write", "push"}) \in {0, 1} /\ InHand({"push"}) \in {0, 1}
  BY DEF InHand
<1>8. QED
  BY <1>1, <1>3, <1>4, <1>5, <1>6, <1>7, ThreadKeeps

\* A tick of the clock.
LEMMA TickKeeps ==
    ASSUME Hypotheses, PresenceInv, Tick
    PROVE  PresenceInv'
<1>1. /\ now' = now + 1 /\ now < MaxTime
      /\ UNCHANGED <<p, disk, events, lock, nudge, queue, locale, said, crashes>>
  BY DEF Tick, turnVars, roomVars
<1>2. now \in 1..MaxTime /\ MaxTime \in Nat /\ p \in Record /\ disk.p \in Record /\ nudge \in Thread
      /\ queue \in Seq([user : Nat, locale : Tongues])
  BY DEF PresenceInv, Typed, Hypotheses
<1>3. Typed'
  BY <1>1, <1>2 DEF PresenceInv, Typed
<1>4. Dated'
  <2>1. \A i \in 1..Len(queue) : queue[i].user \in Nat
    <3> DEFINE Command == [user : Nat, locale : Tongues]
    <3>1. queue \in Seq(Command)
      BY <1>2
    <3>2. \A x \in Command : x.user \in Nat
      OBVIOUS
    <3> HIDE DEF Command
    <3>3. QED
      BY <3>1, <3>2
  <2>2. p.user \in Nat /\ p.last \in Nat /\ disk.p.last \in Nat
    BY <1>2 DEF Record
  <2>3. \A i \in 1..Len(queue) : queue[i].user < now + 1
    BY <1>2, <2>1 DEF PresenceInv, Dated
  <2>4. \A c \in (now + 1)..MaxTime : said[c] = 0
    BY <1>2 DEF PresenceInv, Dated
  <2>5. QED
    BY <1>1, <1>2, <2>2, <2>3, <2>4 DEF PresenceInv, Dated
<1>5. Current' /\ TwoPerSilence'
  BY <1>1, <1>2 DEF PresenceInv, Current, TwoPerSilence, Thinking, Nudging, Thread
<1>6. Charged' /\ (Kept => Kept')
  BY <1>1 DEF PresenceInv, Charged, Kept, Owed, InHand, Waiting
<1>7. ASSUME Restarts, Unrepeated PROVE Unrepeated'
  <2>1. nudge.line \in Nat /\ Bound(p) \in Nat
    BY <1>2, <1>7, Numbered, Sizes DEF Thread
  <2>2. Bound(p)' = Bound(p)
    BY <1>1 DEF Bound
  <2>3. nudge.at = "asked" /\ p.user = nudge.user => Bound(p) < now + 1
    BY <1>2, <1>7, <2>1 DEF Unrepeated, Making
  <2>4. nudge.at = "answered" => nudge.line <= now + 1
    BY <1>2, <1>7, <2>1 DEF Unrepeated, Making
  <2>5. QED
    BY <1>1, <1>7, <2>2, <2>3, <2>4 DEF Unrepeated, Making, Below, Bound
<1>8. QED
  BY <1>3, <1>4, <1>5, <1>6, <1>7 DEF PresenceInv, Restarts

\* end_user_turn() writes the list it read before back.
LEMMA ConsumeKeeps ==
    ASSUME Hypotheses, PresenceInv, NEW t \in Turns, Consume(t)
    PROVE  PresenceInv'
<1>1. PICK l \in lock : events' = l.keep /\ disk' = [p |-> p, events |-> l.keep]
  BY DEF Consume, Save
<1>2. lock' = {} /\ UNCHANGED <<now, p, nudge, queue, locale, said, crashes>>
  BY DEF Consume, roomVars
<1>3. l.keep \in Seq(Event) /\ p \in Record
  BY DEF PresenceInv, Typed
<1>4. disk'.p = p /\ disk'.events = l.keep
  BY <1>1
<1>5. Typed'
  <2>1. disk' \in [p : Record, events : Seq(Event)]
    BY <1>1, <1>3
  <2>2. QED
    BY <1>1, <1>2, <1>3, <2>1 DEF PresenceInv, Typed
<1>6. Dated' /\ Current' /\ TwoPerSilence'
  BY <1>2, <1>4 DEF PresenceInv, Dated, Current, TwoPerSilence, Thinking, Nudging
<1>7. Charged' /\ Kept'
  <2>1. Charged'
    BY <1>2 DEF PresenceInv, Charged, Owed, InHand, Waiting
  <2>2. InHand({"push"})' \in {0, 1} /\ InHand({"append", "write", "push"})' \in {0, 1}
        /\ InHand({"push"})' <= InHand({"append", "write", "push"})'
    BY DEF InHand
  <2>3. said'[p'.user] \in Nat /\ Waiting(queue, p.user)' \in Nat /\ p'.count \in Nat
    <3>1. said[p.user] \in Nat /\ Waiting(queue, p.user) \in Nat
      BY Sizes
    <3>2. QED
      BY <1>2, <1>3, <3>1 DEF Waiting, Record
  <2>4. disk'.p.count = p'.count
    BY <1>2, <1>4
  <2>5. QED
    BY <2>1, <2>2, <2>3, <2>4 DEF Charged, Kept, Owed
<1>8. ASSUME Restarts, Unrepeated PROVE Unrepeated'
  <2>1. Below(l.keep, Bound(p))
        /\ (nudge.at = "answered" \/ (nudge.at \in {"append", "write"} /\ nudge.kind = "nudge") =>
                Below(l.keep, nudge.line - 1))
    BY <1>8 DEF Unrepeated, Making
  <2>2. Bound(p)' = Bound(p) /\ Bound(disk.p)' = Bound(p)
    BY <1>2, <1>4 DEF Bound
  <2>3. /\ Below(events, Bound(p))' /\ Below(disk.events, Bound(disk.p))'
        /\ (nudge.at = "answered" \/ (nudge.at \in {"append", "write"} /\ nudge.kind = "nudge") =>
                Below(events, nudge.line - 1))'
    BY <1>1, <1>2, <1>4, <2>1 DEF Below, Bound
  <2>4. QED
    BY <1>2, <1>8, <2>3 DEF Unrepeated, Making, Below, Bound
<1>9. QED
  BY <1>5, <1>6, <1>7, <1>8 DEF PresenceInv, Restarts

\* The heartbeat is asked for a sentence of this silence, which it may still have.
LEMMA StartNudgeKeeps ==
    ASSUME Hypotheses, PresenceInv, StartNudge
    PROVE  PresenceInv'
<1>1. /\ p' = [p EXCEPT !.attempt = now]
      /\ disk' = [p |-> p', events |-> events]
      /\ nudge' = [nudge EXCEPT !.at = "asked", !.user = p.user, !.count = p.count,
                                !.locale = locale]
      /\ UNCHANGED <<now, events, lock, queue, locale, said, crashes>>
  BY DEF StartNudge, Save, turnVars, roomVars
<1>2. p \in Record /\ nudge \in Thread /\ now \in 1..MaxTime /\ locale \in Locales
      /\ events \in Seq(Event)
  BY DEF PresenceInv, Typed
<1>3. p' \in Record /\ p'.user = p.user /\ p'.count = p.count /\ p'.last = p.last
      /\ disk'.p = p' /\ disk'.events = events
  BY <1>1, <1>2 DEF Record
<1>4. nudge' \in Thread /\ nudge'.at = "asked" /\ nudge'.user = p.user /\ nudge'.count = p.count
  BY <1>1, <1>2 DEF Thread, Tongues, Record
<1>5. p.count \in {0, 1} /\ p.user < now /\ (p.count = 1 /\ p.last # 0 => p.last < now)
  <2>1. now - p.user >= First /\ p.count < MaxNudges
        /\ (p.count = 1 => now - (IF p.last = 0 THEN p.user ELSE p.last) >= Second)
    BY DEF StartNudge, CanInitiate
  <2>2. QED
    BY <1>2, <2>1 DEF Record, MaxNudges, Hypotheses
<1>6. Typed'
  <2>1. disk' \in [p : Record, events : Seq(Event)]
    BY <1>1, <1>2, <1>3
  <2>2. QED
    BY <1>1, <1>3, <1>4, <2>1 DEF PresenceInv, Typed
<1>7. Dated' /\ Current' /\ TwoPerSilence'
  <2>1. Dated'
    <3>1. /\ p.user <= now /\ p.last <= now /\ (p.count = 0 => p.last = 0)
          /\ (\A i \in 1..Len(queue) : queue[i].user < now)
          /\ (\A c \in now..MaxTime : said[c] = 0)
      BY DEF PresenceInv, Dated
    <3>2. QED
      BY <1>1, <1>3, <3>1 DEF Dated
  <2>2. Current'
    BY <1>1, <1>3, <1>4, <1>5 DEF Current, Thinking, Nudging
  <2>3. TwoPerSilence'
    BY <1>1 DEF PresenceInv, TwoPerSilence
  <2>4. QED
    BY <2>1, <2>2, <2>3
<1>8. Charged' /\ Kept'
  <2>1. InHand({"append", "write", "push"})' = 0 /\ InHand({"push"})' = 0
    BY <1>4 DEF InHand
  <2>2. said'[p'.user] = said[p.user] /\ Waiting(queue, p.user)' = Waiting(queue, p.user)
    BY <1>1, <1>3 DEF Waiting
  <2>3. said[p.user] \in Nat /\ Waiting(queue, p.user) \in Nat /\ p.count \in Nat
        /\ InHand({"append", "write", "push"}) \in {0, 1}
    BY <1>2, Sizes DEF Record
  <2>4. said[p.user] + Waiting(queue, p.user) <= p.count
    BY <2>3 DEF PresenceInv, Charged, Owed
  <2>5. QED
    BY <1>3, <2>1, <2>2, <2>3, <2>4 DEF Charged, Kept, Owed
<1>9. ASSUME Restarts, Unrepeated PROVE Unrepeated'
  <2>1. Bound(p)' = Bound(p) /\ Bound(disk.p)' = Bound(p)
    BY <1>3 DEF Bound
  <2>2. p.count = 0 => p.last = 0
    BY DEF PresenceInv, Dated
  <2>3. Bound(p) < now
    BY <1>2, <1>5, <2>2 DEF Bound, Record
  <2>4. Making'
    BY <1>1, <1>4, <2>1, <2>3 DEF Making
  <2>5. QED
    BY <1>1, <1>3, <1>9, <2>1, <2>4 DEF Unrepeated, Below, Bound
<1>10. QED
  BY <1>6, <1>7, <1>8, <1>9 DEF PresenceInv, Restarts

\* The sentence counts against the silence it was meant for, and against no other.
LEMMA ChargeKeeps ==
    ASSUME Hypotheses, PresenceInv, Charge
    PROVE  PresenceInv'
<1>1. /\ nudge.at = "answered"
      /\ p' = [p EXCEPT !.count = nudge.count + 1, !.last = now]
      /\ nudge' = [nudge EXCEPT !.at = "append", !.kind = "nudge", !.ts = now]
      /\ UNCHANGED <<now, disk, events, lock, queue, locale, said, crashes>>
  BY DEF Charge, turnVars, roomVars
<1>2. p \in Record /\ nudge \in Thread /\ now \in 1..MaxTime /\ now \in Nat
  BY DEF PresenceInv, Typed
<1>3. nudge.user < now /\ nudge.count \in {0, 1}
      /\ p.count = IF p.user = nudge.user THEN nudge.count ELSE 0
  BY <1>1, <1>2 DEF PresenceInv, Current, Thinking, Thread, MaxNudges
<1>4. p' \in Record /\ p'.user = p.user /\ p'.count = nudge.count + 1 /\ p'.last = now
  <2>1. nudge.count + 1 \in 0..MaxNudges
    BY <1>3 DEF MaxNudges
  <2>2. QED
    BY <1>1, <1>2, <2>1 DEF Record
<1>5. nudge' \in Thread /\ nudge'.at = "append" /\ nudge'.kind = "nudge"
      /\ nudge'.user = nudge.user /\ nudge'.line = nudge.line
  BY <1>1, <1>2 DEF Thread
<1>6. Typed'
  BY <1>1, <1>4, <1>5 DEF PresenceInv, Typed
<1>7. Dated'
  <2>1. /\ p.user <= now /\ disk.p.user = p.user /\ disk.p.last <= now
        /\ (disk.p.count = 0 => disk.p.last = 0)
        /\ (\A i \in 1..Len(queue) : queue[i].user < now)
        /\ (\A c \in now..MaxTime : said[c] = 0)
    BY DEF PresenceInv, Dated
  <2>2. p'.count # 0 /\ p'.last <= now
    BY <1>2, <1>3, <1>4
  <2>3. QED
    BY <1>1, <1>4, <2>1, <2>2 DEF Dated
<1>8. Current' /\ TwoPerSilence'
  BY <1>1, <1>3, <1>5 DEF PresenceInv, Current, TwoPerSilence, Thinking, Nudging
<1>9. Charged' /\ (Kept => Kept')
  <2>1. InHand({"append", "write", "push"}) = 0 /\ InHand({"push"}) = 0 /\ InHand({"push"})' = 0
    BY <1>1, <1>5 DEF InHand
  <2>2. InHand({"append", "write", "push"})' = IF p.user = nudge.user THEN 1 ELSE 0
    BY <1>4, <1>5 DEF InHand
  <2>3. said'[p'.user] = said[p.user] /\ Waiting(queue, p.user)' = Waiting(queue, p.user)
    BY <1>1, <1>4 DEF Waiting
  <2>4. said[p.user] \in Nat /\ Waiting(queue, p.user) \in Nat
    BY Sizes
  <2>5. said[p.user] + Waiting(queue, p.user) <= p.count
    BY <2>1, <2>4 DEF PresenceInv, Charged, Owed
  <2>6. Charged'
    BY <1>3, <1>4, <2>2, <2>3, <2>4, <2>5 DEF Charged, Owed
  <2>7. Kept => Kept'
    BY <1>1, <2>1, <2>3 DEF Kept, Owed
  <2>8. QED
    BY <2>6, <2>7
<1>10. ASSUME Restarts, Unrepeated PROVE Unrepeated'
  <2>1. Bound(p') = now /\ Bound(p) <= now /\ Bound(p) \in Nat /\ now \in Nat
    <3>1. p.user <= now /\ p.user \in Nat
      BY <1>2 DEF PresenceInv, Dated, Record
    <3>2. QED
      BY <1>2, <1>4, <3>1, Sizes DEF Bound
  <2>2. \A es \in Seq(Event) : Below(es, Bound(p)) => Below(es, Bound(p'))
    BY <1>10, <2>1, BelowMore
  <2>3. Below(events, Bound(p')) /\ (\A l \in lock : Below(l.keep, Bound(p')))
    <3>1. events \in Seq(Event) /\ \A l \in lock : l.keep \in Seq(Event)
      BY DEF PresenceInv, Typed
    <3>2. QED
      BY <1>10, <2>2, <3>1 DEF Unrepeated
  <2>4. nudge.line # 0 /\ nudge.line <= Bound(p') /\ Below(events, nudge.line - 1)
        /\ (\A l \in lock : Below(l.keep, nudge.line - 1))
    BY <1>1, <1>10, <2>1 DEF Unrepeated, Making
  <2>5. Making'
    BY <1>1, <1>5, <2>4 DEF Making, Below, Bound
  <2>6. QED
    BY <1>1, <1>10, <2>3, <2>5 DEF Unrepeated, Below, Bound
<1>11. QED
  BY <1>6, <1>7, <1>8, <1>9, <1>10 DEF PresenceInv, Restarts

LEMMA PushSpeechKeeps ==
    ASSUME Hypotheses, PresenceInv, PushSpeech
    PROVE  PresenceInv'
<1>1. /\ nudge.at = "push" /\ nudge' = Resting
      /\ queue' = Append(queue, [user |-> nudge.user, locale |-> nudge.locale])
      /\ UNCHANGED <<now, p, disk, events, lock, locale, said, crashes>>
  BY DEF PushSpeech, turnVars, roomVars
<1> DEFINE x == [user |-> nudge.user, locale |-> nudge.locale]
           Command == [user : Nat, locale : Tongues]
<1>2. nudge \in Thread /\ queue \in Seq(Command) /\ x \in Command /\ x.user = nudge.user
  BY DEF PresenceInv, Typed, Thread
<1>3. nudge.kind = "nudge" /\ nudge.user < now
  BY <1>1 DEF PresenceInv, Current, Nudging
<1>4. Resting \in Thread /\ Resting.at = "idle"
  BY DEF Resting, Thread, Tongues, MaxNudges
<1>5. queue' = Append(queue, x)
  BY <1>1
<1> HIDE DEF x, Command
<1>6. queue' \in Seq(Command) /\ Len(queue') = Len(queue) + 1 /\ Len(queue) \in Nat
      /\ (\A i \in 1..Len(queue) : queue'[i] = queue[i]) /\ queue'[Len(queue) + 1] = x
  BY <1>2, <1>5
<1>7. Typed'
  BY <1>1, <1>4, <1>6 DEF PresenceInv, Typed, Command
<1>8. Dated'
  <2>1. /\ p.user <= now /\ p.last <= now /\ disk.p.user = p.user /\ disk.p.last <= now
        /\ (p.count = 0 => p.last = 0) /\ (disk.p.count = 0 => disk.p.last = 0)
        /\ (\A i \in 1..Len(queue) : queue[i].user < now)
        /\ (\A c \in now..MaxTime : said[c] = 0)
    BY DEF PresenceInv, Dated
  <2>2. \A i \in 1..Len(queue') : queue'[i].user < now
    BY <1>2, <1>3, <1>6, <2>1
  <2>3. QED
    BY <1>1, <2>1, <2>2 DEF Dated
<1>9. Current' /\ TwoPerSilence'
  BY <1>1, <1>4 DEF PresenceInv, Current, TwoPerSilence, Thinking, Nudging
<1>10. Charged' /\ (Kept => Kept')
  <2>1. Waiting(queue', p.user) = Waiting(queue, p.user) + (IF nudge.user = p.user THEN 1 ELSE 0)
    BY <1>2, <1>5, WaitingAppend
  <2>2. /\ InHand({"append", "write", "push"}) = IF nudge.user = p.user THEN 1 ELSE 0
        /\ InHand({"push"}) = IF nudge.user = p.user THEN 1 ELSE 0
        /\ InHand({"append", "write", "push"})' = 0 /\ InHand({"push"})' = 0
    BY <1>1, <1>3, <1>4 DEF InHand
  <2>3. said[p.user] \in Nat /\ Waiting(queue, p.user) \in Nat
    BY Sizes
  <2>4. Waiting(queue, p.user)' = Waiting(queue', p.user)
    BY <1>1
  <2>5. Owed({"append", "write", "push"})' = Owed({"append", "write", "push"})
        /\ Owed({"push"})' = Owed({"push"})
    BY <1>1, <2>1, <2>2, <2>3, <2>4 DEF Owed
  <2>6. QED
    BY <1>1, <2>5 DEF PresenceInv, Charged, Kept
<1>11. Unrepeated => Unrepeated'
  BY <1>1, <1>4 DEF Unrepeated, Making, Below, Bound
<1>12. QED
  BY <1>7, <1>8, <1>9, <1>10, <1>11 DEF PresenceInv, Restarts

\* A command is spoken to the silence it was made for, or not at all.
LEMMA SpeakKeeps ==
    ASSUME Hypotheses, PresenceInv, Speak
    PROVE  PresenceInv'
<1> DEFINE Command == [user : Nat, locale : Tongues]
<1>1. /\ queue # << >> /\ queue' = Tail(queue)
      /\ said' = IF PresenceSpeechIsCurrent(Head(queue))
                 THEN [said EXCEPT ![p.user] = @ + 1] ELSE said
      /\ UNCHANGED <<now, p, disk, events, lock, nudge, locale, crashes>>
  BY DEF Speak, turnVars, roomVars
<1>2. /\ queue \in Seq(Command) /\ said \in [0..MaxTime -> Nat] /\ p.user \in 0..MaxTime
      /\ now \in 1..MaxTime /\ p \in Record /\ disk.p \in Record
  BY Sizes DEF PresenceInv, Typed
<1>3. /\ p.user <= now /\ p.last <= now /\ disk.p.user = p.user /\ disk.p.last <= now
      /\ (p.count = 0 => p.last = 0) /\ (disk.p.count = 0 => disk.p.last = 0)
      /\ (\A i \in 1..Len(queue) : queue[i].user < now)
      /\ (\A c \in now..MaxTime : said[c] = 0)
  BY DEF PresenceInv, Dated
<1> DEFINE Heard == Head(queue).user = p.user /\ PresenceSpeechIsCurrent(Head(queue))
<1>4. said' = IF Heard THEN [said EXCEPT ![p.user] = @ + 1] ELSE said
  BY <1>1 DEF PresenceSpeechIsCurrent
<1> HIDE DEF Heard, Command
<1>5. /\ queue' \in Seq(Command) /\ Len(queue') = Len(queue) - 1 /\ Len(queue) \in Nat \ {0}
      /\ (\A i \in 1..Len(queue') : queue'[i] = queue[i + 1])
      /\ Head(queue) = queue[1]
  BY <1>1, <1>2
<1>6. said' \in [0..MaxTime -> Nat] /\ said'[p.user] = said[p.user] + (IF Heard THEN 1 ELSE 0)
      /\ (\A c \in 0..MaxTime : c # p.user => said'[c] = said[c])
  BY <1>2, <1>4
<1>7. Typed'
  BY <1>1, <1>5, <1>6 DEF PresenceInv, Typed, Command
<1>8. Heard => p.user < now
  <2>1. Heard => Head(queue).user = p.user
    BY DEF Heard
  <2>2. 1 \in 1..Len(queue)
    BY <1>5
  <2>3. QED
    BY <1>3, <1>5, <2>1, <2>2
<1>9. Dated'
  <2>1. \A i \in 1..Len(queue') : queue'[i].user < now
    BY <1>3, <1>5
  <2>2. \A c \in now..MaxTime : said'[c] = 0
    BY <1>2, <1>3, <1>4, <1>6, <1>8
  <2>3. QED
    BY <1>1, <1>3, <2>1, <2>2 DEF Dated
<1>10. Current'
  BY <1>1 DEF PresenceInv, Current, Thinking, Nudging
<1>11. Waiting(queue, p.user) = Waiting(queue', p.user) + (IF Head(queue).user = p.user THEN 1 ELSE 0)
       /\ Waiting(queue', p.user) \in Nat
  BY <1>1, <1>2, <1>5, WaitingTail, WaitingIsNat
<1>12. Charged' /\ (Kept => Kept')
  <2>1. InHand({"append", "write", "push"})' = InHand({"append", "write", "push"})
        /\ InHand({"push"})' = InHand({"push"})
    BY <1>1 DEF InHand
  <2>2. Heard => Head(queue).user = p.user
    BY DEF Heard
  <2>3. Waiting(queue, p.user)' = Waiting(queue', p.user) /\ said'[p'.user] = said'[p.user]
    BY <1>1
  <2>4. said[p.user] \in Nat
    BY <1>2
  <2>5. InHand({"append", "write", "push"}) \in {0, 1} /\ InHand({"push"}) \in {0, 1}
    BY DEF InHand
  <2>6. said'[p.user] + Waiting(queue', p.user) <= said[p.user] + Waiting(queue, p.user)
    BY <1>6, <1>11, <2>2, <2>4
  <2>7. Owed({"append", "write", "push"})' <= Owed({"append", "write", "push"})
        /\ Owed({"push"})' <= Owed({"push"})
    BY <1>6, <1>11, <2>1, <2>3, <2>4, <2>5, <2>6 DEF Owed
  <2>8. Owed({"append", "write", "push"}) \in Nat /\ Owed({"push"}) \in Nat
        /\ Owed({"append", "write", "push"})' \in Nat /\ Owed({"push"})' \in Nat
    <3>1. said'[p.user] \in Nat /\ Waiting(queue, p.user) \in Nat
      BY <1>2, <1>6, Sizes
    <3>2. QED
      BY <1>11, <2>1, <2>3, <2>4, <2>5, <3>1 DEF Owed
  <2>9. p.count \in Nat /\ disk.p.count \in Nat
    BY <1>2 DEF Record
  <2>10. QED
    BY <1>1, <2>7, <2>8, <2>9 DEF PresenceInv, Charged, Kept
<1>13. TwoPerSilence'
  <2>1. said'[p.user] <= p.count
    <3>1. InHand({"append", "write", "push"})' \in {0, 1}
      BY DEF InHand
    <3>2. said'[p.user] + Waiting(queue', p.user) + InHand({"append", "write", "push"})' <= p.count
      BY <1>1, <1>12 DEF Charged, Owed
    <3>3. p.count \in Nat /\ said'[p.user] \in Nat
      BY <1>2, <1>6 DEF Record
    <3>4. QED
      BY <1>11, <3>1, <3>2, <3>3
  <2>2. p.count <= MaxNudges /\ MaxNudges = 2 /\ p.count \in Nat
    BY <1>2 DEF Record, MaxNudges
  <2>3. \A c \in 0..MaxTime : said'[c] <= MaxNudges
    <3>1. \A c \in 0..MaxTime : said[c] <= MaxNudges
      BY <1>2 DEF PresenceInv, TwoPerSilence
    <3>2. QED
      BY <1>2, <1>6, <2>1, <2>2, <3>1
  <2>4. DOMAIN said' = 0..MaxTime
    BY <1>6
  <2>5. QED
    BY <2>3, <2>4 DEF TwoPerSilence
<1>14. Unrepeated => Unrepeated'
  BY <1>1 DEF Unrepeated, Making, Below, Bound
<1>15. QED
  BY <1>7, <1>9, <1>10, <1>12, <1>13, <1>14 DEF PresenceInv, Restarts

\* The event is on the list in memory and on the one of the disk, unless it repeats the last;
\* a nudge never does, and so the next process finds it charged.
LEMMA WriteEventsKeeps ==
    ASSUME Hypotheses, PresenceInv, WriteEvents
    PROVE  PresenceInv'
<1> DEFINE e == [kind |-> nudge.kind, line |-> nudge.line, ts |-> nudge.ts]
           all == Append(nudge.list, e)
           repeats == nudge.list # << >> /\ Last(nudge.list).kind = nudge.kind
                                         /\ Last(nudge.list).line = nudge.line
<1>1. /\ nudge.at = "write" /\ nudge' = Afterwards
      /\ events' = IF repeats THEN events ELSE IF Len(all) > EventsCap THEN Tail(all) ELSE all
      /\ disk' = IF repeats THEN disk ELSE [p |-> p, events |-> events']
      /\ UNCHANGED <<now, p, lock, queue, locale, said, crashes>>
  BY DEF WriteEvents, Save, turnVars, roomVars
<1>2. nudge \in Thread /\ events \in Seq(Event) /\ p \in Record
      /\ disk \in [p : Record, events : Seq(Event)]
  BY DEF PresenceInv, Typed
<1>3. nudge.list \in Seq(Event) /\ nudge.kind \in {"nudge", "task_progress"}
      /\ nudge.line \in Nat \cup Sayings
  BY <1>2 DEF Thread
<1>4. e \in Event /\ e.kind = nudge.kind /\ e.line = nudge.line
  BY <1>2 DEF Event, Thread
<1> HIDE DEF e, repeats
<1>5. all \in Seq(Event) /\ all # << >>
  BY <1>3, <1>4
<1>6. events' \in Seq(Event)
  BY <1>1, <1>2, <1>5, BelowTail
<1>7. nudge' \in Thread /\ nudge'.at \in {"push", "idle"} /\ (nudge'.at = "push" => nudge.kind = "nudge")
      /\ nudge'.kind = "nudge" /\ (nudge.kind = "nudge" => nudge'.user = nudge.user)
      /\ (nudge.kind # "nudge" => nudge'.at = "idle")
  <2>1. CASE nudge.kind = "nudge"
    <3>1. nudge' = [nudge EXCEPT !.at = "push", !.list = << >>]
      BY <1>1, <2>1 DEF Afterwards
    <3>2. << >> \in Seq(Event)
      OBVIOUS
    <3>3. QED
      BY <1>2, <2>1, <3>1, <3>2 DEF Thread
  <2>2. CASE nudge.kind # "nudge"
    <3>1. nudge' = Resting
      BY <1>1, <2>2 DEF Afterwards
    <3>2. QED
      BY <2>2, <3>1 DEF Resting, Thread, Tongues, MaxNudges
  <2>3. QED
    BY <2>1, <2>2
<1>8. disk' \in [p : Record, events : Seq(Event)]
      /\ (repeats => disk' = disk) /\ (~repeats => disk'.p = p /\ disk'.events = events')
  <2>1. CASE repeats
    BY <1>1, <1>2, <2>1
  <2>2. CASE ~repeats
    <3>1. disk' = [p |-> p, events |-> events']
      BY <1>1, <2>2
    <3>2. QED
      BY <1>2, <1>6, <2>2, <3>1
  <2>3. QED
    BY <2>1, <2>2
<1>9. Typed'
  BY <1>1, <1>6, <1>7, <1>8 DEF PresenceInv, Typed
<1>10. Dated'
  <2>1. /\ p.user <= now /\ p.last <= now /\ disk.p.user = p.user /\ disk.p.last <= now
        /\ (p.count = 0 => p.last = 0) /\ (disk.p.count = 0 => disk.p.last = 0)
        /\ (\A i \in 1..Len(queue) : queue[i].user < now)
        /\ (\A c \in now..MaxTime : said[c] = 0)
    BY DEF PresenceInv, Dated
  <2>2. /\ disk'.p.user = p.user /\ disk'.p.last <= now
        /\ (disk'.p.count = 0 => disk'.p.last = 0)
    BY <1>8, <2>1
  <2>3. QED
    BY <1>1, <2>1, <2>2 DEF Dated
<1>11. Current' /\ TwoPerSilence'
  BY <1>1, <1>7 DEF PresenceInv, Current, TwoPerSilence, Thinking, Nudging
<1>12. InHand({"push"})' <= InHand({"append", "write", "push"})
       /\ InHand({"append", "write", "push"})' <= InHand({"append", "write", "push"})
       /\ (nudge.kind # "nudge" => InHand({"push"})' = 0)
       /\ InHand({"push"}) = 0
       /\ InHand({"push"})' \in {0, 1} /\ InHand({"append", "write", "push"})' \in {0, 1}
       /\ InHand({"append", "write", "push"}) \in {0, 1}
  BY <1>1, <1>7 DEF InHand
<1>13. said'[p'.user] = said[p.user] /\ Waiting(queue, p.user)' = Waiting(queue, p.user)
       /\ said[p.user] \in Nat /\ Waiting(queue, p.user) \in Nat /\ p.count \in Nat
       /\ p' = p /\ disk.p.count \in Nat
  BY <1>1, Sizes DEF Waiting, Record
<1>14. said[p.user] + Waiting(queue, p.user) + InHand({"append", "write", "push"}) <= p.count
  BY DEF PresenceInv, Charged, Owed
<1>15. Charged'
  BY <1>12, <1>13, <1>14 DEF Charged, Owed
<1>16. ASSUME Restarts, Unrepeated PROVE nudge.kind = "nudge" => ~repeats
  <2>1. Below(nudge.list, nudge.line - 1) \/ nudge.kind # "nudge"
    BY <1>1, <1>16 DEF Unrepeated, Making
  <2>2. nudge.line \in Nat
    BY <1>3, <1>16, Numbered
  <2>3. nudge.list # << >> => Len(nudge.list) \in 1..Len(nudge.list)
                              /\ Last(nudge.list) = nudge.list[Len(nudge.list)]
    BY <1>3 DEF Last
  <2>4. QED
    BY <2>1, <2>2, <2>3 DEF Below, repeats
<1>17. ASSUME Restarts, Unrepeated, Kept PROVE Kept'
  <2>1. CASE ~repeats
    <3>1. said[p.user] + Waiting(queue, p.user) + InHand({"push"})' <= p.count
      BY <1>12, <1>13, <1>14
    <3>2. QED
      BY <1>8, <1>13, <2>1, <3>1 DEF Kept, Owed
  <2>2. CASE repeats
    <3>1. nudge.kind # "nudge"
      BY <1>16, <1>17, <2>2
    <3>2. InHand({"push"})' = 0 /\ disk' = disk
      BY <1>8, <1>12, <2>2, <3>1
    <3>3. said[p.user] + Waiting(queue, p.user) + InHand({"push"}) <= disk.p.count
      BY <1>17 DEF Kept, Owed
    <3>4. QED
      BY <1>12, <1>13, <3>2, <3>3 DEF Kept, Owed
  <2>3. QED
    BY <2>1, <2>2
<1>18. ASSUME Restarts, Unrepeated PROVE Unrepeated'
  <2>1. Below(nudge.list, Bound(p)) /\ (nudge.kind = "nudge" => nudge.line <= Bound(p))
        /\ Below(events, Bound(p)) /\ Below(disk.events, Bound(disk.p))
        /\ (\A l \in lock : Below(l.keep, Bound(p)))
    BY <1>1, <1>18 DEF Unrepeated, Making
  <2>2. Below(all, Bound(p))
    BY <1>3, <1>4, <2>1, BelowAppend
  <2>3. Below(events', Bound(p))
    <3>1. Below(Tail(all), Bound(p))
      BY <1>5, <2>2, BelowTail
    <3>2. QED
      BY <1>1, <2>1, <2>2, <3>1
  <2>4. Below(disk'.events, Bound(disk'.p))
    BY <1>8, <2>1, <2>3
  <2>5. /\ Below(events, Bound(p))' /\ Below(disk.events, Bound(disk.p))'
        /\ (\A l \in lock : Below(l.keep, Bound(p)))'
    BY <1>1, <2>1, <2>3, <2>4 DEF Below, Bound
  <2>6. Making'
    BY <1>7 DEF Making
  <2>7. QED
    BY <2>5, <2>6 DEF Unrepeated
<1>19. QED
  BY <1>9, <1>10, <1>11, <1>15, <1>17, <1>18 DEF PresenceInv, Restarts

\* The next process knows of the silence what the disk does.
LEMMA RestartKeeps ==
    ASSUME Hypotheses, PresenceInv, Restart
    PROVE  PresenceInv'
<1>1. /\ crashes < MaxCrashes /\ crashes' = crashes + 1
      /\ p' = disk.p /\ events' = disk.events /\ lock' = {}
      /\ nudge' = Resting /\ queue' = << >>
      /\ UNCHANGED <<now, disk, locale, said>>
  BY DEF Restart, roomVars
<1>2. crashes \in Nat /\ disk \in [p : Record, events : Seq(Event)] /\ locale \in Locales
      /\ now \in 1..MaxTime /\ said \in [0..MaxTime -> Nat]
  BY DEF PresenceInv, Typed
<1>3. Restarts
  BY <1>1, <1>2 DEF Hypotheses, Restarts
<1>4. Kept /\ Unrepeated
  BY <1>3 DEF PresenceInv
<1>5. Resting \in Thread /\ Resting.at = "idle" /\ Resting.kind = "nudge"
  BY DEF Resting, Thread, Tongues, MaxNudges
<1>6. Typed'
  BY <1>1, <1>2, <1>5 DEF Typed
<1>7. Dated'
  BY <1>1, <1>2 DEF PresenceInv, Dated
<1>8. Current' /\ TwoPerSilence'
  BY <1>1, <1>5 DEF PresenceInv, Current, TwoPerSilence, Thinking, Nudging
<1>9. Charged' /\ Kept'
  <2>1. disk.p.user = p.user /\ p'.user = p.user /\ disk'.p = disk.p
    BY <1>1 DEF PresenceInv, Dated
  <2>2. Waiting(queue, p.user)' = 0
    <3>1. << >> \in Seq(Event) /\ \A i \in 1..Len(<< >>) : << >>[i].user # p'.user
      OBVIOUS
    <3>2. Waiting(<< >>, p'.user) = 0
      BY <3>1, WaitingNone
    <3>3. QED
      BY <1>1, <3>2
  <2>3. InHand({"append", "write", "push"})' = 0 /\ InHand({"push"})' = 0
    BY <1>1, <1>5 DEF InHand
  <2>4. said[p.user] \in Nat /\ Waiting(queue, p.user) \in Nat /\ InHand({"push"}) \in {0, 1}
        /\ disk.p.count \in Nat
    BY Sizes DEF Record
  <2>5. said[p.user] <= disk.p.count
    BY <1>4, <2>4 DEF Kept, Owed
  <2>6. QED
    BY <1>1, <2>1, <2>2, <2>3, <2>4, <2>5 DEF Charged, Kept, Owed
<1>10. Unrepeated'
  <2>1. Below(events, Bound(p))' /\ Below(disk.events, Bound(disk.p))'
    BY <1>1, <1>4 DEF Unrepeated, Below, Bound
  <2>2. Making'
    BY <1>1, <1>5 DEF Making
  <2>3. QED
    BY <1>1, <2>1, <2>2 DEF Unrepeated
<1>11. QED
  BY <1>6, <1>7, <1>8, <1>9, <1>10 DEF PresenceInv

-----------------------------------------------------------------------------
(* The theorem. *)

\* PresenceInv is preserved by every step of the program.
LEMMA PresenceStep ==
    ASSUME Hypotheses, PresenceInv, [Next]_vars
    PROVE  PresenceInv'
<1>1. CASE UNCHANGED vars
  BY <1>1, OthersKeep
<1>2. CASE \E t \in Turns : \/ Arrive(t) \/ NoteUserReply(t) \/ BrainBegins(t)
                            \/ Prompt(t) \/ BrainEnds(t) \/ Consume(t)
  <2>1. PICK t \in Turns : \/ Arrive(t) \/ NoteUserReply(t) \/ BrainBegins(t)
                           \/ Prompt(t) \/ BrainEnds(t) \/ Consume(t)
    BY <1>2
  <2>2. CASE Arrive(t) \/ BrainBegins(t) \/ Prompt(t)
    BY <2>2, OthersKeep
  <2>3. CASE NoteUserReply(t)
    BY <2>3, ReplyKeeps
  <2>4. CASE BrainEnds(t)
    BY <2>4, BrainEndsKeeps
  <2>5. CASE Consume(t)
    BY <2>5, ConsumeKeeps
  <2>6. QED
    BY <2>1, <2>2, <2>3, <2>4, <2>5
<1>3. CASE StartNudge \/ NoLine \/ Charge \/ ReadEvents \/ WriteEvents \/ PushSpeech
  BY <1>3, StartNudgeKeeps, NoLineKeeps, ChargeKeeps, ReadEventsKeeps, WriteEventsKeeps,
     PushSpeechKeeps
<1>4. CASE \E line \in {now} \cup Sayings : Answer(line)
  BY <1>4, AnswerKeeps
<1>5. CASE Progress \/ Speak \/ Tick \/ Surroundings \/ Restart
  BY <1>5, ProgressKeeps, SpeakKeeps, TickKeeps, OthersKeep, RestartKeeps
<1>6. QED
  BY <1>1, <1>2, <1>3, <1>4, <1>5 DEF Next

\* However replies, job narrations, changes of language or of the room, the timer's steps and
\* restarts follow one another, no silence hears more than two sentences it did not ask for:
\* what is past the events list of maybe_nudge() is charged in memory and, unless the program is
\* never restarted, on disk. For a program that is, the sentences are taken to be all different;
\* append_heartbeat_event() saves no repetition.
THEOREM SilencesAreRespected == ASSUME Hypotheses PROVE Spec => []TwoPerSilence
<1>1. Init => PresenceInv
  BY PresenceInit
<1>2. PresenceInv /\ [Next]_vars => PresenceInv'
  BY PresenceStep
<1>3. PresenceInv => TwoPerSilence
  BY DEF PresenceInv
<1>4. QED
  BY <1>1, <1>2, <1>3, PTL DEF Spec

-----------------------------------------------------------------------------
CONSTANTS Workers, MaxVersion, Polite
VARIABLES file, reads, editing, text, saw, edits
Edits == INSTANCE FileEdits WITH pc <- editing

CONSTANTS Phases, MaxRounds, MaxTurns, Routes, Policy, FreshIds
VARIABLES working, phase, round, turns, route, premature, tried, calls, world, muts, evid,
          claims, done, outcome, cancelled, paused, mode, late
Worker == INSTANCE WorkerRun WITH pc <- working

CONSTANTS Sessions, MaxActs
VARIABLES row, acts, call, mutex, restarts
Computer == INSTANCE ComputerUse WITH lock <- mutex, crashes <- restarts

CONSTANTS MaxAttempts, Budget, Gates, Idle, MaxRetries, MaxFaults
VARIABLES side, lastUsed, clock, run, piAt, attempt, turnsUsed, grant, seen, retries, got,
          deciding, spoken, watching, cancel, faults
Pi == INSTANCE PiRuns WITH now <- clock, pc <- piAt, said <- spoken

-----------------------------------------------------------------------------
(* The file tools.                                                            *)

\* One loop calls the tools, and nobody else saves the file while a call runs.
OneEditor == Polite /\ \A v, w \in Workers : v = w

\* Between its calls a worker knows what it was shown; the stamp stands for a version it
\* knows, and within a call it works on the file as it is.
EditInv ==
    /\ file \in Nat /\ reads \in Nat
    /\ editing \in [Workers -> {"idle", "read", "seen", "found", "wrote"}]
    /\ text \in [Workers -> Nat] /\ saw \in [Workers -> SUBSET Nat]
    /\ \A w \in Workers :
          /\ reads # 0 => reads \in saw[w]
          /\ editing[w] # "idle" => file \in saw[w]
          /\ editing[w] = "found" => text[w] = file
    /\ Edits!EditsWhatItSaw

LEMMA EditStep == ASSUME OneEditor, EditInv, [Edits!Next]_(Edits!vars) PROVE EditInv'
<1> USE DEF EditInv, Edits!EditsWhatItSaw
<1>1. CASE UNCHANGED Edits!vars
  BY <1>1 DEF Edits!vars
<1>2. ASSUME NEW w \in Workers, Edits!ReadFile(w) PROVE EditInv'
  BY <1>2 DEF Edits!ReadFile, Edits!Goto, OneEditor
<1>3. ASSUME NEW w \in Workers, Edits!Clipped(w) PROVE EditInv'
  BY <1>3 DEF Edits!Clipped, Edits!Goto
<1>4. ASSUME NEW w \in Workers, Edits!NoteRead(w) PROVE EditInv'
  BY <1>4 DEF Edits!NoteRead, OneEditor
<1>5. ASSUME NEW w \in Workers, Edits!WriteFile(w) PROVE EditInv'
  BY <1>5 DEF Edits!WriteFile, Edits!Goto, Edits!NewVersion, OneEditor
<1>6. ASSUME NEW w \in Workers, Edits!BeginEdit(w) PROVE EditInv'
  BY <1>6 DEF Edits!BeginEdit, Edits!Goto, Edits!SeenCurrent
<1>7. ASSUME NEW w \in Workers, Edits!ReadVerbatim(w) PROVE EditInv'
  BY <1>7 DEF Edits!ReadVerbatim, Edits!Goto
<1>8. ASSUME NEW w \in Workers, Edits!NotFound(w) PROVE EditInv'
  BY <1>8 DEF Edits!NotFound, Edits!Goto
<1>9. ASSUME NEW w \in Workers, Edits!WriteVerbatim(w) PROVE EditInv'
  BY <1>9 DEF Edits!WriteVerbatim, Edits!Goto, Edits!NewVersion, OneEditor
<1>10. CASE Edits!SavedElsewhere
  BY <1>10 DEF Edits!SavedElsewhere, Edits!NewVersion, OneEditor
<1> QED
  BY <1>1, <1>2, <1>3, <1>4, <1>5, <1>6, <1>7, <1>8, <1>9, <1>10 DEF Edits!Next

\* An edit of the one worker replaces contents that worker was shown, and nothing that was
\* saved since (edit.py checks the stamp, then reads, then writes).
THEOREM EditsKnowTheirFile == ASSUME OneEditor PROVE Edits!Spec => []Edits!EditsWhatItSaw
<1>1. Edits!Init => EditInv
  BY DEF Edits!Init, EditInv, Edits!EditsWhatItSaw
<1>2. EditInv /\ [Edits!Next]_(Edits!vars) => EditInv'
  BY EditStep
<1>3. EditInv => Edits!EditsWhatItSaw
  BY DEF EditInv
<1> QED
  BY <1>1, <1>2, <1>3, PTL DEF Edits!Spec

-----------------------------------------------------------------------------
(* The worker's loop over its tools.                                          *)

\* The provider names its calls, so that no call is answered from the table.
NamedCalls == FreshIds = TRUE

\* What verifies a phase that has changed something was read after its last change.
EvidenceInv ==
    /\ world \in Nat /\ muts \in BOOLEAN
    /\ claims = {}
    /\ muts => evid \subseteq {world}
    /\ Worker!EvidenceIsFresh

LEMMA EvidenceStep ==
    ASSUME NamedCalls, EvidenceInv, [Worker!Next]_(Worker!vars) PROVE EvidenceInv'
<1> DEFINE Untouched == UNCHANGED <<world, muts, evid, claims, done>>
<1>1. Untouched => EvidenceInv'
  BY DEF EvidenceInv, Worker!EvidenceIsFresh
<1>2. UNCHANGED done => Worker!EvidenceIsFresh'
  BY DEF EvidenceInv, Worker!EvidenceIsFresh
<1> USE DEF EvidenceInv
<1>14. ASSUME NEW ev, Worker!Works([mut |-> FALSE, ev |-> ev]), ev \subseteq {world},
             UNCHANGED <<world, done>>
      PROVE  EvidenceInv'
  <2>1. claims' = {} /\ (muts' <=> muts) /\ evid' = evid \cup ev
    BY <1>14 DEF Worker!Works, Worker!Record, Worker!Settle, NamedCalls
  <2> QED
    BY <1>2, <1>14, <2>1
<1>15. ASSUME NEW ev, Worker!Works([mut |-> TRUE, ev |-> ev]), ev \subseteq {world'},
             world' = world + 1, UNCHANGED done
      PROVE  EvidenceInv'
  <2>1. claims' = {} /\ muts' = TRUE /\ evid' = ev
    BY <1>15 DEF Worker!Works, Worker!Record, Worker!Settle, NamedCalls
  <2> QED
    BY <1>2, <1>15, <2>1
<1>3. CASE UNCHANGED Worker!vars \/ Worker!Cancelled \/ Worker!BeginRound \/ Worker!DeadlinePasses
           \/ Worker!OverBudget \/ Worker!ProviderFails \/ Worker!AnswersWithTools
           \/ Worker!AnswersInProse
  <2>1. Untouched
    BY <1>3 DEF Worker!vars, Worker!ledger, Worker!Cancelled, Worker!BeginRound,
           Worker!DeadlinePasses, Worker!OverBudget, Worker!ProviderFails,
           Worker!AnswersWithTools, Worker!AnswersInProse
  <2> QED
    BY <1>1, <2>1
<1>4. CASE Worker!InvalidCall \/ Worker!Denied \/ Worker!Decide \/ Worker!Confirm
           \/ Worker!NotConfirmed \/ Worker!FinishRefused \/ Worker!GivesUp \/ Worker!AfterTool
           \/ Worker!Cancel \/ Worker!SetPaused \/ Worker!SetPermissions
  <2>1. Untouched
    BY <1>4 DEF Worker!ledger, Worker!InvalidCall, Worker!Denied, Worker!Decide, Worker!Confirm,
           Worker!NotConfirmed, Worker!FinishRefused, Worker!GivesUp, Worker!AfterTool,
           Worker!Cancel, Worker!SetPaused, Worker!SetPermissions, Worker!Refused
  <2> QED
    BY <1>1, <2>1
<1>5. CASE Worker!RunRead
  <2>1. Worker!Works([mut |-> FALSE, ev |-> {world}])
    BY <1>5 DEF Worker!RunRead
  <2>2. UNCHANGED <<world, done>>
    BY <1>5 DEF Worker!RunRead, Worker!Runs
  <2> QED
    BY <1>14, <2>1, <2>2
<1>6. CASE Worker!RunWrite
  <2>1. Worker!Works([mut |-> TRUE, ev |-> {}])
    BY <1>6 DEF Worker!RunWrite
  <2>2. world' = world + 1 /\ UNCHANGED done
    BY <1>6 DEF Worker!RunWrite, Worker!Runs
  <2> QED
    BY <1>15, <2>1, <2>2
<1>7. CASE Worker!RunAct
  <2>1. Worker!Works([mut |-> TRUE, ev |-> {world'}])
    BY <1>7 DEF Worker!RunAct
  <2>2. world' = world + 1 /\ UNCHANGED done
    BY <1>7 DEF Worker!RunAct, Worker!Runs
  <2> QED
    BY <1>15, <2>1, <2>2
<1>8. CASE Worker!RunShell
  <2>1. Worker!Works([mut |-> FALSE, ev |-> {world}])
    BY <1>8 DEF Worker!RunShell
  <2>2. UNCHANGED <<world, done>>
    BY <1>8 DEF Worker!RunShell, Worker!Runs
  <2> QED
    BY <1>14, <2>1, <2>2
<1>9. CASE Worker!ToolFails
  <2>1. Untouched
    BY <1>9 DEF Worker!ToolFails, Worker!ledger, Worker!Runs, Worker!Settle, NamedCalls
  <2> QED
    BY <1>1, <2>1
<1>10. CASE Worker!Replay
  BY <1>10 DEF Worker!Replay, Worker!Prior
<1>11. CASE Worker!Finish
  <2>1. Untouched
    BY <1>11 DEF Worker!Finish, Worker!Settle, Worker!ledger, NamedCalls
  <2> QED
    BY <1>1, <2>1
<1>12. CASE Worker!Accept
  <2>1. UNCHANGED <<world, muts, evid, claims>>
    BY <1>12 DEF Worker!Accept, Worker!ledger
  <2>2. Worker!EvidenceIsFresh'
    <3>1. CASE UNCHANGED done
      BY <1>2, <3>1
    <3>2. CASE done' = done \cup {[phase |-> phase, muts |-> muts, fresh |-> world \in evid]}
               /\ ~(muts /\ evid = {})
      <4>1. muts => world \in evid
        BY <3>2
      <4>2. ASSUME NEW d \in done' PROVE d.muts => d.fresh
        <5>1. CASE d \in done
          BY <5>1, Zenon DEF Worker!EvidenceIsFresh
        <5>2. CASE d = [phase |-> phase, muts |-> muts, fresh |-> world \in evid]
          <6>1. d.muts = muts /\ d.fresh = (world \in evid)
            BY <5>2, Zenon
          <6> QED
            BY <4>1, <6>1, Zenon
        <5> QED
          BY <3>2, <5>1, <5>2, Zenon
      <4> QED
        BY <4>2, Zenon DEF Worker!EvidenceIsFresh
    <3> QED
      BY <1>12, <3>1, <3>2 DEF Worker!Accept
  <2> QED
    BY <2>1, <2>2
<1>13. CASE Worker!NextPhase
  BY <1>2, <1>13 DEF Worker!NextPhase
<1> QED
  BY <1>3, <1>4, <1>5, <1>6, <1>7, <1>8, <1>9, <1>10, <1>11, <1>12, <1>13 DEF Worker!Next

\* A phase that changed something is accepted only on evidence that saw the world after its
\* last change (_completion_validation_error, _step_verification_error).
THEOREM EvidenceStaysFresh ==
    ASSUME NamedCalls PROVE Worker!Spec => []Worker!EvidenceIsFresh
<1>1. Worker!Init => EvidenceInv
  <2>1. Worker!Init => Worker!EvidenceIsFresh
    BY Zenon DEF Worker!Init, Worker!EvidenceIsFresh
  <2>2. Worker!Init => world = 0 /\ muts = FALSE /\ claims = {}
    BY Zenon DEF Worker!Init
  <2>3. world = 0 => world \in Nat
    OBVIOUS
  <2> QED
    BY <2>1, <2>2, <2>3, Zenon DEF EvidenceInv
<1>2. EvidenceInv /\ [Worker!Next]_(Worker!vars) => EvidenceInv'
  BY EvidenceStep
<1>3. EvidenceInv => Worker!EvidenceIsFresh
  BY DEF EvidenceInv
<1> QED
  BY <1>1, <1>2, <1>3, PTL DEF Worker!Spec

\* A job of the user, or a scheduled run that may only read: the policy of any other
\* scheduled run takes the place of the mode.
ModeRules == Policy \in {"", "readonly"}

\* Once a call has begun against the last wish of the user, no other is decided against it.
StopInv ==
    /\ cancelled \in BOOLEAN /\ paused \in BOOLEAN /\ mode \in Worker!Modes
    /\ late \in {0, 1}
    /\ late = 1 /\ working \in {"confirm", "decided"} => ~Worker!Unwanted

LEMMA StopStep == ASSUME ModeRules, StopInv, [Worker!Next]_(Worker!vars) PROVE StopInv'
<1> USE DEF StopInv, Worker!Modes
<1>1. ASSUME UNCHANGED <<late, cancelled, paused, mode>>, working' \notin {"confirm", "decided"}
      PROVE  StopInv'
  BY <1>1
<1>2. ASSUME UNCHANGED <<late, cancelled, paused, mode, calls>>, working \in {"confirm", "decided"}
      PROVE  StopInv'
  BY <1>2 DEF Worker!Unwanted, Worker!Halted, Worker!Call
<1>3. CASE UNCHANGED Worker!vars
  BY <1>3 DEF Worker!vars, Worker!flags, Worker!Unwanted, Worker!Halted, Worker!Call
<1>4. CASE Worker!Cancelled \/ Worker!BeginRound \/ Worker!DeadlinePasses \/ Worker!OverBudget
           \/ Worker!AnswersWithTools \/ Worker!AnswersInProse
  BY <1>1, <1>4 DEF Worker!flags, Worker!Cancelled, Worker!BeginRound, Worker!DeadlinePasses,
         Worker!OverBudget, Worker!AnswersWithTools, Worker!AnswersInProse, Worker!End
<1>5. CASE Worker!ProviderFails
  BY <1>1, <1>5 DEF Worker!flags, Worker!ProviderFails, Worker!End
<1>6. CASE Worker!InvalidCall \/ Worker!Denied \/ Worker!NotConfirmed \/ Worker!FinishRefused
           \/ Worker!GivesUp \/ Worker!AfterTool \/ Worker!Replay
  BY <1>1, <1>6 DEF Worker!flags, Worker!InvalidCall, Worker!Denied, Worker!NotConfirmed,
         Worker!FinishRefused, Worker!GivesUp, Worker!AfterTool, Worker!Replay, Worker!Refused,
         Worker!ToNext, Worker!End
<1>7. CASE Worker!Decide
  <2>1. UNCHANGED <<late, cancelled, paused, mode, calls>>
    BY <1>7 DEF Worker!Decide, Worker!flags
  <2>2. ~cancelled /\ ~paused
    BY <1>7 DEF Worker!Decide, Worker!Halted
  <2>3. mode = "readonly" => Worker!Call.tool \in Worker!Reads
    <3>1. Policy = "readonly" \/ (mode = "bypass" \/ Policy = "")
      BY Zenon DEF ModeRules
    <3>2. ASSUME mode = "readonly"
          PROVE  Worker!Decision(Worker!Call.tool) =
                     IF Worker!Call.tool \in Worker!Reads THEN "allow" ELSE "deny"
      <4> DEFINE by == IF mode = "bypass" \/ Policy = "" THEN mode ELSE Policy
      <4>1. by = "readonly"
        BY <3>1, <3>2, Zenon
      <4> HIDE DEF by
      <4>2. (CASE by = "readonly" -> IF Worker!Call.tool \in Worker!Reads THEN "allow" ELSE "deny"
               [] by = "bypass" -> "allow"
               [] OTHER -> IF Worker!Call.tool \in Worker!Risky THEN "confirm" ELSE "allow")
             = IF Worker!Call.tool \in Worker!Reads THEN "allow" ELSE "deny"
        BY <4>1
      <4> QED
        BY <4>2, Zenon DEF Worker!Decision, by
    <3>3. Worker!Decision(Worker!Call.tool) # "deny"
      BY <1>7, Zenon DEF Worker!Decide
    <3> QED
      BY <3>2, <3>3
  <2> QED
    BY <2>1, <2>2, <2>3 DEF Worker!Unwanted, Worker!Halted, Worker!Call
<1>8. CASE Worker!Confirm
  BY <1>2, <1>8 DEF Worker!Confirm, Worker!flags
<1>9. ASSUME NEW tool, Worker!Runs(tool) PROVE StopInv'
  <2>1. working = "decided" /\ working' = "after" /\ UNCHANGED <<cancelled, paused, mode>>
        /\ late' = IF Worker!Unwanted THEN late + 1 ELSE late
    BY <1>9 DEF Worker!Runs, Worker!ToNext, Worker!flags
  <2> QED
    BY <2>1
<1>10. CASE Worker!RunRead \/ Worker!RunWrite \/ Worker!RunAct \/ Worker!RunShell
            \/ Worker!ToolFails
  BY <1>9, <1>10 DEF Worker!RunRead, Worker!RunWrite, Worker!RunAct, Worker!RunShell,
         Worker!ToolFails
<1>11. CASE Worker!Finish \/ Worker!Accept \/ Worker!NextPhase
  BY <1>1, <1>11 DEF Worker!flags, Worker!Finish, Worker!Accept, Worker!NextPhase,
         Worker!ToNext, Worker!End
<1>12. CASE Worker!Cancel \/ Worker!SetPaused \/ Worker!SetPermissions
  <2>1. cancelled' \in BOOLEAN /\ paused' \in BOOLEAN /\ late' = 0
    BY <1>12, Zenon DEF Worker!Cancel, Worker!SetPaused, Worker!SetPermissions
  <2>2. mode' \in Worker!Modes
    BY <1>12, Zenon DEF Worker!Cancel, Worker!SetPaused, Worker!SetPermissions
  <2> QED
    BY <2>1, <2>2
<1> QED
  BY <1>3, <1>4, <1>5, <1>6, <1>7, <1>8, <1>10, <1>11, <1>12 DEF Worker!Next

\* Once the user cancels, pauses or switches to readonly, one call at most still begins
\* against it: the one that had been decided.
THEOREM StopsAreHeard ==
    ASSUME ModeRules PROVE Worker!Spec => []Worker!StopsBeforeTheNextTool
<1>1. Worker!Init => StopInv
  BY DEF Worker!Init, StopInv, Worker!Modes
<1>2. StopInv /\ [Worker!Next]_(Worker!vars) => StopInv'
  BY StopStep
<1>3. StopInv => Worker!StopsBeforeTheNextTool
  BY DEF StopInv, Worker!StopsBeforeTheNextTool
<1> QED
  BY <1>1, <1>2, <1>3, PTL DEF Worker!Spec

-----------------------------------------------------------------------------
(* Computer use.                                                              *)

States == Computer!OWNING \cup {"none", "completed", "failed", "interrupted"}
Rows == [state : States, effect : {"none", "unknown", "applied", "applied_unverified"},
         lease : {"null", "live", "expired"}, late : BOOLEAN,
         obs : [some : BOOLEAN, acts : Nat, holds : BOOLEAN], vouched : Nat, oneShot : BOOLEAN]

\* The places of a call where it holds the lock, and those where its action may be unseen.
Inside == {"post", "posted", "verify", "looked", "blind"}
Unseen == {"posted", "verify", "blind"}
CallRecords ==
    {Computer!Free}
    \cup [at : {"observe", "cua", "finish", "act", "recover", "post", "blind"}, s : Sessions]
    \cup [at : {"posted", "verify", "looked"}, s : Sessions, ok : BOOLEAN]

MachineTypes ==
    /\ row \in [Sessions -> Rows] /\ acts \in [Sessions -> Nat]
    /\ call \in [Computer!Callers -> CallRecords]
    /\ mutex \in Computer!Callers \cup {"free"}

\* A call is about a session that was started; who is inside an action holds the lock, and
\* its effect is on the record; who has looked has seen it.
CallsFit ==
    \A c \in Computer!Callers :
        /\ call[c].at # "idle" => row[call[c].s].state # "none"
        /\ call[c].at \in Inside => mutex = c /\ row[call[c].s].effect # "none"
        /\ call[c].at = "looked" => acts[call[c].s] <= row[call[c].s].vouched

\* A live session with an action nobody has seen is in the hands of the call that acts.
InAction(s) == \E c \in Computer!Callers : call[c].at \in Unseen /\ call[c].s = s
LiveIsSeen ==
    \A s \in Sessions : Computer!Live(s) /\ acts[s] > row[s].vouched => InAction(s)

NotBefore == \A s \in Sessions : row[s].state = "none" => acts[s] = 0

MachineInv ==
    MachineTypes /\ CallsFit /\ LiveIsSeen /\ NotBefore /\ Computer!UnseenIsOnRecord

LEMMA MachineInit == Computer!Init => MachineInv
<1> SUFFICES ASSUME Computer!Init PROVE MachineInv
  OBVIOUS
<1> USE DEF Computer!Init, Computer!Unstarted, Computer!NoObservation, Computer!Free,
            Computer!OWNING, Computer!ACTIVE_STATES, Computer!Callers
<1>1. MachineTypes
  BY DEF MachineTypes, Rows, States, CallRecords
<1>2. CallsFit
  BY DEF CallsFit, Inside
<1>3. LiveIsSeen /\ NotBefore /\ Computer!UnseenIsOnRecord
  BY DEF LiveIsSeen, NotBefore, Computer!UnseenIsOnRecord
<1> QED
  BY <1>1, <1>2, <1>3 DEF MachineInv

\* What the row of a session may become while no call is inside an action on it: its effect is
\* not taken back, it vouches for all or as before, it is live as before or all is seen.
Moves(old, new, n) ==
    /\ new.state = "none" => old.state = "none"
    /\ \/ new.effect = old.effect \/ new.effect # "none"
       \/ old.state = "none" /\ new.vouched = n
    /\ new.vouched = old.vouched \/ new.vouched = n
    /\ new.state \in Computer!ACTIVE_STATES /\ ~new.late
           => \/ old.state \in Computer!ACTIVE_STATES /\ ~old.late
              \/ new.vouched = n
RowsMove == row' \in [Sessions -> Rows] /\ \A s \in Sessions : Moves(row[s], row'[s], acts[s])

\* A call that is outside of an action stays outside, and asks for a session that was started.
CallsMove ==
    /\ call' \in [Computer!Callers -> CallRecords]
    /\ \A c \in Computer!Callers :
          \/ call'[c] = call[c]
          \/ /\ call[c].at \notin Inside /\ call'[c].at \notin Inside
             /\ call'[c].at # "idle" => \/ row[call'[c].s].state # "none"
                                        \/ row'[call'[c].s].state # "none"

LEMMA CallNames ==
    ASSUME NEW n \in CallRecords
    PROVE  /\ n.at # "idle" => n.s \in Sessions
           /\ n = Computer!Free => n.at = "idle"
           /\ n.at \in {"posted", "verify", "looked"} =>
                  n \in [at : {"posted", "verify", "looked"}, s : Sessions, ok : BOOLEAN]
BY DEF CallRecords, Computer!Free

LEMMA MachineFields ==
    ASSUME MachineInv, NEW s \in Sessions
    PROVE  /\ row[s] \in Rows /\ acts[s] \in Nat /\ row[s].vouched \in Nat
           /\ row[s].state = "none" => acts[s] = 0
           /\ acts[s] > row[s].vouched => row[s].effect # "none"
BY DEF MachineInv, MachineTypes, NotBefore, Rows, Computer!UnseenIsOnRecord

LEMMA CallFields ==
    ASSUME MachineInv, NEW c \in Computer!Callers
    PROVE  /\ call[c] \in CallRecords
           /\ call[c].at # "idle" => call[c].s \in Sessions /\ row[call[c].s].state # "none"
           /\ call[c].at \in Inside => mutex = c /\ row[call[c].s].effect # "none"
           /\ call[c].at = "looked" => acts[call[c].s] <= row[call[c].s].vouched
<1>1. call[c] \in CallRecords
  BY DEF MachineInv, MachineTypes
<1> QED
  BY <1>1, CallNames DEF MachineInv, CallsFit

LEMMA OutsideStep ==
    ASSUME MachineInv, RowsMove, CallsMove, UNCHANGED <<acts, mutex>>
    PROVE  MachineInv'
<1>1. MachineTypes'
  BY DEF MachineInv, MachineTypes, RowsMove, CallsMove
<1>2. ASSUME NEW s \in Sessions
      PROVE  /\ row'[s] \in Rows /\ row'[s].vouched \in Nat /\ acts'[s] = acts[s]
             /\ Moves(row[s], row'[s], acts[s])
  BY DEF RowsMove, Rows
<1>3. CallsFit'
  <2>1. SUFFICES ASSUME NEW c \in Computer!Callers
                 PROVE  /\ call'[c].at # "idle" => row'[call'[c].s].state # "none"
                        /\ call'[c].at \in Inside =>
                               mutex' = c /\ row'[call'[c].s].effect # "none"
                        /\ call'[c].at = "looked" => acts'[call'[c].s] <= row'[call'[c].s].vouched
    BY DEF CallsFit
  <2>2. call'[c].at # "idle" => call'[c].s \in Sessions
    BY CallNames DEF CallsMove
  <2>3. CASE call'[c] = call[c]
    <3>1. CASE call[c].at = "idle"
      BY <2>3, <3>1 DEF Inside
    <3>2. CASE call[c].at # "idle"
      <4> DEFINE s == call[c].s
      <4>1. s \in Sessions /\ call'[c].s = s
        BY <2>2, <2>3, <3>2
      <4>2. /\ row[s].state # "none"
            /\ call[c].at \in Inside => mutex = c /\ row[s].effect # "none"
            /\ call[c].at = "looked" => acts[s] <= row[s].vouched
        BY <3>2, CallFields
      <4>3. acts[s] \in Nat /\ row[s].vouched \in Nat
        BY <4>1, MachineFields
      <4> HIDE DEF s
      <4>4. row'[s].state # "none" /\ (row[s].effect # "none" => row'[s].effect # "none")
        BY <1>2, <4>1, <4>2 DEF Moves
      <4>5. acts[s] <= row[s].vouched => acts'[s] <= row'[s].vouched
        BY <1>2, <4>1, <4>3 DEF Moves
      <4> QED
        BY <2>3, <4>1, <4>2, <4>4, <4>5
    <3> QED
      BY <3>1, <3>2
  <2>4. CASE call'[c] # call[c]
    <3>1. /\ call'[c].at \notin Inside
          /\ call'[c].at # "idle" => \/ row[call'[c].s].state # "none"
                                     \/ row'[call'[c].s].state # "none"
      BY <2>4 DEF CallsMove
    <3> QED
      BY <1>2, <2>2, <3>1 DEF Moves, Inside
  <2> QED
    BY <2>3, <2>4
<1>4. NotBefore'
  BY <1>2, MachineFields DEF NotBefore, Moves
<1>5. Computer!UnseenIsOnRecord'
  BY <1>2, MachineFields DEF Computer!UnseenIsOnRecord, Moves
<1>6. LiveIsSeen'
  <2>1. SUFFICES ASSUME NEW s \in Sessions, Computer!Live(s)', acts'[s] > row'[s].vouched
                 PROVE  InAction(s)'
    BY DEF LiveIsSeen
  <2>2. Computer!Live(s) /\ acts[s] > row[s].vouched
    BY <1>2, <2>1, MachineFields DEF Computer!Live, Moves
  <2>3. PICK c \in Computer!Callers : call[c].at \in Unseen /\ call[c].s = s
    BY <2>2 DEF MachineInv, LiveIsSeen, InAction
  <2>4. call'[c] = call[c]
    BY <2>3 DEF CallsMove, Unseen, Inside
  <2> QED
    BY <2>3, <2>4 DEF InAction
<1> QED
  BY <1>1, <1>3, <1>4, <1>5, <1>6 DEF MachineInv

LEMMA OneRowMoves ==
    ASSUME MachineInv, NEW s \in Sessions, NEW r \in Rows, Computer!Update(s, r),
           Moves(row[s], r, acts[s])
    PROVE  RowsMove
<1>1. row \in [Sessions -> Rows] /\ \A t \in Sessions : Moves(row[t], row[t], acts[t])
  BY DEF MachineInv, MachineTypes, Moves
<1> QED
  BY <1>1 DEF RowsMove, Computer!Update

LEMMA RowsStay == ASSUME MachineInv, UNCHANGED row PROVE RowsMove
BY DEF MachineInv, MachineTypes, Moves, RowsMove

LEMMA CallsStay == ASSUME MachineInv, UNCHANGED call PROVE CallsMove
BY DEF MachineInv, MachineTypes, CallsMove

LEMMA OneCallMoves ==
    ASSUME MachineInv, NEW c \in Computer!Callers, NEW n \in CallRecords, Computer!Goto(c, n),
           call[c].at \notin Inside, n.at \notin Inside,
           n.at # "idle" => row[n.s].state # "none"
    PROVE  CallsMove
BY DEF MachineInv, MachineTypes, CallsMove, Computer!Goto

\* A session that was seen: what the observations of the code write.
LEMMA SeenMoves ==
    ASSUME MachineInv, NEW s \in Sessions, NEW holds \in BOOLEAN
    PROVE  /\ Computer!Seen(s, row[s], holds) \in Rows
           /\ Computer!Seen(s, row[s], holds).vouched = acts[s]
           /\ Computer!Seen(s, row[s], holds).state = row[s].state
           /\ Computer!Seen(s, row[s], holds).effect = row[s].effect
           /\ Moves(row[s], Computer!Seen(s, row[s], holds), acts[s])
BY MachineFields DEF Computer!Seen, Rows, Moves

LEMMA ObserveKeeps ==
    ASSUME MachineInv, NEW c \in Computer!Callers, NEW s \in Sessions,
           Computer!Observe(c, s) \/ Computer!Focus(c, s)
    PROVE  MachineInv'
<1>1. UNCHANGED <<acts, call, mutex>>
  BY DEF Computer!Observe, Computer!Focus, Computer!Quiet
<1>2. RowsMove
  <2>1. CASE \E holds \in BOOLEAN : Computer!Update(s, Computer!Seen(s, row[s], holds))
    BY <2>1, SeenMoves, OneRowMoves
  <2>2. CASE Computer!Update(s, [row[s] EXCEPT !.obs.some = FALSE, !.obs.holds = FALSE])
    <3> DEFINE r == [row[s] EXCEPT !.obs.some = FALSE, !.obs.holds = FALSE]
    <3>1. row[s] \in Rows
      BY MachineFields
    <3>2. /\ r \in Rows /\ r.state = row[s].state /\ r.effect = row[s].effect
          /\ r.vouched = row[s].vouched /\ r.late = row[s].late
      BY <3>1 DEF Rows
    <3>3. Moves(row[s], r, acts[s])
      BY <3>2 DEF Moves
    <3> HIDE DEF r
    <3>4. Computer!Update(s, r)
      BY <2>2 DEF r
    <3> QED
      BY <3>2, <3>3, <3>4, OneRowMoves
  <2> QED
    BY <2>1, <2>2 DEF Computer!Observe, Computer!Focus, Computer!Pictures
<1> QED
  BY <1>1, <1>2, CallsStay, OutsideStep

LEMMA OnceKeeps ==
    ASSUME MachineInv, NEW c \in Computer!Callers,
           Computer!ObserveOnce(c) \/ Computer!CuaObserve(c)
    PROVE  MachineInv'
<1> DEFINE s == call[c].s
<1>1. UNCHANGED <<acts, mutex>> /\ call[c].at \in {"observe", "cua"}
  BY DEF Computer!ObserveOnce, Computer!CuaObserve, Computer!Quiet
<1>2. s \in Sessions /\ row[s].state # "none" /\ call[c].at \notin Inside
  BY <1>1, CallFields DEF Inside
<1>3. \/ UNCHANGED row
      \/ \E holds \in BOOLEAN : Computer!Update(s, Computer!Seen(s, row[s], holds))
  BY DEF Computer!ObserveOnce, Computer!CuaObserve, Computer!Pictures
<1>4. \E n \in {Computer!Free, [at |-> "finish", s |-> s], [at |-> "act", s |-> s]} :
          Computer!Goto(c, n)
  BY DEF Computer!ObserveOnce, Computer!CuaObserve, Computer!Return
<1> HIDE DEF s
<1>5. RowsMove
  BY <1>2, <1>3, SeenMoves, OneRowMoves, RowsStay
<1>6. CallsMove
  <2>1. PICK n \in {Computer!Free, [at |-> "finish", s |-> s], [at |-> "act", s |-> s]} :
            Computer!Goto(c, n)
    BY <1>4
  <2>2. n \in CallRecords /\ n.at \notin Inside /\ (n.at # "idle" => row[n.s].state # "none")
    BY <1>2 DEF CallRecords, Inside, Computer!Free
  <2> QED
    BY <1>2, <2>1, <2>2, OneCallMoves
<1> QED
  BY <1>1, <1>5, <1>6, OutsideStep

LEMMA AssertKeeps ==
    ASSUME MachineInv, NEW c \in Computer!Callers, NEW s \in Sessions,
           Computer!Assert(c, s) \/ Computer!WaitFor(c, s)
    PROVE  MachineInv'
<1>1. UNCHANGED <<acts, mutex>> /\ call[c].at = "idle"
  BY DEF Computer!Assert, Computer!WaitFor, Computer!Quiet, Computer!Idle
<1>2. RowsMove
  <2>1. \/ UNCHANGED row
        \/ \E holds \in BOOLEAN : Computer!Update(s, Computer!Seen(s, row[s], holds))
    BY DEF Computer!Assert, Computer!WaitFor, Computer!Pictures
  <2> QED
    BY <2>1, SeenMoves, OneRowMoves, RowsStay
<1>3. CallsMove
  <2>1. UNCHANGED call \/ Computer!Goto(c, [at |-> "recover", s |-> s])
    BY DEF Computer!Assert, Computer!WaitFor
  <2>2. row[s].state # "none"
    BY DEF Computer!Assert, Computer!WaitFor, Computer!Names, Computer!Known
  <2>3. [at |-> "recover", s |-> s] \in CallRecords
    BY DEF CallRecords
  <2> QED
    BY <1>1, <2>1, <2>2, <2>3, CallsStay, OneCallMoves DEF Inside
<1> QED
  BY <1>1, <1>2, <1>3, OutsideStep

LEMMA FinishKeeps ==
    ASSUME MachineInv, NEW c \in Computer!Callers, NEW s \in Sessions,
           Computer!Finish(c, s) \/ (Computer!Recover(c) /\ s = call[c].s)
    PROVE  MachineInv'
<1>1. /\ UNCHANGED <<acts, mutex>> /\ call[c].at \in {"idle", "finish", "recover"}
      /\ row[s].state # "none" /\ Computer!Goto(c, Computer!Free)
  <2>1. CASE Computer!Finish(c, s)
    <3>1. call[c] = [at |-> "finish", s |-> s] => row[s].state # "none"
      BY CallFields
    <3> QED
      BY <2>1, <3>1 DEF Computer!Finish, Computer!Quiet, Computer!Idle, Computer!Names,
             Computer!Known, Computer!Return
  <2>2. CASE Computer!Recover(c) /\ s = call[c].s
    BY <2>2, CallFields DEF Computer!Recover, Computer!Quiet, Computer!Return
  <2> QED
    BY <2>1, <2>2
<1>2. RowsMove
  <2>1. CASE UNCHANGED row
    BY <2>1, RowsStay
  <2>2. ASSUME NEW how \in {"completed", "failed"},
               Computer!Update(s, [row[s] EXCEPT !.state = how, !.lease = "null"])
        PROVE  RowsMove
    <3> DEFINE r == [row[s] EXCEPT !.state = how, !.lease = "null"]
    <3>1. row[s] \in Rows /\ how \in States \ (Computer!ACTIVE_STATES \cup {"none"})
      BY MachineFields DEF States, Computer!ACTIVE_STATES
    <3>2. /\ r \in Rows /\ r.state = how /\ r.effect = row[s].effect
          /\ r.vouched = row[s].vouched
      BY <3>1 DEF Rows
    <3>3. Moves(row[s], r, acts[s])
      BY <1>1, <3>1, <3>2 DEF Moves
    <3> HIDE DEF r
    <3>4. Computer!Update(s, r)
      BY <2>2 DEF r
    <3> QED
      BY <3>2, <3>3, <3>4, OneRowMoves
  <2>3. CASE Computer!Update(s, [row[s] EXCEPT !.state = "active", !.effect = "applied",
                                               !.lease = "live", !.vouched = acts[s]])
    <3> DEFINE r == [row[s] EXCEPT !.state = "active", !.effect = "applied",
                                   !.lease = "live", !.vouched = acts[s]]
    <3>1. row[s] \in Rows /\ acts[s] \in Nat /\ "active" \in States
      BY MachineFields DEF States, Computer!OWNING, Computer!ACTIVE_STATES
    <3>2. /\ r \in Rows /\ r.state = "active" /\ r.effect = "applied"
          /\ r.vouched = acts[s]
      BY <3>1 DEF Rows
    <3>3. Moves(row[s], r, acts[s])
      BY <1>1, <3>2 DEF Moves
    <3> HIDE DEF r
    <3>4. Computer!Update(s, r)
      BY <2>3 DEF r
    <3> QED
      BY <3>2, <3>3, <3>4, OneRowMoves
  <2> QED
    BY <2>1, <2>2, <2>3 DEF Computer!Finish, Computer!Recover
<1>3. CallsMove
  <2>1. Computer!Free \in CallRecords /\ Computer!Free.at = "idle"
    BY DEF CallRecords, Computer!Free
  <2> QED
    BY <1>1, <2>1, OneCallMoves DEF Inside
<1> QED
  BY <1>1, <1>2, <1>3, OutsideStep


Lives(r) == r.state \in Computer!ACTIVE_STATES /\ ~r.late

\* The steps of a call that is or goes inside an action: it alone is, on the one session s.
LEMMA InsideStep ==
    ASSUME MachineInv, NEW c \in Computer!Callers, NEW s \in Sessions, NEW r \in Rows,
           NEW k \in Nat, NEW n \in CallRecords,
           mutex \in {c, "free"}, mutex' \in {c, "free"},
           row' = [row EXCEPT ![s] = r], acts' = [acts EXCEPT ![s] = k], Computer!Goto(c, n),
           call[c].at \in Inside => call[c].s = s,
           r.state # "none",
           n.at # "idle" => n.s = s,
           n.at \in Inside => mutex' = c /\ r.effect # "none",
           n.at = "looked" => k <= r.vouched,
           k > r.vouched => r.effect # "none",
           Lives(r) /\ k > r.vouched => n.at \in Unseen
    PROVE  MachineInv'
<1>1. MachineTypes'
  BY DEF MachineInv, MachineTypes, Computer!Goto
<1>2. /\ row'[s] = r /\ acts'[s] = k /\ call'[c] = n
      /\ \A t \in Sessions \ {s} : row'[t] = row[t] /\ acts'[t] = acts[t]
      /\ \A d \in Computer!Callers \ {c} : call'[d] = call[d]
  BY DEF MachineInv, MachineTypes, Computer!Goto
<1>3. ASSUME NEW d \in Computer!Callers \ {c} PROVE call[d].at \notin Inside
  BY CallFields, "free" \notin Computer!Callers DEF Computer!Callers
<1>4. CallsFit'
  <2>1. SUFFICES ASSUME NEW d \in Computer!Callers
                 PROVE  /\ call'[d].at # "idle" => row'[call'[d].s].state # "none"
                        /\ call'[d].at \in Inside =>
                               mutex' = d /\ row'[call'[d].s].effect # "none"
                        /\ call'[d].at = "looked" => acts'[call'[d].s] <= row'[call'[d].s].vouched
    BY DEF CallsFit
  <2>2. CASE d = c
    BY <1>2, <2>2 DEF Inside
  <2>3. CASE d # c
    BY <1>2, <1>3, <2>3, CallFields DEF Inside
  <2> QED
    BY <2>2, <2>3
<1>5. NotBefore' /\ Computer!UnseenIsOnRecord'
  BY <1>2, MachineFields DEF NotBefore, Computer!UnseenIsOnRecord
<1>6. LiveIsSeen'
  <2>1. SUFFICES ASSUME NEW t \in Sessions, Computer!Live(t)', acts'[t] > row'[t].vouched
                 PROVE  InAction(t)'
    BY DEF LiveIsSeen
  <2>2. CASE t = s
    BY <1>2, <2>1, <2>2 DEF Computer!Live, Lives, InAction, Unseen
  <2>3. CASE t # s
    <3>1. Computer!Live(t) /\ acts[t] > row[t].vouched
      BY <1>2, <2>1, <2>3 DEF Computer!Live
    <3>2. PICK d \in Computer!Callers : call[d].at \in Unseen /\ call[d].s = t
      BY <3>1 DEF MachineInv, LiveIsSeen, InAction
    <3> QED
      BY <1>3, <2>3, <3>2 DEF Unseen, Inside
  <2> QED
    BY <2>2, <2>3
<1> QED
  BY <1>1, <1>4, <1>5, <1>6 DEF MachineInv

\* While the lock is free nothing is in hand, so what is live has been seen.
LEMMA FreeIsSeen ==
    ASSUME MachineInv, NEW s \in Sessions, mutex = "free", Computer!Live(s)
    PROVE  acts[s] <= row[s].vouched
<1>1. ~InAction(s)
  BY CallFields DEF InAction, Unseen, Inside, Computer!Callers
<1>2. ~(acts[s] > row[s].vouched)
  BY <1>1 DEF MachineInv, LiveIsSeen
<1> QED
  BY <1>2, MachineFields

LEMMA RefusedFits ==
    ASSUME NEW c, NEW s \in Sessions
    PROVE  /\ Computer!Refused(c, s) \in CallRecords
           /\ Computer!Refused(c, s).at \in {"idle", "finish"}
           /\ Computer!Refused(c, s).at # "idle" => Computer!Refused(c, s).s = s
BY DEF Computer!Refused, Computer!Free, CallRecords

LEMMA ActKeeps ==
    ASSUME MachineInv, NEW c \in Computer!Callers, NEW s \in Sessions, Computer!Act(c, s)
    PROVE  MachineInv'
<1>1. /\ mutex = "free" /\ acts' = [acts EXCEPT ![s] = acts[s]] /\ acts[s] \in Nat
      /\ call[c].at \in {"idle", "act"} /\ row[s].state # "none" /\ row[s] \in Rows
  <2>1. /\ mutex = "free" /\ UNCHANGED acts
        /\ \/ call[c].at = "idle" /\ row[s].state # "none"
           \/ call[c] = [at |-> "act", s |-> s]
    BY DEF Computer!Act, Computer!CallsAct, Computer!Idle, Computer!Names, Computer!Known
  <2>2. acts' = [acts EXCEPT ![s] = acts[s]]
    BY <2>1 DEF MachineInv, MachineTypes
  <2>3. CASE call[c] = [at |-> "act", s |-> s]
    <3>1. call[c].at = "act" /\ call[c].s = s
      BY <2>3
    <3>2. row[s].state # "none"
      BY <3>1, CallFields
    <3> QED
      BY <2>1, <2>2, <3>1, <3>2, MachineFields
  <2> QED
    BY <2>1, <2>2, <2>3, MachineFields
<1> DEFINE n == Computer!Refused(c, s)
<1>2. n \in CallRecords /\ n.at \in {"idle", "finish"} /\ (n.at # "idle" => n.s = s)
  BY RefusedFits
<1> HIDE DEF n
<1>3. CASE /\ Computer!Live(s) /\ Computer!Update(s, Computer!Acting(row[s])) /\ mutex' = c
           /\ Computer!Goto(c, [at |-> "post", s |-> s])
  <2> DEFINE r == Computer!Acting(row[s])
             m == [at |-> "post", s |-> s]
  <2>1. acts[s] <= row[s].vouched
    BY <1>1, <1>3, FreeIsSeen
  <2>2. /\ r \in Rows /\ r.state # "none" /\ r.effect # "none" /\ r.vouched = row[s].vouched
    BY <1>1 DEF Computer!Acting, Rows, States, Computer!OWNING, Computer!ACTIVE_STATES
  <2>3. m \in CallRecords /\ m.at = "post" /\ m.s = s
    BY DEF CallRecords
  <2>4. ~(acts[s] > r.vouched)
    BY <1>1, <2>1, <2>2 DEF Rows
  <2>5. row' = [row EXCEPT ![s] = r] /\ Computer!Goto(c, m) /\ mutex' = c
    BY <1>3 DEF Computer!Update
  <2> HIDE DEF r, m
  <2> QED
    BY <1>1, <2>2, <2>3, <2>4, <2>5, InsideStep DEF Inside
<1>4. CASE /\ Computer!Live(s)
           /\ Computer!Update(s, [row[s] EXCEPT !.state = "awaiting_review", !.effect = "none"])
           /\ Computer!Goto(c, n) /\ UNCHANGED mutex
  <2> DEFINE r == [row[s] EXCEPT !.state = "awaiting_review", !.effect = "none"]
  <2>1. acts[s] <= row[s].vouched
    BY <1>1, <1>4, FreeIsSeen
  <2>2. /\ r \in Rows /\ r.state = "awaiting_review" /\ r.vouched = row[s].vouched
    BY <1>1 DEF Rows, States, Computer!OWNING
  <2>4. ~(acts[s] > r.vouched)
    BY <1>1, <2>1, <2>2 DEF Rows
  <2>5. row' = [row EXCEPT ![s] = r] /\ mutex' = "free"
    BY <1>1, <1>4 DEF Computer!Update
  <2> HIDE DEF r
  <2> QED
    BY <1>1, <1>2, <1>4, <2>2, <2>4, <2>5, InsideStep DEF Inside
<1>5. CASE Computer!Refuse(c, s)
  <2>1. UNCHANGED <<row, acts, mutex>> /\ Computer!Goto(c, n)
    BY <1>5 DEF Computer!Refuse, Computer!Act, n
  <2>2. CallsMove
    BY <1>1, <1>2, <2>1, OneCallMoves DEF Inside
  <2> QED
    BY <2>1, <2>2, RowsStay, OutsideStep
<1> QED
  BY <1>3, <1>4, <1>5 DEF Computer!Act, n

LEMMA PostKeeps ==
    ASSUME MachineInv, NEW c \in Computer!Callers, Computer!Post(c)
    PROVE  MachineInv'
<1> DEFINE s == call[c].s
<1>1. call[c].at = "post" /\ acts' = [acts EXCEPT ![s] = acts[s] + 1] /\ UNCHANGED <<row, mutex>>
  BY DEF Computer!Post
<1>2. PICK ok \in BOOLEAN : Computer!Goto(c, [at |-> "posted", s |-> s, ok |-> ok])
  BY DEF Computer!Post
<1>3. s \in Sessions /\ row[s].state # "none" /\ mutex = c /\ row[s].effect # "none"
  BY <1>1, CallFields DEF Inside
<1>4. row[s] \in Rows /\ acts[s] + 1 \in Nat
  BY <1>3, MachineFields
<1>5. row' = [row EXCEPT ![s] = row[s]]
  BY <1>1, <1>3 DEF MachineInv, MachineTypes
<1> DEFINE n == [at |-> "posted", s |-> s, ok |-> ok]
           r == row[s]
           k == acts[s] + 1
<1>6. n \in CallRecords /\ n.at = "posted" /\ n.s = s
  BY <1>3 DEF CallRecords
<1>7. /\ r \in Rows /\ k \in Nat /\ row' = [row EXCEPT ![s] = r] /\ r.effect # "none"
      /\ acts' = [acts EXCEPT ![s] = k] /\ Computer!Goto(c, n) /\ r.state # "none"
  BY <1>1, <1>2, <1>3, <1>4, <1>5
<1>8. call[c].s = s
  OBVIOUS
<1> HIDE DEF n, r, k, s
<1> QED
  BY <1>1, <1>3, <1>6, <1>7, <1>8, InsideStep DEF Unseen, Inside

LEMMA UsurpedIsNotLive ==
    ASSUME NEW s, Computer!Usurped(s) \/ ~Computer!Observable(s) PROVE ~Computer!Live(s)
BY DEF Computer!Usurped, Computer!Observable, Computer!Live, Computer!OWNING

\* What a call does that has posted its action: it stays inside, or it lets go of the lock.
LEMMA InsideCall ==
    ASSUME MachineInv, NEW c \in Computer!Callers,
           call[c].at \in {"posted", "verify", "looked", "blind"}
    PROVE  /\ call[c].s \in Sessions /\ mutex = c
           /\ row[call[c].s] \in Rows /\ row[call[c].s].state # "none"
           /\ row[call[c].s].effect # "none" /\ acts[call[c].s] \in Nat
BY CallFields, MachineFields DEF Inside

LEMMA LetGo ==
    ASSUME MachineInv, NEW c \in Computer!Callers, NEW s \in Sessions, NEW r \in Rows,
           call[c].at \in {"posted", "verify", "looked", "blind"}, s = call[c].s,
           row' = [row EXCEPT ![s] = r], UNCHANGED acts,
           NEW n, n = Computer!Refused(c, s), Computer!Goto(c, n), mutex' = "free",
           r.state # "none", r.effect # "none",
           Lives(r) => ~(acts[s] > r.vouched)
    PROVE  MachineInv'
<1> DEFINE k == acts[s]
<1>1. n \in CallRecords /\ n.at \in {"idle", "finish"} /\ (n.at # "idle" => n.s = s)
  BY RefusedFits
<1>2. acts' = [acts EXCEPT ![s] = k] /\ k \in Nat /\ mutex \in {c, "free"}
  BY InsideCall DEF MachineInv, MachineTypes
<1>3. n.at \notin Inside /\ n.at # "looked" /\ (Lives(r) => ~(k > r.vouched))
  BY <1>1 DEF Inside
<1>4. mutex' \in {c, "free"} /\ call[c].s = s
  OBVIOUS
<1> HIDE DEF k
<1> QED
  BY <1>1, <1>2, <1>3, <1>4, InsideStep

LEMMA StayInside ==
    ASSUME MachineInv, NEW c \in Computer!Callers, NEW s \in Sessions, NEW r \in Rows,
           NEW n \in CallRecords,
           call[c].at \in {"posted", "verify", "looked", "blind"}, s = call[c].s,
           row' = [row EXCEPT ![s] = r], UNCHANGED <<acts, mutex>>, Computer!Goto(c, n),
           r.state # "none", r.effect # "none", n.at \in Inside, n.s = s,
           n.at \in Unseen \/ acts[s] <= r.vouched
    PROVE  MachineInv'
<1>1. acts' = [acts EXCEPT ![s] = acts[s]] /\ acts[s] \in Nat /\ mutex = c /\ mutex' = c
  BY InsideCall DEF MachineInv, MachineTypes
<1>2. r.vouched \in Nat
  BY DEF Rows
<1>3. /\ n.at = "looked" => acts[s] <= r.vouched
      /\ acts[s] > r.vouched => n.at \in Unseen
      /\ n.at # "idle"
  BY <1>1, <1>2 DEF Unseen, Inside
<1>4. /\ call[c].at \in Inside => call[c].s = s
      /\ n.at \in Inside => mutex' = c /\ r.effect # "none"
      /\ mutex \in {c, "free"} /\ mutex' \in {c, "free"}
      /\ acts[s] > r.vouched => r.effect # "none"
      /\ Lives(r) /\ acts[s] > r.vouched => n.at \in Unseen
  BY <1>1, <1>3
<1> QED
  BY <1>1, <1>3, <1>4, InsideStep

LEMMA VerifyKeeps ==
    ASSUME MachineInv, NEW c \in Computer!Callers, Computer!Verify(c)
    PROVE  MachineInv'
<1> DEFINE s == call[c].s
<1>1. call[c].at = "posted" /\ UNCHANGED acts
  BY DEF Computer!Verify
<1>2. /\ s \in Sessions /\ mutex = c /\ row[s] \in Rows /\ row[s].state # "none"
      /\ row[s].effect # "none"
  BY <1>1, InsideCall
<1>3. CASE Computer!Usurped(s)
  <2>1. row' = [row EXCEPT ![s] = row[s]]
    BY <1>3 DEF Computer!Verify, MachineInv, MachineTypes
  <2>2. Computer!Goto(c, Computer!Refused(c, s)) /\ mutex' = "free"
    BY <1>3 DEF Computer!Verify, Computer!Raise
  <2>3. ~Lives(row[s])
    BY <1>3, UsurpedIsNotLive DEF Computer!Live, Lives
  <2> QED
    BY <1>1, <1>2, <2>1, <2>2, <2>3, LetGo
<1>4. CASE ~Computer!Usurped(s)
  <2> DEFINE r == [row[s] EXCEPT !.state = "verifying"]
             n == [call[c] EXCEPT !.at = "verify"]
  <2>1. row' = [row EXCEPT ![s] = r] /\ Computer!Goto(c, n) /\ UNCHANGED mutex
    BY <1>4 DEF Computer!Verify, Computer!Update
  <2>2. r \in Rows /\ r.state # "none" /\ r.effect # "none"
    BY <1>2 DEF Rows, States, Computer!OWNING, Computer!ACTIVE_STATES
  <2>3. call[c] \in [at : {"posted", "verify", "looked"}, s : Sessions, ok : BOOLEAN]
    BY <1>1, CallFields, CallNames
  <2>4. n \in CallRecords /\ n.at = "verify" /\ n.s = s
    BY <2>3 DEF CallRecords
  <2> HIDE DEF r, n
  <2> QED
    BY <1>1, <1>2, <2>1, <2>2, <2>4, StayInside DEF Inside, Unseen
<1> QED
  BY <1>3, <1>4

LEMMA LookKeeps ==
    ASSUME MachineInv, NEW c \in Computer!Callers, Computer!Look(c)
    PROVE  MachineInv'
<1> DEFINE s == call[c].s
<1>1. call[c].at = "verify" /\ UNCHANGED acts
  BY DEF Computer!Look
<1>2. /\ s \in Sessions /\ mutex = c /\ row[s] \in Rows /\ row[s].state # "none"
      /\ row[s].effect # "none" /\ acts[s] \in Nat
  BY <1>1, InsideCall
<1>3. row' = row => row' = [row EXCEPT ![s] = row[s]]
  BY DEF MachineInv, MachineTypes
<1>4. ASSUME NEW holds \in BOOLEAN, Computer!Update(s, Computer!Seen(s, row[s], holds)),
             Computer!Goto(c, [at |-> "looked", s |-> s, ok |-> call[c].ok /\ holds]),
             UNCHANGED mutex
      PROVE  MachineInv'
  <2> DEFINE r == Computer!Seen(s, row[s], holds)
             n == [at |-> "looked", s |-> s, ok |-> call[c].ok /\ holds]
  <2>1. row' = [row EXCEPT ![s] = r] /\ Computer!Goto(c, n)
    BY <1>4 DEF Computer!Update
  <2>2. r \in Rows /\ r.state # "none" /\ r.effect # "none" /\ r.vouched = acts[s]
    BY <1>2, SeenMoves
  <2>3. n \in CallRecords /\ n.at = "looked" /\ n.s = s
    BY <1>2, Zenon DEF CallRecords
  <2>4. acts[s] <= r.vouched
    BY <1>2, <2>2
  <2> HIDE DEF r, n
  <2> QED
    BY <1>1, <1>2, <1>4, <2>1, <2>2, <2>3, <2>4, StayInside DEF Inside
<1>5. CASE Computer!Goto(c, [at |-> "blind", s |-> s]) /\ UNCHANGED <<row, mutex>>
  <2> DEFINE n == [at |-> "blind", s |-> s]
  <2>1. n \in CallRecords /\ n.at = "blind" /\ n.s = s
    BY <1>2 DEF CallRecords
  <2>2. Computer!Goto(c, n) /\ UNCHANGED mutex
    BY <1>5
  <2> HIDE DEF n
  <2> QED
    BY <1>1, <1>2, <1>3, <1>5, <2>1, <2>2, StayInside DEF Inside, Unseen
<1>6. CASE ~Computer!Observable(s) /\ Computer!Raise(c, s) /\ UNCHANGED row
  <2>1. ~Lives(row[s])
    BY <1>6, UsurpedIsNotLive DEF Computer!Live, Lives
  <2> QED
    BY <1>1, <1>2, <1>3, <1>6, <2>1, LetGo DEF Computer!Raise
<1> QED
  BY <1>4, <1>5, <1>6 DEF Computer!Look, Computer!Pictures

LEMMA SettleKeeps ==
    ASSUME MachineInv, NEW c \in Computer!Callers, Computer!Settle(c)
    PROVE  MachineInv'
<1> DEFINE s == call[c].s
<1>1. /\ call[c].at \in {"looked", "blind"} /\ UNCHANGED acts
      /\ Computer!Goto(c, Computer!Refused(c, s)) /\ mutex' = "free"
  BY DEF Computer!Settle
<1>2. /\ s \in Sessions /\ mutex = c /\ row[s] \in Rows /\ row[s].state # "none"
      /\ row[s].effect # "none" /\ acts[s] \in Nat /\ row[s].vouched \in Nat
  BY <1>1, InsideCall, MachineFields
<1>3. CASE UNCHANGED row /\ Computer!Usurped(s)
  <2>1. row' = [row EXCEPT ![s] = row[s]]
    BY <1>3 DEF MachineInv, MachineTypes
  <2>2. ~Lives(row[s])
    BY <1>3, UsurpedIsNotLive DEF Computer!Live, Lives
  <2> QED
    BY <1>1, <1>2, <2>1, <2>2, LetGo
<1>4. CASE /\ call[c].at = "looked"
           /\ Computer!Update(s, [row[s] EXCEPT !.state = "active", !.lease = "live",
                                                !.effect = Computer!Effect(call[c].ok)])
  <2> DEFINE e == Computer!Effect(call[c].ok)
             r == [row[s] EXCEPT !.state = "active", !.lease = "live", !.effect = e]
  <2>1. e \in {"applied", "applied_unverified"}
    BY DEF Computer!Effect
  <2>2. row' = [row EXCEPT ![s] = r]
    BY <1>4 DEF Computer!Update
  <2> HIDE DEF e
  <2>3. /\ r \in Rows /\ r.state # "none" /\ r.effect # "none" /\ r.vouched = row[s].vouched
    BY <1>2, <2>1 DEF Rows, States, Computer!OWNING, Computer!ACTIVE_STATES
  <2>4. ~(acts[s] > r.vouched)
    BY <1>2, <1>4, <2>3, CallFields
  <2> HIDE DEF r
  <2> QED
    BY <1>1, <1>2, <2>2, <2>3, <2>4, LetGo
<1>5. CASE Computer!Update(s, [row[s] EXCEPT !.state = "awaiting_review", !.effect = "unknown"])
  <2> DEFINE r == [row[s] EXCEPT !.state = "awaiting_review", !.effect = "unknown"]
  <2>1. row' = [row EXCEPT ![s] = r]
    BY <1>5 DEF Computer!Update
  <2>2. r \in Rows /\ r.state = "awaiting_review" /\ r.effect = "unknown"
    BY <1>2 DEF Rows, States, Computer!OWNING
  <2> HIDE DEF r
  <2> QED
    BY <1>1, <1>2, <2>1, <2>2, LetGo DEF Computer!ACTIVE_STATES, Lives
<1> QED
  BY <1>3, <1>4, <1>5 DEF Computer!Settle

LEMMA TimeKeeps ==
    ASSUME MachineInv, NEW s \in Sessions,
           Computer!LeaseExpires(s) \/ Computer!DeadlinePasses(s)
    PROVE  MachineInv'
<1>1. UNCHANGED <<acts, call, mutex>> /\ row[s] \in Rows
  BY MachineFields DEF Computer!LeaseExpires, Computer!DeadlinePasses, Computer!Quiet
<1>2. RowsMove
  <2>1. CASE Computer!LeaseExpires(s)
    <3> DEFINE r == [row[s] EXCEPT !.lease = "expired"]
    <3>1. /\ r \in Rows /\ r.state = row[s].state /\ r.effect = row[s].effect
          /\ r.vouched = row[s].vouched /\ r.late = row[s].late
      BY <1>1 DEF Rows
    <3>2. Moves(row[s], r, acts[s])
      BY <3>1 DEF Moves
    <3> HIDE DEF r
    <3>3. Computer!Update(s, r)
      BY <2>1 DEF r, Computer!LeaseExpires
    <3> QED
      BY <3>1, <3>2, <3>3, OneRowMoves
  <2>2. CASE Computer!DeadlinePasses(s)
    <3> DEFINE r == [row[s] EXCEPT !.late = TRUE]
    <3>1. /\ r \in Rows /\ r.state = row[s].state /\ r.effect = row[s].effect
          /\ r.vouched = row[s].vouched /\ r.late
      BY <1>1 DEF Rows
    <3>2. Moves(row[s], r, acts[s])
      BY <3>1 DEF Moves
    <3> HIDE DEF r
    <3>3. Computer!Update(s, r)
      BY <2>2 DEF r, Computer!DeadlinePasses
    <3> QED
      BY <3>1, <3>2, <3>3, OneRowMoves
  <2> QED
    BY <2>1, <2>2
<1> QED
  BY <1>1, <1>2, CallsStay, OutsideStep

\* The restart and the sweep of expired leases keep what is on the record.
LEMMA SweepsMove ==
    ASSUME NEW r \in Rows, NEW n
    PROVE  /\ r.state \in Computer!ACTIVE_STATES =>
                  /\ Computer!Reviewed(r) \in Rows
                  /\ Computer!Reviewed(r).state = "awaiting_review"
                  /\ Computer!Reviewed(r).vouched = r.vouched
                  /\ r.effect # "none" => Computer!Reviewed(r).effect # "none"
           /\ Computer!Expired(r) \in Rows /\ Moves(r, Computer!Expired(r), n)
<1>1. ASSUME r.state \in Computer!ACTIVE_STATES
      PROVE  /\ Computer!Reviewed(r) \in Rows
             /\ Computer!Reviewed(r).state = "awaiting_review"
             /\ Computer!Reviewed(r).vouched = r.vouched
             /\ r.effect # "none" => Computer!Reviewed(r).effect # "none"
  BY DEF Computer!Reviewed, Rows, States, Computer!OWNING
<1>2. CASE Computer!Expired(r) = r
  <2>1. Moves(r, r, n)
    BY DEF Moves
  <2> QED
    BY <1>1, <1>2, <2>1
<1>3. CASE Computer!Expired(r) # r
  <2> DEFINE how == IF r.effect = "unknown" \/ r.state \in {"acting", "verifying"}
                    THEN "awaiting_review" ELSE "interrupted"
             q == [r EXCEPT !.lease = "null", !.state = how]
  <2>1. Computer!Expired(r) = q
    BY <1>3 DEF Computer!Expired
  <2>2. how \in States \ (Computer!ACTIVE_STATES \cup {"none"})
    BY DEF States, Computer!OWNING, Computer!ACTIVE_STATES
  <2> HIDE DEF how
  <2>3. q \in Rows /\ q.state = how /\ q.effect = r.effect /\ q.vouched = r.vouched
    BY <2>2 DEF Rows
  <2>4. Moves(r, q, n)
    BY <2>2, <2>3 DEF Moves
  <2> HIDE DEF q
  <2> QED
    BY <1>1, <2>1, <2>3, <2>4
<1> QED
  BY <1>1, <1>2, <1>3

LEMMA RestartKeepsMachine ==
    ASSUME MachineInv, Computer!Restart
    PROVE  MachineInv'
<1>1. /\ row' = [s \in Sessions |-> IF row[s].state \in Computer!ACTIVE_STATES
                                    THEN Computer!Reviewed(row[s]) ELSE row[s]]
      /\ call' = [c \in Computer!Callers |-> Computer!Free] /\ mutex' = "free"
      /\ UNCHANGED acts
  BY DEF Computer!Restart
<1>2. ASSUME NEW s \in Sessions
      PROVE  /\ row'[s] \in Rows /\ row'[s].state \notin Computer!ACTIVE_STATES
             /\ row'[s].state = "none" => row[s].state = "none"
             /\ row'[s].vouched = row[s].vouched
             /\ row[s].effect # "none" => row'[s].effect # "none"
  <2>1. row[s] \in Rows
    BY MachineFields
  <2>2. CASE row[s].state \in Computer!ACTIVE_STATES
    <3>1. row'[s] = Computer!Reviewed(row[s])
      BY <1>1, <2>2
    <3> QED
      BY <2>1, <2>2, <3>1, SweepsMove DEF Computer!ACTIVE_STATES
  <2>3. CASE row[s].state \notin Computer!ACTIVE_STATES
    BY <1>1, <2>1, <2>3
  <2> QED
    BY <2>2, <2>3
<1>3. MachineTypes'
  <2>1. row' \in [Sessions -> Rows]
    <3>1. row' = [s \in Sessions |-> row'[s]]
      BY <1>1
    <3> QED
      BY <1>2, <3>1
  <2> QED
    BY <1>1, <2>1 DEF MachineInv, MachineTypes, CallRecords
<1>4. CallsFit'
  BY <1>1 DEF CallsFit, Computer!Free, Inside
<1>5. LiveIsSeen'
  BY <1>2 DEF LiveIsSeen, Computer!Live
<1>6. NotBefore' /\ Computer!UnseenIsOnRecord'
  BY <1>1, <1>2, MachineFields DEF NotBefore, Computer!UnseenIsOnRecord
<1> QED
  BY <1>3, <1>4, <1>5, <1>6 DEF MachineInv

LEMMA StartKeeps ==
    ASSUME MachineInv, NEW c \in Computer!Callers, NEW s \in Sessions, NEW oneShot \in BOOLEAN,
           Computer!Start(c, s, oneShot)
    PROVE  MachineInv'
<1>1. call[c].at = "idle" /\ row[s].state = "none" /\ UNCHANGED <<acts, mutex>>
  BY DEF Computer!Start, Computer!Idle, Computer!Known, Computer!Quiet
<1>2. CASE UNCHANGED <<row, call>>
  BY <1>1, <1>2, RowsStay, CallsStay, OutsideStep
<1> DEFINE swept == [t \in Sessions |-> Computer!Expired(row[t])]
           new == [Computer!Unstarted EXCEPT !.state = "active", !.lease = "live",
                                             !.oneShot = oneShot]
<1>3. CASE /\ row' = [swept EXCEPT ![s] = new]
           /\ \/ \E then \in {"observe", "cua"} : Computer!Goto(c, [at |-> then, s |-> s])
              \/ UNCHANGED call
  <2>1. new \in Rows /\ new.state = "active" /\ new.vouched = 0
    BY DEF Rows, States, Computer!OWNING, Computer!ACTIVE_STATES, Computer!Unstarted,
           Computer!NoObservation
  <2>2. acts[s] = 0
    BY <1>1, MachineFields
  <2>3. Moves(row[s], new, acts[s])
    BY <1>1, <2>1, <2>2 DEF Moves
  <2> HIDE DEF new
  <2>4. ASSUME NEW t \in Sessions
        PROVE  swept[t] \in Rows /\ Moves(row[t], swept[t], acts[t])
    BY MachineFields, SweepsMove
  <2>5. row' \in [Sessions -> Rows]
    BY <1>3, <2>1, <2>4
  <2>6. ASSUME NEW t \in Sessions PROVE Moves(row[t], row'[t], acts[t])
    BY <1>3, <2>3, <2>4
  <2>7. RowsMove
    BY <2>5, <2>6 DEF RowsMove
  <2>8. CallsMove
    <3>1. row'[s].state # "none"
      BY <1>3, <2>1
    <3>2. ASSUME NEW then \in {"observe", "cua"}, Computer!Goto(c, [at |-> then, s |-> s])
          PROVE  CallsMove
      <4> DEFINE n == [at |-> then, s |-> s]
      <4>1. n \in CallRecords /\ n.at = then /\ n.s = s
        BY DEF CallRecords
      <4>2. call' = [call EXCEPT ![c] = n]
        BY <3>2 DEF Computer!Goto
      <4> HIDE DEF n
      <4>3. n.at \notin Inside /\ call[c].at \notin Inside
        BY <1>1, <4>1 DEF Inside
      <4>4. call' \in [Computer!Callers -> CallRecords] /\ call'[c] = n
            /\ \A d \in Computer!Callers \ {c} : call'[d] = call[d]
        BY <4>1, <4>2 DEF MachineInv, MachineTypes
      <4> QED
        BY <3>1, <4>1, <4>3, <4>4 DEF CallsMove
    <3> QED
      BY <1>3, <3>2, CallsStay
  <2> QED
    BY <1>1, <2>7, <2>8, OutsideStep
<1> QED
  BY <1>2, <1>3 DEF Computer!Start

LEMMA MachineStep == MachineInv /\ [Computer!Next]_(Computer!vars) => MachineInv'
<1> SUFFICES ASSUME MachineInv, [Computer!Next]_(Computer!vars) PROVE MachineInv'
  OBVIOUS
<1>1. CASE UNCHANGED Computer!vars
  <2>1. UNCHANGED <<row, acts, call, mutex>>
    BY <1>1 DEF Computer!vars
  <2> QED
    BY <2>1, RowsStay, CallsStay, OutsideStep
<1>2. ASSUME NEW s \in Sessions, Computer!LeaseExpires(s) \/ Computer!DeadlinePasses(s)
      PROVE  MachineInv'
  BY <1>2, TimeKeeps
<1>3. CASE Computer!Restart
  BY <1>3, RestartKeepsMachine
<1>4. ASSUME NEW c \in Computer!Callers, NEW s \in Sessions,
             \/ \E oneShot \in BOOLEAN : Computer!Start(c, s, oneShot)
             \/ Computer!Observe(c, s) \/ Computer!Focus(c, s) \/ Computer!Act(c, s)
             \/ Computer!Assert(c, s) \/ Computer!WaitFor(c, s) \/ Computer!Finish(c, s)
      PROVE  MachineInv'
  BY <1>4, StartKeeps, ObserveKeeps, ActKeeps, AssertKeeps, FinishKeeps
<1>5. ASSUME NEW c \in Computer!Callers,
             \/ Computer!ObserveOnce(c) \/ Computer!CuaObserve(c) \/ Computer!Post(c)
             \/ Computer!Verify(c) \/ Computer!Look(c) \/ Computer!Settle(c)
             \/ Computer!Recover(c)
      PROVE  MachineInv'
  <2>1. CASE Computer!Recover(c)
    <3>1. call[c].s \in Sessions
      BY <2>1, CallFields DEF Computer!Recover
    <3> QED
      BY <2>1, <3>1, FinishKeeps
  <2> QED
    BY <1>5, <2>1, OnceKeeps, PostKeeps, VerifyKeeps, LookKeeps, SettleKeeps
<1> QED
  BY <1>1, <1>2, <1>3, <1>4, <1>5 DEF Computer!Next

\* Whoever crashes, finishes, takes the machine over or lets a lease lapse, a session whose last
\* action nobody has seen or answered for has an effect on its record: what act writes before
\* it posts (acting, unknown) outlives every other writer of the row, because an action is
\* posted only under the manager's lock and by a call that found nothing unseen.
THEOREM UnseenStaysOnRecord == Computer!Spec => []Computer!UnseenIsOnRecord
<1>1. MachineInv => Computer!UnseenIsOnRecord
  BY DEF MachineInv
<1> QED
  BY MachineInit, MachineStep, <1>1, PTL DEF Computer!Spec

-----------------------------------------------------------------------------
(* Sums over a finite set, as the folds of the community modules compute      *)
(* them: the recursion takes one chosen member out of the set at a time.      *)

LEMMA LeastNat ==
    ASSUME NEW S, S \subseteq Nat, S # {}
    PROVE  \E m \in S : \A n \in S : m <= n
<1>1. IsWellFoundedOn(OpToRel(<, Nat), Nat)
  BY NatLessThanWellFounded, Zenon
<1>2. PICK m \in S : \A n \in S : ~(<<n, m>> \in OpToRel(<, Nat))
  BY <1>1, WFMin, Zenon
<1>3. \A n \in S : ~(n < m)
  BY <1>2 DEF OpToRel
<1> QED
  BY <1>3

AnyOf(s) == CHOOSE x \in s : TRUE
SumStep(f, h, s) == IF s = {} THEN 0 ELSE f[AnyOf(s)] + h[s \ {AnyOf(s)}]
IsSum(f, h, S) == h = [s \in SUBSET S |-> SumStep(f, h, s)]

LEMMA AnyIsMember ==
    ASSUME NEW S, IsFiniteSet(S), NEW s \in SUBSET S, s # {}
    PROVE  /\ AnyOf(s) \in s /\ s \ {AnyOf(s)} \in SUBSET S
           /\ Cardinality(s) \in Nat \ {0} /\ Cardinality(s \ {AnyOf(s)}) = Cardinality(s) - 1
<1>1. AnyOf(s) \in s
  BY DEF AnyOf
<1>2. IsFiniteSet(s)
  BY FS_Subset
<1>3. Cardinality(s) \in Nat /\ Cardinality(s) # 0
  BY <1>2, FS_CardinalityType, FS_EmptySet
<1>4. Cardinality(s \ {AnyOf(s)}) = Cardinality(s) - 1
  BY <1>1, <1>2, FS_RemoveElement
<1> QED
  BY <1>1, <1>3, <1>4

LEMMA SumExists ==
    ASSUME NEW S, IsFiniteSet(S), NEW f
    PROVE  \E h : IsSum(f, h, S)
<1> DEFINE Level(n) == {s \in SUBSET S : Cardinality(s) <= n}
           P(n) == \E h : h = [s \in Level(n) |-> SumStep(f, h, s)]
           Bad == {n \in Nat : ~P(n)}
<1>1. P(0)
  <2> DEFINE h == [s \in Level(0) |-> 0]
  <2>1. ASSUME NEW s \in Level(0) PROVE SumStep(f, h, s) = 0
    <3>1. s # {} => Cardinality(s) \in Nat \ {0}
      BY AnyIsMember
    <3>2. s = {}
      BY <3>1
    <3> QED
      BY <3>2 DEF SumStep
  <2>2. h = [s \in Level(0) |-> SumStep(f, h, s)]
    BY <2>1
  <2> QED
    BY <2>2
<1>2. ASSUME NEW m \in Nat, P(m) PROVE P(m + 1)
  <2>1. PICK h : h = [s \in Level(m) |-> SumStep(f, h, s)]
    BY <1>2
  <2> DEFINE g == [s \in Level(m + 1) |-> IF s \in Level(m) THEN h[s] ELSE SumStep(f, h, s)]
  <2>2. ASSUME NEW s \in Level(m + 1) PROVE g[s] = SumStep(f, g, s)
    <3>1. g[s] = SumStep(f, h, s)
      BY <2>1
    <3>2. CASE s = {}
      BY <3>1, <3>2 DEF SumStep
    <3>3. CASE s # {}
      <4> DEFINE t == s \ {AnyOf(s)}
      <4>1. t \in Level(m) /\ t \in Level(m + 1)
        <5>1. /\ t \in SUBSET S /\ Cardinality(s) \in Nat
              /\ Cardinality(t) = Cardinality(s) - 1 /\ Cardinality(s) <= m + 1
          BY <3>3, AnyIsMember
        <5> QED
          BY <5>1
      <4>2. g[t] = h[t]
        BY <4>1
      <4> HIDE DEF g, t
      <4>3. SumStep(f, h, s) = f[AnyOf(s)] + h[t] /\ SumStep(f, g, s) = f[AnyOf(s)] + g[t]
        BY <3>3 DEF SumStep, t
      <4> QED
        BY <3>1, <4>2, <4>3
    <3> QED
      BY <3>2, <3>3
  <2>3. g = [s \in Level(m + 1) |-> SumStep(f, g, s)]
    BY <2>2
  <2> QED
    BY <2>3
<1>3. ASSUME Bad # {} PROVE FALSE
  <2> HIDE DEF P
  <2>1. PICK m \in Bad : \A k \in Bad : m <= k
    BY <1>3, LeastNat
  <2>2. m # 0
    BY <1>1, <2>1
  <2>3. m - 1 \in Nat /\ m - 1 \notin Bad
    BY <2>1, <2>2
  <2>4. P(m - 1 + 1)
    BY <1>2, <2>3
  <2> QED
    BY <2>1, <2>4
<1>4. Cardinality(S) \in Nat /\ P(Cardinality(S))
  BY <1>3, FS_CardinalityType
<1>5. Level(Cardinality(S)) = SUBSET S
  BY FS_Subset
<1> QED
  BY <1>4, <1>5 DEF IsSum

AtMost(f, g, S, a, d) == \A x \in S : g[x] <= f[x] + (IF x = a THEN d ELSE 0)

\* Where g is at most f, and at one place at most d more, its sum is at most d more.
LEMMA SumsCompare ==
    ASSUME NEW S, IsFiniteSet(S), NEW f \in [S -> Nat], NEW g \in [S -> Nat],
           NEW hf, IsSum(f, hf, S), NEW hg, IsSum(g, hg, S), NEW a \in S, NEW d \in Int,
           AtMost(f, g, S, a, d)
    PROVE  hf[S] \in Nat /\ hg[S] \in Nat /\ hg[S] <= hf[S] + d
<1> DEFINE Good(s) == /\ hf[s] \in Nat /\ hg[s] \in Nat
                      /\ hg[s] <= hf[s] + (IF a \in s THEN d ELSE 0)
           Bad == {n \in Nat : \E s \in SUBSET S : Cardinality(s) = n /\ ~Good(s)}
<1>1. \A s \in SUBSET S : hf[s] = SumStep(f, hf, s) /\ hg[s] = SumStep(g, hg, s)
  BY DEF IsSum
<1>2. Good({})
  <2>1. hf[{}] = 0 /\ hg[{}] = 0 /\ a \notin {}
    BY <1>1 DEF SumStep
  <2> QED
    BY <2>1
<1>3. ASSUME NEW s \in SUBSET S, s # {}, Good(s \ {AnyOf(s)}) PROVE Good(s)
  <2> DEFINE x == AnyOf(s)
             t == s \ {x}
  <2>1. x \in s /\ x \in S
    BY <1>3, AnyIsMember
  <2>2. hf[s] = f[x] + hf[t] /\ hg[s] = g[x] + hg[t]
    BY <1>1, <1>3 DEF SumStep
  <2>3. f[x] \in Nat /\ g[x] \in Nat /\ g[x] <= f[x] + (IF x = a THEN d ELSE 0)
    BY <2>1 DEF AtMost
  <2>4. /\ hf[t] \in Nat /\ hg[t] \in Nat
        /\ hg[t] <= hf[t] + (IF a \in t THEN d ELSE 0)
    BY <1>3
  <2>5. a \in s <=> (x = a \/ a \in t)
    BY <2>1
  <2>6. ~(x = a /\ a \in t)
    OBVIOUS
  <2> HIDE DEF x, t
  <2> QED
    BY <2>2, <2>3, <2>4, <2>5, <2>6
<1>4. ASSUME Bad # {} PROVE FALSE
  <2> HIDE DEF Good
  <2>1. PICK n \in Bad : \A k \in Bad : n <= k
    BY <1>4, LeastNat
  <2>2. PICK s \in SUBSET S : Cardinality(s) = n /\ ~Good(s)
    BY <2>1
  <2>3. s # {}
    BY <1>2, <2>2
  <2>4. /\ s \ {AnyOf(s)} \in SUBSET S /\ n \in Nat \ {0}
        /\ Cardinality(s \ {AnyOf(s)}) = n - 1
    BY <2>2, <2>3, AnyIsMember
  <2>5. n - 1 \in Nat /\ ~(n <= n - 1)
    BY <2>4
  <2>6. Good(s \ {AnyOf(s)})
    BY <2>1, <2>4, <2>5
  <2> QED
    BY <1>3, <2>2, <2>3, <2>6
<1>5. Cardinality(S) \in Nat
  BY FS_CardinalityType
<1>6. Good(S)
  <2> HIDE DEF Good
  <2> QED
    BY <1>4, <1>5
<1> QED
  BY <1>6

LEMMA SumOfNothing ==
    ASSUME NEW S, IsFiniteSet(S), NEW f, NEW h, IsSum(f, h, S), \A x \in S : f[x] = 0
    PROVE  h[S] = 0
<1> DEFINE Bad == {n \in Nat : \E s \in SUBSET S : Cardinality(s) = n /\ h[s] # 0}
<1>1. ASSUME NEW s \in SUBSET S PROVE h[s] = SumStep(f, h, s)
  BY DEF IsSum
<1>2. ASSUME Bad # {} PROVE FALSE
  <2>1. PICK n \in Bad : \A k \in Bad : n <= k
    BY <1>2, LeastNat
  <2>2. PICK s \in SUBSET S : Cardinality(s) = n /\ h[s] # 0
    BY <2>1
  <2>3. s # {}
    BY <1>1, <2>2 DEF SumStep
  <2>4. /\ AnyOf(s) \in S /\ s \ {AnyOf(s)} \in SUBSET S /\ n \in Nat \ {0}
        /\ Cardinality(s \ {AnyOf(s)}) = n - 1
    BY <2>2, <2>3, AnyIsMember
  <2>5. n - 1 \in Nat /\ ~(n <= n - 1)
    BY <2>4
  <2>6. h[s \ {AnyOf(s)}] = 0
    BY <2>1, <2>4, <2>5
  <2>7. h[s] = f[AnyOf(s)] + h[s \ {AnyOf(s)}]
    BY <1>1, <2>3 DEF SumStep
  <2> QED
    BY <2>2, <2>4, <2>6, <2>7
<1>3. Cardinality(S) \in Nat
  BY FS_CardinalityType
<1> QED
  BY <1>2, <1>3

\* The turns the runs have spent, as TurnsAreCharged adds them up.
Spent == Pi!FoldFunction(LAMBDA r, n : r.turns + n, 0, run)

LEMMA SpentIsSum ==
    ASSUME NEW S, IsFiniteSet(S), DOMAIN run = S
    PROVE  \E h : IsSum([x \in S |-> run[x].turns], h, S) /\ Spent = h[S]
<1> DEFINE f == [x \in S |-> run[x].turns]
           G(h) == [s \in SUBSET S |-> IF s = {} THEN 0
                       ELSE LET x == CHOOSE x \in s : TRUE IN run[x].turns + h[s \ {x}]]
           it == CHOOSE h : h = G(h)
<1>1. Spent = it[S]
  BY DEF Spent, Pi!FoldFunction, Pi!FoldFunctionOnSet, Pi!MapThenFoldSet
<1>2. ASSUME NEW h PROVE G(h) = [s \in SUBSET S |-> SumStep(f, h, s)]
  BY AnyIsMember DEF SumStep, AnyOf
<1>3. PICK h : IsSum(f, h, S)
  BY SumExists
<1>4. \E k : k = G(k)
  <2>1. h = [s \in SUBSET S |-> SumStep(f, h, s)]
    BY <1>3 DEF IsSum
  <2>2. G(h) = [s \in SUBSET S |-> SumStep(f, h, s)]
    BY <1>2
  <2> HIDE DEF G, f
  <2> QED
    BY <2>1, <2>2
<1>5. it = G(it)
  <2> HIDE DEF G
  <2> QED
    BY <1>4
<1> HIDE DEF it
<1>6. IsSum(f, it, S)
  BY <1>2, <1>5 DEF IsSum
<1> QED
  BY <1>1, <1>6

-----------------------------------------------------------------------------
(* The sidecar and its client.                                                *)

\* What the bounds may be.
PiBounds == MaxAttempts \in Nat \ {0} /\ Budget \in Nat

Statuses == Pi!Active \cup Pi!Terminal \cup {"none", "gone"}
Notes == [kind : {"result", "confirm_request"}, gate : Nat]
Runs == [st : Statuses, turns : Nat, max : Nat, gate : Nat, opened : Nat, ran : SUBSET Nat,
         log : Seq(Notes)]

\* The worker's places before the run of its attempt exists, and while it is followed; from the
\* reservation on it holds the turns it was granted.
Before == {"ensure", "poll", "known", "reserve", "post"}
Followed == {"stream", "touch", "refund"}
Holding == Followed \cup {"post"}

PiTypes ==
    /\ run \in [Pi!Attempts -> Runs] /\ attempt \in Pi!Attempts
    /\ turnsUsed \in 0..Budget /\ grant \in 0..Budget /\ seen \in Nat
    /\ piAt \in Before \cup Followed \cup {"native", "over"}
    /\ got \in Pi!Terminal \cup {"none"}

\* A run stays within its turns, has a gate while it waits at it, and is over once it says so.
RunFits(r) ==
    /\ r.turns <= r.max
    /\ r.gate > 0 => r.st = "awaiting_confirm"
    /\ \A j \in 1..Len(r.log) : r.log[j].kind = "result" => r.st \in Pi!Terminal

\* No run exists before its attempt has asked for it.
Untouched ==
    \A a \in Pi!Attempts : a > attempt \/ (a = attempt /\ piAt \in Before) => run[a] = Pi!NoRun

\* What the worker holds is the rest of the budget, its run may spend no more, and the end it
\* was told of is one.
Granted ==
    /\ piAt \in Holding => turnsUsed = Budget
    /\ piAt \in Followed => run[attempt].max = grant
    /\ piAt \in Followed /\ got # "none" => run[attempt].st \in Pi!Terminal
    /\ piAt \in {"touch", "refund"} => got # "none"

\* A run that may still be going keeps the whole budget, and is the only one.
OneAlive ==
    \A a \in Pi!Attempts : run[a].st \in Pi!Active =>
        /\ turnsUsed = Budget /\ piAt # "post"
        /\ piAt \in Followed => a = attempt
        /\ \A b \in Pi!Attempts : run[b].st \in Pi!Active => b = a

\* What each attempt may still cost: the grant that the worker holds, the ceiling of a run that
\* may be going, what one that is over has spent.
Cost(a) == IF a = attempt /\ piAt \in Holding THEN grant
           ELSE IF run[a].st \in Pi!Active THEN run[a].max ELSE run[a].turns
Costs == [a \in Pi!Attempts |-> Cost(a)]
Account == \A h : IsSum(Costs, h, Pi!Attempts) => h[Pi!Attempts] <= turnsUsed

PiInv ==
    /\ PiTypes /\ (\A a \in Pi!Attempts : RunFits(run[a]))
    /\ Untouched /\ Granted /\ OneAlive /\ Account /\ Pi!GateOpensOnYes

LEMMA AttemptsAreFinite == ASSUME PiBounds PROVE IsFiniteSet(Pi!Attempts)
BY FS_Interval DEF PiBounds, Pi!Attempts

LEMMA CostsAreNat == ASSUME PiBounds, PiTypes PROVE Costs \in [Pi!Attempts -> Nat]
<1>1. ASSUME NEW a \in Pi!Attempts PROVE Cost(a) \in Nat
  <2>1. run[a] \in Runs /\ grant \in Nat
    BY DEF PiTypes, PiBounds
  <2> QED
    BY <2>1 DEF Cost, Runs
<1> QED
  BY <1>1 DEF Costs

\* The account through a step that charges d more and costs d more at one attempt at most.
LEMMA AccountStep ==
    ASSUME PiBounds, PiTypes, PiTypes', Account, NEW a \in Pi!Attempts, NEW d \in Int,
           \A x \in Pi!Attempts : Cost(x)' <= Cost(x) + (IF x = a THEN d ELSE 0),
           turnsUsed' >= turnsUsed + d
    PROVE  Account'
<1> DEFINE S == Pi!Attempts
<1>1. IsFiniteSet(S)
  BY AttemptsAreFinite
<1>2. Costs \in [S -> Nat] /\ Costs' \in [S -> Nat]
  <2>1. Costs \in [S -> Nat]
    BY CostsAreNat
  <2>2. Costs' \in [S -> Nat]
    <3>1. ASSUME NEW x \in Pi!Attempts PROVE Cost(x)' \in Nat
      <4>1. run'[x] \in Runs /\ grant' \in Nat
        BY DEF PiTypes, PiBounds
      <4> QED
        BY <4>1 DEF Cost, Runs
    <3> QED
      BY <3>1 DEF Costs
  <2> QED
    BY <2>1, <2>2
<1>3. AtMost(Costs, Costs', S, a, d)
  BY DEF Costs, AtMost
<1>4. SUFFICES ASSUME NEW h, IsSum(Costs', h, S) PROVE h[S] <= turnsUsed'
  BY DEF Account
<1>5. PICK k : IsSum(Costs, k, S)
  BY <1>1, SumExists
<1>6. k[S] <= turnsUsed
  BY <1>5 DEF Account
<1>7. turnsUsed \in Int /\ turnsUsed' \in Int
  BY DEF PiTypes, PiBounds
<1>8. k[S] \in Nat /\ h[S] \in Nat /\ h[S] <= k[S] + d
  <2>1. a \in S
    OBVIOUS
  <2> HIDE DEF S
  <2> QED
    BY <1>1, <1>2, <1>3, <1>4, <1>5, <2>1, SumsCompare
<1> QED
  BY <1>6, <1>7, <1>8

\* What may become of a run while the worker follows it, or nobody does.
RunMoves(old, new) ==
    /\ old = Pi!NoRun => new = Pi!NoRun
    /\ new.st \in Pi!Active => old.st \in Pi!Active
    /\ old.st \in Pi!Terminal => new.st \in Pi!Terminal
    /\ new.max = old.max
    /\ old.st \notin Pi!Active => new.turns = old.turns
RunsMove ==
    /\ run' \in [Pi!Attempts -> Runs] /\ spoken \subseteq spoken'
    /\ \A a \in Pi!Attempts :
          /\ RunFits(run'[a]) /\ RunMoves(run[a], run'[a])
          /\ \A k \in run'[a].ran : k \in run[a].ran \/ <<a, k>> \in spoken'

LEMMA RunsStayPut == ASSUME PiInv, UNCHANGED run, spoken \subseteq spoken' PROVE RunsMove
BY DEF PiInv, PiTypes, RunsMove, RunMoves

LEMMA OneRunMoves ==
    ASSUME PiInv, NEW a \in Pi!Attempts, NEW r \in Runs, run' = [run EXCEPT ![a] = r],
           spoken \subseteq spoken', RunFits(r), RunMoves(run[a], r),
           \A k \in r.ran : k \in run[a].ran \/ <<a, k>> \in spoken'
    PROVE  RunsMove
<1>1. ASSUME NEW b \in Pi!Attempts
      PROVE  /\ run'[b] \in Runs /\ RunFits(run'[b]) /\ RunMoves(run[b], run'[b])
             /\ \A k \in run'[b].ran : k \in run[b].ran \/ <<b, k>> \in spoken'
  <2>1. run[b] \in Runs /\ RunFits(run[b]) /\ RunMoves(run[b], run[b])
    BY DEF PiInv, PiTypes, RunMoves
  <2>2. run'[b] = IF b = a THEN r ELSE run[b]
    BY DEF PiInv, PiTypes
  <2>3. CASE b = a
    BY <2>2, <2>3
  <2>4. CASE b # a
    BY <2>1, <2>2, <2>4
  <2> QED
    BY <2>3, <2>4
<1>2. run' \in [Pi!Attempts -> Runs]
  BY DEF PiInv, PiTypes
<1> QED
  BY <1>1, <1>2 DEF RunsMove

LEMMA PiFields ==
    ASSUME PiInv, PiBounds, NEW a \in Pi!Attempts
    PROVE  /\ run[a] \in Runs /\ RunFits(run[a])
           /\ run[a].turns \in Nat /\ run[a].max \in Nat /\ run[a].gate \in Nat
           /\ grant \in Nat /\ turnsUsed \in Nat
BY DEF PiInv, PiTypes, Runs, PiBounds

\* A step that leaves the worker with its attempt, and what it holds.
LEMMA PiAlong ==
    ASSUME PiBounds, PiInv, RunsMove, UNCHANGED <<attempt, turnsUsed, grant>>, seen' \in Nat,
           got' \in Pi!Terminal \cup {"none"},
           piAt' \in Before \cup Followed \cup {"native", "over"},
           piAt' \in Before => piAt \in Before,
           piAt' \in Followed <=> piAt \in Followed, piAt' = "post" <=> piAt = "post",
           piAt' \in Followed /\ got' # "none" => run'[attempt].st \in Pi!Terminal,
           piAt' \in {"touch", "refund"} => got' # "none"
    PROVE  PiInv'
<1>1. PiTypes'
  BY DEF PiInv, PiTypes, RunsMove
<1>2. ASSUME NEW a \in Pi!Attempts
      PROVE  /\ RunFits(run'[a]) /\ RunMoves(run[a], run'[a])
             /\ run[a] \in Runs /\ run'[a] \in Runs
  BY PiFields DEF RunsMove
<1>3. Untouched'
  <2>1. SUFFICES ASSUME NEW a \in Pi!Attempts, a > attempt \/ (a = attempt /\ piAt \in Before)
                 PROVE  run'[a] = Pi!NoRun
    BY DEF Untouched
  <2>2. run[a] = Pi!NoRun
    BY <2>1 DEF PiInv, Untouched
  <2> QED
    BY <1>2, <2>2 DEF RunMoves
<1>4. Granted'
  <2>1. attempt \in Pi!Attempts
    BY DEF PiInv, PiTypes
  <2>2. run'[attempt].max = run[attempt].max
    BY <1>2, <2>1 DEF RunMoves
  <2> QED
    BY <2>2 DEF PiInv, Granted, Holding
<1>5. OneAlive'
  <2>1. SUFFICES ASSUME NEW a \in Pi!Attempts, run'[a].st \in Pi!Active
                 PROVE  /\ turnsUsed' = Budget /\ piAt' # "post"
                        /\ piAt' \in Followed => a = attempt'
                        /\ \A b \in Pi!Attempts : run'[b].st \in Pi!Active => b = a
    BY DEF OneAlive
  <2>2. \A b \in Pi!Attempts : run'[b].st \in Pi!Active => run[b].st \in Pi!Active
    BY <1>2 DEF RunMoves
  <2>3. /\ turnsUsed = Budget /\ piAt # "post"
        /\ piAt \in Followed => a = attempt
        /\ \A b \in Pi!Attempts : run[b].st \in Pi!Active => b = a
    BY <2>1, <2>2 DEF PiInv, OneAlive
  <2> QED
    BY <2>2, <2>3
<1>6. Account'
  <2>1. piAt' \in Holding <=> piAt \in Holding
    BY DEF Holding
  <2>2. ASSUME NEW a \in Pi!Attempts PROVE Cost(a)' <= Cost(a) + 0
    <3>1. grant \in Nat
      BY PiFields
    <3>2. CASE a = attempt /\ piAt \in Holding
      BY <2>1, <3>1, <3>2 DEF Cost
    <3>3. CASE ~(a = attempt /\ piAt \in Holding)
      <4>1. /\ Cost(a) = IF run[a].st \in Pi!Active THEN run[a].max ELSE run[a].turns
            /\ Cost(a)' = IF run'[a].st \in Pi!Active THEN run'[a].max ELSE run'[a].turns
        BY <2>1, <3>3 DEF Cost
      <4>2. /\ run[a].turns \in Nat /\ run[a].max \in Nat
            /\ run'[a].turns \in Nat /\ run'[a].max \in Nat
            /\ run'[a].turns <= run'[a].max
        BY <1>2 DEF Runs, RunFits
      <4>3. /\ run'[a].st \in Pi!Active => run[a].st \in Pi!Active
            /\ run'[a].max = run[a].max
            /\ run[a].st \notin Pi!Active => run'[a].turns = run[a].turns
        BY <1>2 DEF RunMoves
      <4> QED
        BY <4>1, <4>2, <4>3
    <3> QED
      BY <3>2, <3>3
  <2>3. \A x \in Pi!Attempts : Cost(x)' <= Cost(x) + (IF x = attempt THEN 0 ELSE 0)
    BY <2>2
  <2>4. attempt \in Pi!Attempts /\ turnsUsed' >= turnsUsed + 0
    BY PiFields DEF PiInv, PiTypes
  <2> QED
    BY <1>1, <2>3, <2>4, AccountStep DEF PiInv
<1>7. Pi!GateOpensOnYes'
  BY DEF PiInv, RunsMove, Pi!GateOpensOnYes
<1>8. \A a \in Pi!Attempts : RunFits(run[a])'
  BY <1>2
<1> QED
  BY <1>1, <1>3, <1>4, <1>5, <1>6, <1>7, <1>8 DEF PiInv

-----------------------------------------------------------------------------
(* The steps that leave the worker where it is.                               *)

LEMMA FinishedMoves ==
    ASSUME NEW r \in Runs, RunFits(r), NEW how \in Pi!Terminal
    PROVE  /\ Pi!Finished(r, how) \in Runs /\ RunFits(Pi!Finished(r, how))
           /\ RunMoves(r, Pi!Finished(r, how)) /\ Pi!Finished(r, how).ran = r.ran
<1>1. CASE r.st \notin Pi!Active
  BY <1>1 DEF Pi!Finished, RunMoves
<1>2. CASE r.st \in Pi!Active
  <2> DEFINE e == [kind |-> "result", gate |-> 0]
             q == [r EXCEPT !.st = how, !.gate = 0, !.log = Append(@, e)]
  <2>1. Pi!Finished(r, how) = q
    BY <1>2 DEF Pi!Finished
  <2>2. r.log \in Seq(Notes) /\ e \in Notes /\ how \in Statuses
    BY DEF Runs, Notes, Statuses
  <2>3. Append(r.log, e) \in Seq(Notes)
    BY <2>2
  <2> HIDE DEF e
  <2>4. /\ q \in Runs /\ q.st = how /\ q.gate = 0 /\ q.turns = r.turns /\ q.max = r.max
        /\ q.ran = r.ran
    BY <2>3, <2>2 DEF Runs
  <2>5. r # Pi!NoRun
    BY <1>2 DEF Pi!NoRun, Pi!Active
  <2>6. RunMoves(r, q)
    BY <1>2, <2>4, <2>5 DEF RunMoves, Pi!Active, Pi!Terminal
  <2>7. RunFits(q)
    BY <2>4 DEF RunFits
  <2> QED
    BY <2>1, <2>4, <2>6, <2>7
<1> QED
  BY <1>1, <1>2

LEMMA SettleMoves ==
    ASSUME NEW r \in Runs, RunFits(r), r.st = "awaiting_confirm", NEW yes \in BOOLEAN
    PROVE  /\ Pi!SettleConfirm(r, yes) \in Runs /\ RunFits(Pi!SettleConfirm(r, yes))
           /\ RunMoves(r, Pi!SettleConfirm(r, yes))
           /\ Pi!SettleConfirm(r, yes).ran = IF yes THEN r.ran \cup {r.gate} ELSE r.ran
<1> DEFINE tools == IF yes THEN r.ran \cup {r.gate} ELSE r.ran
           q == [r EXCEPT !.st = "running", !.gate = 0, !.ran = tools]
<1>1. Pi!SettleConfirm(r, yes) = q
  BY DEF Pi!SettleConfirm
<1>2. tools \in SUBSET Nat /\ "running" \in Statuses
  BY DEF Runs, Statuses, Pi!Active
<1> HIDE DEF tools
<1>3. /\ q \in Runs /\ q.st = "running" /\ q.gate = 0 /\ q.turns = r.turns /\ q.max = r.max
      /\ q.ran = tools /\ q.log = r.log
  BY <1>2 DEF Runs
<1>4. r # Pi!NoRun
  BY DEF Pi!NoRun
<1>5. RunMoves(r, q)
  BY <1>3, <1>4 DEF RunMoves, Pi!Active, Pi!Terminal
<1>6. RunFits(q)
  BY <1>3 DEF RunFits, Pi!Terminal
<1> QED
  BY <1>1, <1>3, <1>5, <1>6 DEF tools

\* The worker's side of a step that only concerns the runs.
LEMMA RunsAlong ==
    ASSUME PiBounds, PiInv, RunsMove, UNCHANGED <<piAt, attempt, turnsUsed, grant, seen, got>>
    PROVE  PiInv'
<1>1. attempt \in Pi!Attempts /\ seen \in Nat /\ got \in Pi!Terminal \cup {"none"}
      /\ piAt \in Before \cup Followed \cup {"native", "over"}
  BY DEF PiInv, PiTypes
<1>2. run[attempt].st \in Pi!Terminal => run'[attempt].st \in Pi!Terminal
  BY <1>1 DEF RunsMove, RunMoves
<1>3. /\ piAt \in Followed /\ got # "none" => run[attempt].st \in Pi!Terminal
      /\ piAt \in {"touch", "refund"} => got # "none"
  BY DEF PiInv, Granted
<1> QED
  BY <1>1, <1>2, <1>3, PiAlong

LEMMA RunStepKeeps ==
    ASSUME PiBounds, PiInv, Pi!RunStep
    PROVE  PiInv'
<1>1. PICK a \in Pi!Attempts :
          \/ Pi!Turn(a) \/ Pi!OpenGate(a) \/ Pi!GateTimesOut(a) \/ Pi!RunTimesOut(a)
          \/ \E how \in {"done", "failed"} : Pi!Settle(a, how)
  BY DEF Pi!RunStep
<1>2. UNCHANGED <<piAt, attempt, turnsUsed, grant, seen, got, spoken>>
  BY <1>1 DEF Pi!Turn, Pi!OpenGate, Pi!GateTimesOut, Pi!RunTimesOut, Pi!Settle, Pi!worker,
              Pi!confirms
<1>3. run[a] \in Runs /\ RunFits(run[a]) /\ run \in [Pi!Attempts -> Runs]
  BY PiFields DEF PiInv, PiTypes
<1>4. CASE Pi!Turn(a)
  <2> DEFINE n == run[a].turns + 1
             r == [run[a] EXCEPT !.turns = n]
  <2>5. n \in Nat
    BY <1>3 DEF Runs
  <2> HIDE DEF n
  <2>1. /\ r \in Runs /\ r.turns = n /\ r.max = run[a].max /\ r.st = run[a].st
        /\ r.gate = run[a].gate /\ r.log = run[a].log /\ r.ran = run[a].ran
    BY <1>3, <2>5 DEF Runs
  <2>2. run[a].st = "running" /\ run[a].turns < run[a].max /\ run' = [run EXCEPT ![a] = r]
    BY <1>4 DEF Pi!Turn, Pi!Running, n
  <2>3. RunFits(r)
    BY <1>3, <2>1, <2>2 DEF RunFits, Runs, n
  <2>4. RunMoves(run[a], r)
    BY <2>1, <2>2 DEF RunMoves, Pi!NoRun, Pi!Active
  <2> HIDE DEF r
  <2> QED
    BY <1>2, <2>1, <2>2, <2>3, <2>4, OneRunMoves, RunsAlong
<1>5. CASE Pi!OpenGate(a)
  <2> DEFINE k == run[a].opened + 1
             e == [kind |-> "confirm_request", gate |-> k]
             r == [run[a] EXCEPT !.st = "awaiting_confirm", !.gate = k, !.opened = k,
                                 !.log = Append(@, e)]
  <2>1. run[a].st = "running" /\ run' = [run EXCEPT ![a] = r]
    BY <1>5 DEF Pi!OpenGate, Pi!Running
  <2>2. /\ run[a].log \in Seq(Notes) /\ e \in Notes /\ k \in Nat /\ e.kind = "confirm_request"
        /\ "awaiting_confirm" \in Statuses
    BY <1>3 DEF Runs, Notes, Statuses, Pi!Active
  <2> HIDE DEF e, k
  <2>3. Append(run[a].log, e) \in Seq(Notes)
    BY <2>2
  <2>4. /\ r \in Runs /\ r.turns = run[a].turns /\ r.max = run[a].max
        /\ r.st = "awaiting_confirm" /\ r.log = Append(run[a].log, e) /\ r.ran = run[a].ran
    BY <1>3, <2>2, <2>3 DEF Runs
  <2>5. RunFits(r)
    <3>1. ASSUME NEW j \in 1..Len(r.log) PROVE r.log[j].kind # "result"
      <4>1. Len(r.log) = Len(run[a].log) + 1 /\ Len(run[a].log) \in Nat
        BY <2>2, <2>4
      <4>2. CASE j = Len(run[a].log) + 1
        BY <2>2, <2>4, <4>2
      <4>3. CASE j \in 1..Len(run[a].log)
        <5>1. r.log[j] = run[a].log[j]
          BY <2>2, <2>4, <4>3
        <5> QED
          BY <1>3, <2>1, <4>3, <5>1 DEF RunFits, Pi!Terminal
      <4> QED
        BY <4>1, <4>2, <4>3
    <3> QED
      BY <1>3, <2>4, <3>1 DEF RunFits
  <2> HIDE DEF r
  <2>6. RunMoves(run[a], r)
    BY <2>1, <2>4 DEF RunMoves, Pi!NoRun, Pi!Active, Pi!Terminal
  <2> QED
    BY <1>2, <2>1, <2>4, <2>5, <2>6, OneRunMoves, RunsAlong
<1>6. CASE Pi!GateTimesOut(a)
  <2> DEFINE r == Pi!SettleConfirm(run[a], FALSE)
  <2>1. run[a].st = "awaiting_confirm" /\ run' = [run EXCEPT ![a] = r]
    BY <1>6 DEF Pi!GateTimesOut
  <2>2. r \in Runs /\ RunFits(r) /\ RunMoves(run[a], r) /\ r.ran = run[a].ran
    BY <1>3, <2>1, SettleMoves
  <2> HIDE DEF r
  <2> QED
    BY <1>2, <2>1, <2>2, OneRunMoves, RunsAlong
<1>7. ASSUME NEW how \in Pi!Terminal, run' = [run EXCEPT ![a] = Pi!Finished(@, how)]
      PROVE  PiInv'
  <2> DEFINE r == Pi!Finished(run[a], how)
  <2>1. r \in Runs /\ RunFits(r) /\ RunMoves(run[a], r) /\ r.ran = run[a].ran
    BY <1>3, FinishedMoves
  <2>2. run' = [run EXCEPT ![a] = r]
    BY <1>7
  <2> HIDE DEF r
  <2> QED
    BY <1>2, <2>1, <2>2, OneRunMoves, RunsAlong
<1> QED
  BY <1>1, <1>4, <1>5, <1>6, <1>7 DEF Pi!Settle, Pi!RunTimesOut, Pi!Terminal

LEMMA SideStepKeeps ==
    ASSUME PiBounds, PiInv, Pi!SideStep
    PROVE  PiInv'
<1>1. UNCHANGED <<piAt, attempt, turnsUsed, grant, seen, got, spoken>>
  BY DEF Pi!SideStep, Pi!SideUp, Pi!SideDies, Pi!StopIfIdle, Pi!Tick, Pi!worker, Pi!confirms
<1>2. CASE UNCHANGED run
  BY <1>1, <1>2, RunsStayPut, RunsAlong
<1>3. CASE Pi!SideDies
  <2>1. run' = [a \in Pi!Attempts |-> IF run[a].st \in Pi!Active
                                      THEN [run[a] EXCEPT !.st = "gone", !.gate = 0]
                                      ELSE run[a]]
    BY <1>3 DEF Pi!SideDies
  <2>2. ASSUME NEW a \in Pi!Attempts
        PROVE  /\ run'[a] \in Runs /\ RunFits(run'[a]) /\ RunMoves(run[a], run'[a])
               /\ run'[a].ran = run[a].ran
    <3>1. run[a] \in Runs /\ RunFits(run[a])
      BY PiFields
    <3>2. CASE run[a].st \notin Pi!Active
      BY <2>1, <3>1, <3>2 DEF RunMoves
    <3>3. CASE run[a].st \in Pi!Active
      <4> DEFINE r == [run[a] EXCEPT !.st = "gone", !.gate = 0]
      <4>1. run'[a] = r
        BY <2>1, <3>3
      <4>2. /\ r \in Runs /\ r.st = "gone" /\ r.gate = 0 /\ r.turns = run[a].turns
            /\ r.max = run[a].max /\ r.ran = run[a].ran /\ r.log = run[a].log
        BY <3>1 DEF Runs, Statuses
      <4>3. RunFits(r)
        BY <3>1, <3>3, <4>2 DEF RunFits, Pi!Terminal, Pi!Active
      <4>4. run[a] # Pi!NoRun
        BY <3>3 DEF Pi!NoRun, Pi!Active
      <4>5. RunMoves(run[a], r)
        BY <3>3, <4>2, <4>4 DEF RunMoves, Pi!Terminal, Pi!Active
      <4> HIDE DEF r
      <4> QED
        BY <4>1, <4>2, <4>3, <4>5
    <3> QED
      BY <3>2, <3>3
  <2>3. RunsMove
    BY <1>1, <2>1, <2>2 DEF RunsMove
  <2> QED
    BY <1>1, <2>3, RunsAlong
<1>4. CASE Pi!StopIfIdle
  <2>1. run' = [a \in Pi!Attempts |-> Pi!Finished(run[a], "cancelled")]
    BY <1>4 DEF Pi!StopIfIdle
  <2>2. ASSUME NEW a \in Pi!Attempts
        PROVE  /\ run'[a] \in Runs /\ RunFits(run'[a]) /\ RunMoves(run[a], run'[a])
               /\ run'[a].ran = run[a].ran
    BY <2>1, PiFields, FinishedMoves DEF Pi!Terminal
  <2>3. RunsMove
    BY <1>1, <2>1, <2>2 DEF RunsMove
  <2> QED
    BY <1>1, <2>3, RunsAlong
<1> QED
  BY <1>2, <1>3, <1>4 DEF Pi!SideStep, Pi!SideUp, Pi!Tick

LEMMA UserStepKeeps ==
    ASSUME PiBounds, PiInv, Pi!UserStep
    PROVE  PiInv'
<1>1. CASE Pi!Cancel
  BY <1>1, RunsStayPut, RunsAlong DEF Pi!Cancel, Pi!worker, Pi!confirms
<1>2. CASE Pi!WatchCancel
  <2>1. UNCHANGED <<piAt, attempt, turnsUsed, grant, seen, got, spoken>>
    BY <1>2 DEF Pi!WatchCancel, Pi!worker, Pi!confirms
  <2>2. CASE UNCHANGED run
    BY <2>1, <2>2, RunsStayPut, RunsAlong
  <2>3. CASE run' = [run EXCEPT ![attempt] = Pi!Finished(@, "cancelled")]
    <3> DEFINE r == Pi!Finished(run[attempt], "cancelled")
    <3>1. attempt \in Pi!Attempts
      BY DEF PiInv, PiTypes
    <3>2. r \in Runs /\ RunFits(r) /\ RunMoves(run[attempt], r) /\ r.ran = run[attempt].ran
      BY <3>1, PiFields, FinishedMoves DEF Pi!Terminal
    <3>3. run' = [run EXCEPT ![attempt] = r]
      BY <2>3
    <3> HIDE DEF r
    <3> QED
      BY <2>1, <3>1, <3>2, <3>3, OneRunMoves, RunsAlong
  <2> QED
    BY <1>2, <2>2, <2>3 DEF Pi!WatchCancel
<1>3. ASSUME NEW a, NEW k, NEW yes \in BOOLEAN, Pi!Decide(a, k, yes)
      PROVE  PiInv'
  <2>1. /\ UNCHANGED <<piAt, attempt, turnsUsed, grant, seen, got>> /\ spoken \subseteq spoken'
        /\ yes => <<a, k>> \in spoken'
    BY <1>3 DEF Pi!Decide, Pi!worker
  <2>2. CASE UNCHANGED run
    BY <2>1, <2>2, RunsStayPut, RunsAlong
  <2>3. CASE run' = [run EXCEPT ![a] = Pi!Confirm(@, k, yes)] /\ run' # run
    <3>1. a \in Pi!Attempts
      BY <2>3 DEF PiInv, PiTypes
    <3>2. Pi!Confirm(run[a], k, yes) # run[a]
      BY <2>3, <3>1 DEF PiInv, PiTypes
    <3>3. /\ run[a].gate > 0 /\ run[a].gate = k
          /\ Pi!Confirm(run[a], k, yes) = Pi!SettleConfirm(run[a], yes)
      BY <3>2 DEF Pi!Confirm
    <3> DEFINE r == Pi!SettleConfirm(run[a], yes)
    <3>4. run[a] \in Runs /\ RunFits(run[a])
      BY <3>1, PiFields
    <3>5. run[a].st = "awaiting_confirm"
      BY <3>3, <3>4 DEF RunFits
    <3>6. /\ r \in Runs /\ RunFits(r) /\ RunMoves(run[a], r)
          /\ r.ran = IF yes THEN run[a].ran \cup {run[a].gate} ELSE run[a].ran
      BY <3>4, <3>5, SettleMoves
    <3>7. run' = [run EXCEPT ![a] = r]
      BY <2>3, <3>3
    <3> HIDE DEF r
    <3>8. \A j \in r.ran : j \in run[a].ran \/ <<a, j>> \in spoken'
      BY <2>1, <3>3, <3>6
    <3> QED
      BY <2>1, <3>1, <3>6, <3>7, <3>8, OneRunMoves, RunsAlong
  <2> QED
    BY <1>3, <2>2, <2>3 DEF Pi!Decide
<1> QED
  BY <1>1, <1>2, <1>3 DEF Pi!UserStep

-----------------------------------------------------------------------------
(* The steps of the worker and of the client.                                 *)

LEMMA FollowKeeps ==
    ASSUME PiBounds, PiInv,
           \/ Pi!EnsureAvailable \/ Pi!EnsureSpawn \/ Pi!PollUp \/ Pi!PollFails \/ Pi!MarkUsed
           \/ Pi!ReadConfirm \/ Pi!ReadResult \/ Pi!Close \/ Pi!Drop \/ Pi!Touch
    PROVE  PiInv'
<1>1. RunsMove /\ UNCHANGED <<run, attempt, turnsUsed, grant>>
  <2>1. UNCHANGED <<run, attempt, turnsUsed, grant, spoken>>
    BY DEF Pi!EnsureAvailable, Pi!EnsureSpawn, Pi!PollUp, Pi!PollFails, Pi!MarkUsed,
           Pi!ReadConfirm, Pi!ReadResult, Pi!Close, Pi!Drop, Pi!Touch, Pi!confirms
  <2> QED
    BY <2>1, RunsStayPut
<1>2. /\ attempt \in Pi!Attempts /\ seen \in Nat /\ got \in Pi!Terminal \cup {"none"}
      /\ piAt \in Before \cup Followed \cup {"native", "over"}
      /\ piAt \in Followed /\ got # "none" => run[attempt].st \in Pi!Terminal
      /\ piAt \in {"touch", "refund"} => got # "none"
  BY DEF PiInv, PiTypes, Granted
<1>3. CASE \/ Pi!EnsureAvailable \/ Pi!EnsureSpawn \/ Pi!PollUp \/ Pi!PollFails
           \/ Pi!MarkUsed
  <2>1. UNCHANGED <<seen, got>> /\ piAt \in Before \ {"post"}
        /\ piAt' \in (Before \ {"post"}) \cup {"native"}
    BY <1>3 DEF Pi!EnsureAvailable, Pi!EnsureSpawn, Pi!PollUp, Pi!PollFails, Pi!MarkUsed,
           Pi!At, Before
  <2> QED
    BY <1>1, <1>2, <2>1, PiAlong DEF Before, Followed
<1>4. CASE Pi!Close \/ Pi!Touch
  <2>1. UNCHANGED <<seen, got>> /\ piAt \in Followed /\ piAt' \in {"touch", "refund"}
        /\ got # "none"
    BY <1>2, <1>4 DEF Pi!Close, Pi!Touch, Pi!At, Followed
  <2> QED
    BY <1>1, <1>2, <2>1, PiAlong DEF Before, Followed
<1>5. CASE Pi!ReadConfirm
  <2>1. UNCHANGED <<piAt, got>> /\ piAt = "stream" /\ seen' = seen + 1
    BY <1>5 DEF Pi!ReadConfirm
  <2> QED
    BY <1>1, <1>2, <2>1, PiAlong DEF Before, Followed
<1>6. CASE Pi!ReadResult
  <2>1. /\ UNCHANGED piAt /\ piAt = "stream" /\ seen' = seen + 1 /\ got' = run[attempt].st
        /\ seen < Len(run[attempt].log) /\ run[attempt].log[seen + 1].kind = "result"
    BY <1>6 DEF Pi!ReadResult, Pi!Event
  <2>2. RunFits(run[attempt]) /\ run[attempt] \in Runs
    BY <1>2, PiFields
  <2>3. Len(run[attempt].log) \in Nat
    BY <2>2 DEF Runs
  <2>4. seen + 1 \in 1..Len(run[attempt].log)
    BY <1>2, <2>1, <2>3
  <2>5. run[attempt].st \in Pi!Terminal
    BY <2>1, <2>2, <2>4 DEF RunFits
  <2> QED
    BY <1>1, <1>2, <2>1, <2>5, PiAlong DEF Before, Followed
<1>7. CASE Pi!Drop
  <2>1. /\ UNCHANGED seen /\ piAt = "stream"
        /\ \/ got' = run[attempt].st /\ run[attempt].st \in Pi!Terminal /\ piAt' = "touch"
           \/ UNCHANGED <<got, piAt>>
    BY <1>7 DEF Pi!Drop
  <2>2. "none" \notin Pi!Terminal
    BY DEF Pi!Terminal
  <2> QED
    BY <1>1, <1>2, <2>1, <2>2, PiAlong DEF Before, Followed
<1> QED
  BY <1>3, <1>4, <1>5, <1>6, <1>7

LEMMA Difference ==
    ASSUME NEW x \in Int, NEW y \in Int PROVE y - x \in Int /\ y >= x + (y - x)
OBVIOUS

LEMMA ReserveKeeps ==
    ASSUME PiBounds, PiInv, Pi!Reserve
    PROVE  PiInv'
<1>1. /\ piAt = "reserve" /\ UNCHANGED <<run, attempt, seen, got, spoken>>
      /\ attempt \in Pi!Attempts /\ turnsUsed \in 0..Budget /\ Budget \in Nat
  BY DEF Pi!Reserve, PiInv, PiTypes, PiBounds, Pi!confirms
<1>2. PiTypes'
  <2>1. piAt' \in {"post", "over"} /\ turnsUsed' \in 0..Budget /\ grant' \in 0..Budget
    BY <1>1 DEF Pi!Reserve, PiInv, PiTypes
  <2> QED
    BY <1>1, <2>1 DEF PiInv, PiTypes, Before
<1>3. Untouched' /\ Pi!GateOpensOnYes' /\ \A a \in Pi!Attempts : RunFits(run[a])'
  BY <1>1 DEF PiInv, Untouched, Before, Pi!GateOpensOnYes
<1>4. run[attempt] = Pi!NoRun
  BY <1>1 DEF PiInv, Untouched, Before
<1>5. Granted'
  BY <1>1 DEF Pi!Reserve, PiInv, Granted, Holding, Followed
<1>6. OneAlive'
  <2>1. CASE turnsUsed < Budget
    <3>1. \A a \in Pi!Attempts : run[a].st \in Pi!Active => turnsUsed = Budget
      BY DEF PiInv, OneAlive
    <3>2. \A a \in Pi!Attempts : run[a].st \notin Pi!Active
      BY <1>1, <2>1, <3>1
    <3> QED
      BY <1>1, <3>2 DEF OneAlive
  <2>2. CASE ~(turnsUsed < Budget)
    <3>1. piAt' = "over" /\ UNCHANGED turnsUsed
      BY <2>2 DEF Pi!Reserve
    <3> QED
      BY <1>1, <3>1 DEF PiInv, OneAlive, Followed
  <2> QED
    BY <2>1, <2>2
<1>7. Account'
  <2> DEFINE d == turnsUsed' - turnsUsed
  <2>1. d \in Int /\ turnsUsed' >= turnsUsed + d
    <3>1. turnsUsed' \in Int /\ turnsUsed \in Int
      BY <1>1, <1>2 DEF PiTypes, PiBounds
    <3> QED
      BY <3>1, Difference
  <2>2. ASSUME NEW x \in Pi!Attempts
        PROVE  Cost(x)' <= Cost(x) + (IF x = attempt THEN d ELSE 0)
    <3>1. run[x].turns \in Nat /\ run[x].max \in Nat
      BY PiFields
    <3>2. CASE x # attempt
      BY <1>1, <3>1, <3>2 DEF Cost
    <3>3. CASE x = attempt
      <4>1. Cost(x) = 0
        BY <1>1, <1>4, <3>3 DEF Cost, Pi!NoRun, Pi!Active, Holding, Followed
      <4>2. CASE turnsUsed < Budget
        <5>1. piAt' = "post" /\ grant' = Budget - turnsUsed /\ turnsUsed' = Budget
          BY <4>2 DEF Pi!Reserve
        <5>2. Cost(x)' = grant'
          BY <1>1, <3>3, <5>1 DEF Cost, Holding
        <5> QED
          BY <1>1, <3>3, <4>1, <5>1, <5>2
      <4>3. CASE ~(turnsUsed < Budget)
        <5>1. piAt' = "over" /\ UNCHANGED turnsUsed
          BY <4>3 DEF Pi!Reserve
        <5>2. Cost(x)' = 0
          BY <1>1, <1>4, <3>3, <5>1 DEF Cost, Pi!NoRun, Pi!Active, Holding, Followed
        <5> QED
          BY <1>1, <3>3, <4>1, <5>1, <5>2
      <4> QED
        BY <4>2, <4>3
    <3> QED
      BY <3>2, <3>3
  <2> HIDE DEF d
  <2> QED
    BY <1>1, <1>2, <2>1, <2>2, AccountStep DEF PiInv
<1> QED
  BY <1>2, <1>3, <1>5, <1>6, <1>7 DEF PiInv

LEMMA NoRunFits ==
    /\ Pi!NoRun \in Runs /\ RunFits(Pi!NoRun) /\ Pi!NoRun.st = "none"
    /\ Pi!NoRun.turns = 0 /\ Pi!NoRun.ran = {} /\ Pi!NoRun.gate = 0 /\ Pi!NoRun.log = << >>
<1>1. "none" \in Statuses /\ {} \in SUBSET Nat /\ << >> \in Seq(Notes)
  BY DEF Statuses
<1>2. Pi!NoRun \in Runs
  BY <1>1 DEF Pi!NoRun, Runs
<1> QED
  BY <1>2 DEF Pi!NoRun, RunFits

LEMMA StartedFits ==
    ASSUME PiBounds, PiInv, piAt = "post"
    PROVE  /\ Pi!Started = [run EXCEPT ![attempt] = Pi!Started[attempt]]
           /\ attempt \in Pi!Attempts /\ Pi!Started[attempt] \in Runs
           /\ Pi!Started[attempt].st = "running" /\ Pi!Started[attempt].max = grant
           /\ Pi!Started[attempt].turns = 0 /\ Pi!Started[attempt].ran = {}
           /\ RunFits(Pi!Started[attempt])
<1> DEFINE r == [Pi!NoRun EXCEPT !.st = "running", !.max = grant]
<1>1. attempt \in Pi!Attempts /\ grant \in Nat
  BY PiFields DEF PiInv, PiTypes
<1>2. Pi!Started = [run EXCEPT ![attempt] = r] /\ Pi!Started[attempt] = r
  BY <1>1 DEF Pi!Started, PiInv, PiTypes
<1>3. /\ r \in Runs /\ r.st = "running" /\ r.max = grant /\ r.turns = 0 /\ r.ran = {}
      /\ r.gate = 0 /\ r.log = << >>
  BY <1>1, NoRunFits DEF Runs, Statuses, Pi!Active
<1>4. RunFits(r)
  BY <1>1, <1>3 DEF RunFits
<1> QED
  BY <1>1, <1>2, <1>3, <1>4

LEMMA PostKeepsRuns ==
    ASSUME PiBounds, PiInv, Pi!Post
    PROVE  PiInv'
<1> DEFINE r == Pi!Started[attempt]
<1>1. /\ piAt = "post" /\ piAt' = "stream" /\ run' = Pi!Started /\ seen' = 0 /\ got' = "none"
      /\ UNCHANGED <<attempt, turnsUsed, grant, spoken>>
  BY DEF Pi!Post, Pi!At, Pi!confirms
<1>2. /\ run' = [run EXCEPT ![attempt] = r] /\ attempt \in Pi!Attempts /\ r \in Runs
      /\ r.st = "running" /\ r.max = grant /\ r.ran = {} /\ RunFits(r)
  BY <1>1, StartedFits
<1> HIDE DEF r
<1>3. /\ run'[attempt] = r
      /\ \A a \in Pi!Attempts \ {attempt} : run'[a] = run[a]
  BY <1>2 DEF PiInv, PiTypes
<1>4. PiTypes'
  BY <1>1, <1>2 DEF PiInv, PiTypes, Followed
<1>5. Untouched'
  <2>1. SUFFICES ASSUME NEW a \in Pi!Attempts, a > attempt PROVE run'[a] = Pi!NoRun
    BY <1>1 DEF Untouched, Before
  <2>2. run[a] = Pi!NoRun
    BY <2>1 DEF PiInv, Untouched
  <2>3. a # attempt
    BY <1>2, <2>1 DEF Pi!Attempts
  <2> QED
    BY <1>3, <2>2, <2>3
<1>6. Granted'
  BY <1>1, <1>2, <1>3 DEF PiInv, Granted, Holding, Followed
<1>7. OneAlive'
  <2>1. \A a \in Pi!Attempts : run[a].st \notin Pi!Active
    BY <1>1 DEF PiInv, OneAlive
  <2>2. turnsUsed' = Budget
    BY <1>1 DEF PiInv, Granted, Holding
  <2> QED
    BY <1>1, <1>3, <2>1, <2>2 DEF OneAlive
<1>8. Account'
  <2>1. ASSUME NEW x \in Pi!Attempts PROVE Cost(x)' = Cost(x) /\ Cost(x) \in Nat
    <3>1. run[x].turns \in Nat /\ run[x].max \in Nat /\ grant \in Nat
      BY PiFields
    <3> QED
      BY <1>1, <1>3, <3>1 DEF Cost, Holding, Followed
  <2>2. turnsUsed' >= turnsUsed + 0
    BY <1>1, <1>2, PiFields
  <2>3. \A x \in Pi!Attempts : Cost(x)' <= Cost(x) + (IF x = attempt THEN 0 ELSE 0)
    BY <2>1
  <2> QED
    BY <1>2, <1>4, <2>2, <2>3, AccountStep DEF PiInv
<1>9. Pi!GateOpensOnYes' /\ \A a \in Pi!Attempts : RunFits(run[a])'
  <2>1. ASSUME NEW a \in Pi!Attempts
        PROVE  RunFits(run'[a]) /\ \A k \in run'[a].ran : <<a, k>> \in spoken'
    <3>1. CASE a = attempt
      BY <1>2, <1>3, <3>1
    <3>2. CASE a # attempt
      BY <1>1, <1>3, <3>2 DEF PiInv, Pi!GateOpensOnYes
    <3> QED
      BY <3>1, <3>2
  <2> QED
    BY <2>1 DEF Pi!GateOpensOnYes
<1> QED
  BY <1>4, <1>5, <1>6, <1>7, <1>8, <1>9 DEF PiInv

\* The attempt ends: what its run may still cost is within what stays charged.
LEMMA PiEnds ==
    ASSUME PiBounds, PiInv, piAt \in Holding, NEW r \in Runs, RunFits(r),
           run' = [run EXCEPT ![attempt] = r], UNCHANGED spoken, seen' \in Nat, UNCHANGED grant,
           got' \in Pi!Terminal \cup {"none"},
           \/ piAt' = "over" /\ UNCHANGED attempt
           \/ piAt' = "ensure" /\ attempt < MaxAttempts /\ attempt' = attempt + 1,
           turnsUsed' \in 0..Budget,
           r.st \in Pi!Active => turnsUsed' = Budget /\ r.max <= grant,
           r.st \notin Pi!Active => r.turns <= grant + (turnsUsed' - turnsUsed),
           r.ran \subseteq run[attempt].ran
    PROVE  PiInv'
<1>1. attempt \in Pi!Attempts /\ Budget \in Nat /\ turnsUsed = Budget /\ grant \in Nat
  BY PiFields DEF PiInv, PiTypes, PiBounds, Granted
<1>2. /\ run'[attempt] = r
      /\ \A a \in Pi!Attempts \ {attempt} : run'[a] = run[a]
  BY <1>1 DEF PiInv, PiTypes
<1>3. \A a \in Pi!Attempts \ {attempt} : run[a].st \notin Pi!Active
  BY DEF PiInv, OneAlive, Holding
<1>4. PiTypes'
  <2>1. attempt' \in Pi!Attempts /\ piAt' \in Before \cup {"over"}
    BY <1>1 DEF Pi!Attempts, PiBounds, Before
  <2> QED
    BY <1>1, <2>1 DEF PiInv, PiTypes
<1>5. Untouched'
  <2>1. SUFFICES ASSUME NEW a \in Pi!Attempts, a > attempt' \/ (a = attempt' /\ piAt' \in Before)
                 PROVE  run'[a] = Pi!NoRun
    BY DEF Untouched
  <2>2. a > attempt
    BY <1>1, <2>1 DEF Pi!Attempts, Before
  <2>3. run[a] = Pi!NoRun /\ a # attempt
    BY <1>1, <2>2 DEF PiInv, Untouched, Pi!Attempts
  <2> QED
    BY <1>2, <2>3
<1>6. Granted'
  BY DEF Granted, Holding, Followed
<1>7. OneAlive'
  BY <1>2, <1>3 DEF OneAlive, Followed
<1>8. Account'
  <2> DEFINE d == turnsUsed' - turnsUsed
  <2>1. d \in Int /\ turnsUsed' >= turnsUsed + d
    BY <1>1
  <2>2. ASSUME NEW x \in Pi!Attempts
        PROVE  Cost(x)' <= Cost(x) + (IF x = attempt THEN d ELSE 0)
    <3>1. Cost(x)' = IF run'[x].st \in Pi!Active THEN run'[x].max ELSE run'[x].turns
      BY DEF Cost, Holding, Followed
    <3>2. CASE x = attempt
      <4>1. Cost(x) = grant /\ Cost(x)' = IF r.st \in Pi!Active THEN r.max ELSE r.turns
        BY <1>2, <3>1, <3>2 DEF Cost
      <4>2. r.max \in Nat /\ r.turns \in Nat
        BY DEF Runs
      <4> QED
        BY <1>1, <3>2, <4>1, <4>2
    <3>3. CASE x # attempt
      <4>1. Cost(x)' = Cost(x)
        BY <1>2, <3>1, <3>3 DEF Cost
      <4>2. Cost(x) \in Nat
        BY <3>3, PiFields DEF Cost
      <4> QED
        BY <3>3, <4>1, <4>2
    <3> QED
      BY <3>2, <3>3
  <2> HIDE DEF d
  <2> QED
    BY <1>1, <1>4, <2>1, <2>2, AccountStep DEF PiInv
<1>9. Pi!GateOpensOnYes' /\ \A a \in Pi!Attempts : RunFits(run[a])'
  <2>1. ASSUME NEW a \in Pi!Attempts
        PROVE  RunFits(run'[a]) /\ \A k \in run'[a].ran : <<a, k>> \in spoken'
    <3>1. \A k \in run[a].ran : <<a, k>> \in spoken
      BY DEF PiInv, Pi!GateOpensOnYes
    <3>2. CASE a = attempt
      BY <1>2, <3>1, <3>2
    <3>3. CASE a # attempt
      BY <1>2, <3>1, <3>3 DEF PiInv
    <3> QED
      BY <3>2, <3>3
  <2> QED
    BY <2>1 DEF Pi!GateOpensOnYes
<1> QED
  BY <1>4, <1>5, <1>6, <1>7, <1>8, <1>9 DEF PiInv

LEMMA PostFailsKeeps ==
    ASSUME PiBounds, PiInv, Pi!PostFails
    PROVE  PiInv'
<1>1. /\ piAt = "post" /\ UNCHANGED <<grant, seen, got, spoken, turnsUsed>>
      /\ \/ piAt' = "over" /\ UNCHANGED attempt
         \/ piAt' = "ensure" /\ attempt < MaxAttempts /\ attempt' = attempt + 1
      /\ run' = run \/ run' = Pi!Started
  BY DEF Pi!PostFails, Pi!Raises, Pi!Fails, Pi!confirms
<1>2. /\ attempt \in Pi!Attempts /\ seen \in Nat /\ got \in Pi!Terminal \cup {"none"}
      /\ turnsUsed \in 0..Budget /\ grant \in Nat /\ turnsUsed = Budget
      /\ run[attempt] = Pi!NoRun
  BY <1>1, PiFields DEF PiInv, PiTypes, Granted, Holding, Untouched, Before
<1>3. CASE run' = run
  <2>1. /\ run[attempt] \in Runs /\ RunFits(run[attempt])
        /\ run' = [run EXCEPT ![attempt] = run[attempt]]
    BY <1>2, <1>3, PiFields DEF PiInv, PiTypes
  <2>2. run[attempt].st \notin Pi!Active /\ run[attempt].turns = 0
    BY <1>2 DEF Pi!NoRun, Pi!Active
  <2>3. run[attempt].turns <= grant + (turnsUsed' - turnsUsed)
    BY <1>1, <1>2, <2>2
  <2> QED
    BY <1>1, <1>2, <2>1, <2>2, <2>3, PiEnds DEF Holding
<1>4. CASE run' = Pi!Started
  <2> DEFINE r == Pi!Started[attempt]
  <2>1. /\ run' = [run EXCEPT ![attempt] = r] /\ r \in Runs /\ r.st = "running"
        /\ r.max = grant /\ r.ran = {} /\ RunFits(r)
    BY <1>1, <1>4, StartedFits
  <2>2. r.st \in Pi!Active /\ r.max <= grant /\ r.ran \subseteq run[attempt].ran
    BY <1>2, <2>1 DEF Pi!Active
  <2> HIDE DEF r
  <2> QED
    BY <1>1, <1>2, <2>1, <2>2, PiEnds DEF Holding
<1> QED
  BY <1>1, <1>3, <1>4

LEMMA GiveUpKeeps ==
    ASSUME PiBounds, PiInv, Pi!GiveUp
    PROVE  PiInv'
<1>1. /\ piAt = "stream" /\ UNCHANGED <<grant, seen, got, spoken, turnsUsed>>
      /\ \/ piAt' = "over" /\ UNCHANGED attempt
         \/ piAt' = "ensure" /\ attempt < MaxAttempts /\ attempt' = attempt + 1
      /\ run' = run \/ run' = [run EXCEPT ![attempt] = Pi!Finished(@, "cancelled")]
  BY DEF Pi!GiveUp, Pi!Raises, Pi!Fails, Pi!confirms
<1>2. /\ attempt \in Pi!Attempts /\ seen \in Nat /\ got \in Pi!Terminal \cup {"none"}
      /\ turnsUsed \in 0..Budget /\ grant \in Nat /\ turnsUsed = Budget
      /\ run[attempt] \in Runs /\ RunFits(run[attempt]) /\ run[attempt].max = grant
  BY <1>1, PiFields DEF PiInv, PiTypes, Granted, Holding, Followed
<1>3. PICK r \in Runs : /\ run' = [run EXCEPT ![attempt] = r] /\ RunFits(r)
                        /\ r.max = grant /\ r.ran = run[attempt].ran
  <2>1. CASE run' = run
    <3>1. run' = [run EXCEPT ![attempt] = run[attempt]]
      BY <1>2, <2>1 DEF PiInv, PiTypes
    <3> QED
      BY <1>2, <3>1
  <2>2. CASE run' = [run EXCEPT ![attempt] = Pi!Finished(@, "cancelled")]
    <3> DEFINE q == Pi!Finished(run[attempt], "cancelled")
    <3>1. /\ q \in Runs /\ RunFits(q) /\ RunMoves(run[attempt], q)
          /\ q.ran = run[attempt].ran
      BY <1>2, FinishedMoves DEF Pi!Terminal
    <3>2. run' = [run EXCEPT ![attempt] = q]
      BY <2>2
    <3> HIDE DEF q
    <3> QED
      BY <1>2, <3>1, <3>2 DEF RunMoves
  <2> QED
    BY <1>1, <2>1, <2>2
<1>4. r.turns \in Nat /\ r.turns <= r.max
  BY <1>3 DEF Runs, RunFits
<1>5. /\ r.turns <= grant + (turnsUsed' - turnsUsed) /\ r.max <= grant
      /\ r.ran \subseteq run[attempt].ran
  BY <1>1, <1>2, <1>3, <1>4
<1> QED
  BY <1>1, <1>2, <1>3, <1>5, PiEnds DEF Holding, Followed

LEMMA RefundKeeps ==
    ASSUME PiBounds, PiInv, Pi!Refund
    PROVE  PiInv'
<1>1. /\ piAt = "refund" /\ UNCHANGED <<run, grant, seen, got, spoken>>
      /\ turnsUsed' = turnsUsed - Pi!Unspent
      /\ \/ piAt' = "over" /\ UNCHANGED attempt
         \/ piAt' = "ensure" /\ attempt < MaxAttempts /\ attempt' = attempt + 1
  BY DEF Pi!Refund, Pi!Fails, Pi!confirms
<1>2. /\ attempt \in Pi!Attempts /\ seen \in Nat /\ got \in Pi!Terminal \cup {"none"}
      /\ grant \in 0..Budget /\ turnsUsed = Budget /\ Budget \in Nat
      /\ run[attempt] \in Runs /\ RunFits(run[attempt]) /\ run[attempt].max = grant
      /\ run[attempt].st \in Pi!Terminal
  BY <1>1, PiFields DEF PiInv, PiTypes, Granted, Holding, Followed, PiBounds
<1>3. run[attempt].turns \in Nat /\ run[attempt].turns <= grant
  BY <1>2 DEF Runs, RunFits
<1>4. Pi!Unspent = (IF side = "up" THEN grant - run[attempt].turns ELSE 0)
  BY DEF Pi!Unspent
<1>5. /\ turnsUsed' \in 0..Budget
      /\ run[attempt].turns <= grant + (turnsUsed' - turnsUsed)
  BY <1>1, <1>2, <1>3, <1>4
<1>6. run' = [run EXCEPT ![attempt] = run[attempt]]
  BY <1>1, <1>2 DEF PiInv, PiTypes
<1>7. run[attempt].st \notin Pi!Active
  BY <1>2 DEF Pi!Active, Pi!Terminal
<1> QED
  BY <1>1, <1>2, <1>5, <1>6, <1>7, PiEnds DEF Holding, Followed

LEMMA PiInit == ASSUME PiBounds, Pi!Init PROVE PiInv
<1>1. run = [a \in Pi!Attempts |-> Pi!NoRun] /\ piAt = "ensure" /\ attempt = 1
      /\ turnsUsed = 0 /\ grant = 0 /\ seen = 0 /\ got = "none"
  BY DEF Pi!Init
<1>2. /\ Pi!NoRun \in Runs /\ RunFits(Pi!NoRun) /\ Pi!NoRun.st = "none"
      /\ Pi!NoRun.turns = 0 /\ Pi!NoRun.ran = {}
  BY NoRunFits
<1>3. PiTypes
  BY <1>1, <1>2 DEF PiTypes, PiBounds, Pi!Attempts, Before
<1>4. Untouched /\ Granted
  BY <1>1 DEF Untouched, Granted, Holding, Followed
<1>5. OneAlive /\ Pi!GateOpensOnYes /\ \A a \in Pi!Attempts : RunFits(run[a])
  BY <1>1, <1>2 DEF OneAlive, Pi!GateOpensOnYes, Pi!Active
<1>6. Account
  <2> DEFINE S == Pi!Attempts
  <2>1. SUFFICES ASSUME NEW h, IsSum(Costs, h, S) PROVE h[S] = 0
    BY <1>1 DEF Account
  <2>2. ASSUME NEW x \in S PROVE Costs[x] = 0
    BY <1>1, <1>2 DEF Costs, Cost, Holding, Followed, Pi!Active
  <2>3. IsFiniteSet(S)
    BY AttemptsAreFinite
  <2> QED
    BY <2>1, <2>2, <2>3, SumOfNothing
<1> QED
  BY <1>3, <1>4, <1>5, <1>6 DEF PiInv

LEMMA PiStep == ASSUME PiBounds, PiInv, [Pi!Next]_(Pi!vars) PROVE PiInv'
<1>1. CASE UNCHANGED Pi!vars
  <2>1. UNCHANGED <<run, piAt, attempt, turnsUsed, grant, seen, got, spoken>>
    BY <1>1 DEF Pi!vars, Pi!worker, Pi!confirms
  <2> QED
    BY <2>1, RunsStayPut, RunsAlong
<1>2. CASE Pi!EnsureStep
  BY <1>2, FollowKeeps, ReserveKeeps DEF Pi!EnsureStep
<1>3. CASE Pi!ClientStep
  BY <1>3, FollowKeeps, PostKeepsRuns, PostFailsKeeps, GiveUpKeeps, RefundKeeps
     DEF Pi!ClientStep
<1> QED
  BY <1>1, <1>2, <1>3, RunStepKeeps, SideStepKeeps, UserStepKeeps DEF Pi!Next

\* What the turns of all attempts add up to is within the account.
LEMMA AccountCovers == ASSUME PiBounds, PiInv PROVE Pi!TurnsAreCharged
<1> DEFINE S == Pi!Attempts
           f == [x \in S |-> run[x].turns]
<1>1. IsFiniteSet(S) /\ DOMAIN run = S
  BY AttemptsAreFinite DEF PiInv, PiTypes
<1>2. PICK h : IsSum(f, h, S) /\ Spent = h[S]
  BY <1>1, SpentIsSum
<1>3. PICK k : IsSum(Costs, k, S)
  BY <1>1, SumExists
<1>4. k[S] <= turnsUsed
  BY <1>3 DEF PiInv, Account
<1>5. ASSUME NEW x \in S PROVE run[x].turns \in Nat /\ run[x].turns <= Cost(x)
  <2>1. /\ run[x].turns \in Nat /\ run[x].max \in Nat /\ run[x].turns <= run[x].max
        /\ grant \in Nat
    BY PiFields DEF RunFits
  <2>2. x = attempt /\ piAt \in Followed => run[x].max = grant
    BY DEF PiInv, Granted
  <2>3. x = attempt /\ piAt = "post" => run[x].turns = 0
    BY DEF PiInv, Untouched, Before, Pi!NoRun
  <2> QED
    BY <2>1, <2>2, <2>3 DEF Cost, Holding
<1>6. f \in [S -> Nat] /\ Costs \in [S -> Nat]
  BY <1>5, CostsAreNat DEF PiInv
<1>7. attempt \in S /\ AtMost(Costs, f, S, attempt, 0)
  <2>1. \A x \in S : f[x] <= Costs[x] + (IF x = attempt THEN 0 ELSE 0)
    <3>1. ASSUME NEW x \in S PROVE f[x] <= Costs[x] + 0
      <4>1. f[x] \in Nat /\ Costs[x] \in Nat
        BY <1>6
      <4>2. f[x] = run[x].turns /\ Costs[x] = Cost(x)
        BY DEF Costs
      <4> QED
        BY <1>5, <4>1, <4>2
    <3> QED
      BY <3>1
  <2> QED
    BY <2>1 DEF AtMost, PiInv, PiTypes
<1>8. turnsUsed \in Nat
  BY <1>7, PiFields
<1>9. k[S] \in Nat /\ h[S] \in Nat /\ h[S] <= k[S] + 0
  <2> HIDE DEF S, f
  <2> QED
    BY <1>1, <1>2, <1>3, <1>6, <1>7, SumsCompare
<1>10. Spent <= turnsUsed
  BY <1>2, <1>4, <1>8, <1>9
<1> QED
  BY <1>10 DEF Pi!TurnsAreCharged, Spent

LEMMA AliveIsOne == ASSUME PiBounds, PiInv PROVE Pi!OneRunAtATime
<1> DEFINE A == {a \in Pi!Attempts : run[a].st \in Pi!Active}
<1>1. \A a, b \in A : a = b
  BY DEF PiInv, OneAlive
<1> HIDE DEF A
<1>2. Cardinality(A) \in {0, 1}
  <2>1. CASE A = {}
    BY <2>1, FS_EmptySet
  <2>2. CASE A # {}
    <3>1. PICK a : A = {a}
      BY <1>1, <2>2
    <3> QED
      BY <3>1, FS_Singleton
  <2> QED
    BY <2>1, <2>2
<1>3. Pi!Cardinality(A) = Cardinality(A)
  BY DEF Pi!Cardinality, Cardinality
<1>4. Pi!Cardinality(A) <= 1
  BY <1>2, <1>3
<1> QED
  BY <1>4 DEF Pi!OneRunAtATime, A

\* The runs of a job's attempts never spend a turn that the job was not charged for, whichever
\* request, answer, stream or process is lost, since an exception leaves the whole reservation
\* charged (agent/orchestrator.py); for the same reason there is one run that may be going at
\* most; and a tool behind a gate runs on the user's yes to that gate (pi-sidecar/src/run.mjs).
THEOREM RunsKeepToTheirGrant == ASSUME PiBounds PROVE Pi!Spec => []Pi!RunsAsGranted
<1>1. Pi!Init => PiInv
  BY PiInit
<1>2. PiInv /\ [Pi!Next]_(Pi!vars) => PiInv'
  BY PiStep
<1>3. PiInv => Pi!RunsAsGranted
  BY AccountCovers, AliveIsOne DEF Pi!RunsAsGranted, PiInv
<1> QED
  BY <1>1, <1>2, <1>3, PTL DEF Pi!Spec

-----------------------------------------------------------------------------
(* Input on the Mac.                                                          *)

CONSTANTS Chunks, Steps
VARIABLES kind, verify, quartz, stage, moved, halt, typed, button, dropped, result
Mac == INSTANCE MacInput WITH at <- stage, i <- moved, cancel <- halt

\* A drag moves a number of steps.
StepsAssumption == Steps \in Nat

\* How far a drag has come is told by its place: nothing is pressed or let go before the
\* press, nothing let go while it moves, which takes Quartz, and what is looked at afterwards
\* is at its destination.
DragInv ==
    /\ moved \in Nat
    /\ kind = "drag" =>
        /\ stage \in {"check", "press", "drag", "verify", "end"}
        /\ stage \in {"check", "press"} => ~button /\ dropped = -1 /\ moved = 0
        /\ stage \in {"press", "drag"} => quartz
        /\ stage = "drag" => dropped = -1 /\ moved \in 0..Steps
        /\ stage = "verify" => ~button /\ dropped = Steps
    /\ Mac!DragStopsWhereItIs

LEMMA DragInit == ASSUME StepsAssumption, Mac!Init PROVE DragInv
BY DEF DragInv, Mac!Init, Mac!DragStopsWhereItIs

LEMMA DragStep == ASSUME StepsAssumption, DragInv, [Mac!Next]_(Mac!vars) PROVE DragInv'
<1> USE DEF DragInv, Mac!DragStopsWhereItIs, StepsAssumption
<1>1. CASE UNCHANGED Mac!vars
  BY <1>1 DEF Mac!vars, Mac!action
<1>2. CASE Mac!Cancel
  BY <1>2 DEF Mac!Cancel, Mac!action
<1>3. CASE Mac!Check
  BY <1>3 DEF Mac!Check, Mac!action, Mac!End, Mac!Goto, Mac!VERIFY_ACTIONS
<1>4. CASE Mac!Once
  BY <1>4 DEF Mac!Once, Mac!action
<1>5. CASE Mac!TypeQuartz \/ Mac!TypeScript
  BY <1>5 DEF Mac!TypeQuartz, Mac!TypeScript, Mac!TypeChunk, Mac!Restart, Mac!action
<1>6. CASE Mac!Press
  BY <1>6 DEF Mac!Press, Mac!End, Mac!Goto, Mac!action
<1>7. CASE Mac!Drag
  BY <1>7 DEF Mac!Drag, Mac!LetGo, Mac!End, Mac!Goto, Mac!action, Mac!VERIFY_ACTIONS
<1>8. CASE Mac!DragFails
  BY <1>8 DEF Mac!DragFails, Mac!End, Mac!action
<1>9. CASE Mac!Verify
  BY <1>9 DEF Mac!Verify, Mac!action
<1> QED
  BY <1>1, <1>2, <1>3, <1>4, <1>5, <1>6, <1>7, <1>8, <1>9 DEF Mac!Next

\* A drag ends at its destination exactly when nothing stopped it on the way, and then and when
\* it was cancelled with the button up, however long it is and whenever the cancel comes; only
\* one that Quartz fails half-way may leave the button down (computer/cua.py).
THEOREM DragsLetGoWhereTheyAre ==
    ASSUME StepsAssumption PROVE Mac!Spec => []Mac!DragStopsWhereItIs
<1>1. Mac!Init => DragInv
  BY DragInit
<1>2. DragInv /\ [Mac!Next]_(Mac!vars) => DragInv'
  BY DragStep
<1>3. DragInv => Mac!DragStopsWhereItIs
  BY DEF DragInv
<1> QED
  BY <1>1, <1>2, <1>3, PTL DEF Mac!Spec
=============================================================================
