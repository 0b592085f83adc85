---------------------------- MODULE PlanningProofs ----------------------------
(* Theorems about Planning, for any orders, lines, workers and number of      *)
(* days: no line is booked twice, and a plan plans its order.                 *)
EXTENDS Planning, TLAPS, FiniteSetTheorems, WellFoundedInduction

-----------------------------------------------------------------------------
(* Least and greatest elements *)

\* Every set of natural numbers that has an element has a least one, and Min
\* is it.
LEMMA MinIsLeast ==
  ASSUME NEW S \in SUBSET Nat, S # {}
  PROVE  Min(S) \in S /\ \A k \in S : Min(S) <= k
<1> DEFINE R == OpToRel(<, Nat)
<1>1. IsWellFoundedOn(R, Nat)
  BY NatLessThanWellFounded
<1>2. \A x, y \in Nat : x < y => <<x, y>> \in R
  BY DEF OpToRel
<1> HIDE DEF R
<1>3. PICK m \in S : \A k \in S : ~ (<<k, m>> \in R)
  BY <1>1, WFMin
<1>4. ASSUME NEW k \in S PROVE m <= k
  <2>1. ~(k < m)
    BY <1>2, <1>3
  <2>2. k \in Nat /\ m \in Nat
    OBVIOUS
  <2> QED BY <2>1, <2>2
<1>5. m \in S /\ \A k \in S : m =< k
  BY <1>4
<1> QED BY <1>5 DEF Min

\* An element that no other exceeds is the maximum.
LEMMA MaxIs ==
  ASSUME NEW S \in SUBSET Int, NEW m \in S, \A k \in S : k <= m
  PROVE  Max(S) = m
<1>1. ASSUME NEW x \in S, \A y \in S : x >= y PROVE x = m
  <2>1. x >= m /\ x <= m /\ x \in Int /\ m \in Int
    BY <1>1
  <2> QED BY <2>1
<1>2. m \in S /\ \A y \in S : m >= y
  OBVIOUS
<1> QED BY <1>1, <1>2 DEF Max

\* The positive part of a number.
LEMMA MaxOfZero ==
  ASSUME NEW x \in Int
  PROVE  /\ Max({0, x}) = IF x > 0 THEN x ELSE 0
         /\ Max({0, x}) \in Nat
<1>1. CASE x > 0
  <2>1. \A k \in {0, x} : k <= x
    BY <1>1
  <2>2. {0, x} \in SUBSET Int /\ x \in {0, x}
    OBVIOUS
  <2>3. Max({0, x}) = x
    BY <2>1, <2>2, MaxIs
  <2> QED BY <1>1, <2>3
<1>2. CASE ~(x > 0)
  <2>1. \A k \in {0, x} : k <= 0
    BY <1>2
  <2>2. {0, x} \in SUBSET Int /\ 0 \in {0, x}
    OBVIOUS
  <2>3. Max({0, x}) = 0
    BY <2>1, <2>2, MaxIs
  <2> QED BY <1>2, <2>3
<1> QED BY <1>1, <1>2

\* The larger of two numbers.
LEMMA MaxOfTwo ==
  ASSUME NEW x \in Int, NEW y \in Int
  PROVE  Max({x, y}) = IF x >= y THEN x ELSE y
<1>1. {x, y} \in SUBSET Int /\ x \in {x, y} /\ y \in {x, y}
  OBVIOUS
<1>2. CASE x >= y
  <2>1. \A k \in {x, y} : k <= x
    BY <1>2
  <2>2. Max({x, y}) = x
    BY <1>1, <2>1, MaxIs
  <2> QED BY <1>2, <2>2
<1>3. CASE ~(x >= y)
  <2>1. \A k \in {x, y} : k <= y
    BY <1>3
  <2>2. Max({x, y}) = y
    BY <1>1, <2>1, MaxIs
  <2> QED BY <1>3, <2>2
<1> QED BY <1>2, <1>3

\* A finite set of natural numbers that has an element has a greatest one.
LEMMA GreatestOf ==
  ASSUME NEW S \in SUBSET Nat, IsFiniteSet(S), S # {}
  PROVE  \E m \in S : \A k \in S : k <= m
<1> DEFINE Without0(T) == T # {} /\ \A m \in T : ~ \A k \in T : k <= m
           Bad == {n \in Nat : \E T \in SUBSET S : Cardinality(T) = n /\ Without0(T)}
<1>1. SUFFICES ASSUME Without0(S) PROVE FALSE
  OBVIOUS
<1>2. Cardinality(S) \in Bad
  BY <1>1, FS_CardinalityType
<1>3. Bad \in SUBSET Nat /\ Bad # {}
  BY <1>2
<1>4. Min(Bad) \in Bad /\ \A n \in Bad : Min(Bad) <= n
  <2> HIDE DEF Bad
  <2> QED BY <1>3, MinIsLeast
<1>5. PICK T \in SUBSET S : Cardinality(T) = Min(Bad) /\ Without0(T)
  BY <1>4
<1>6. PICK x \in T : TRUE
  BY <1>5
<1>7. IsFiniteSet(T) /\ IsFiniteSet(T \ {x}) /\ Cardinality(T \ {x}) = Cardinality(T) - 1
  <2>1. IsFiniteSet(T)
    BY FS_Subset
  <2> QED BY <1>6, <2>1, FS_RemoveElement
<1>8. Cardinality(T \ {x}) \in Nat /\ Min(Bad) \in Nat
  BY <1>4, <1>7, FS_CardinalityType
<1>9. Cardinality(T \ {x}) < Min(Bad)
  BY <1>5, <1>7, <1>8
<1>10. Cardinality(T \ {x}) \notin Bad
  <2> HIDE DEF Bad
  <2> QED BY <1>4, <1>8, <1>9
<1>11. ~Without0(T \ {x})
  BY <1>8, <1>10
<1>12. CASE T \ {x} = {}
  <2>1. \A k \in T : k <= x
    BY <1>12
  <2> QED BY <1>5, <2>1
<1>13. CASE T \ {x} # {}
  <2>1. PICK m \in T \ {x} : \A k \in T \ {x} : k <= m
    BY <1>11, <1>13
  <2>2. x \in Nat /\ m \in Nat /\ \A k \in T : k \in Nat
    OBVIOUS
  <2>3. CASE x <= m
    <3>1. \A k \in T : k <= m
      BY <2>1, <2>3
    <3> QED BY <1>5, <3>1
  <2>4. CASE ~(x <= m)
    <3>1. \A k \in T : k <= x
      BY <2>1, <2>2, <2>4
    <3> QED BY <1>5, <3>1
  <2> QED BY <2>3, <2>4
<1> QED BY <1>12, <1>13

\* The maximum of a finite set of natural numbers is one of them.
LEMMA MaxIsGreatest ==
  ASSUME NEW S \in SUBSET Nat, IsFiniteSet(S), S # {}
  PROVE  Max(S) \in S /\ \A k \in S : k <= Max(S)
<1>1. PICK m \in S : \A k \in S : k <= m
  BY GreatestOf
<1>2. S \in SUBSET Int
  OBVIOUS
<1>3. Max(S) = m
  BY <1>1, <1>2, MaxIs
<1> QED BY <1>1, <1>3

-----------------------------------------------------------------------------
(* The best candidate *)

\* Candidates on different lines, for finitely many lines.
Comparable(cs) ==
  /\ IsFiniteSet(cs) /\ cs # {}
  /\ \A a \in cs : a.end \in Nat /\ a.dailyOutput \in Nat /\ a.line \in Nat
  /\ \A a, b \in cs : a.line = b.line => a = b

LEMMA Picked ==
  ASSUME NEW cs, Comparable(cs)
  PROVE  pickBestCandidate(cs) \in cs
<1> DEFINE Ends == {a.end : a \in cs}
           Es == {a \in cs : a.end = Min(Ends)}
           Outs == {a.dailyOutput : a \in Es}
           Os == {a \in Es : a.dailyOutput = Max(Outs)}
           Ids == {a.line : a \in Os}
<1>1. Ends \in SUBSET Nat /\ Ends # {}
  BY DEF Comparable
<1>2. Min(Ends) \in Ends /\ \A n \in Ends : Min(Ends) <= n
  <2> HIDE DEF Ends
  <2> QED BY <1>1, MinIsLeast
<1>3. Es # {} /\ \A a \in cs : Min(Ends) <= a.end
  BY <1>2
<1>4. Outs \in SUBSET Nat /\ Outs # {} /\ IsFiniteSet(Outs)
  <2>1. IsFiniteSet(Es)
    BY FS_Subset DEF Comparable
  <2>2. IsFiniteSet(Outs)
    <3> DEFINE g == [a \in Es |-> a.dailyOutput]
    <3>1. g \in Surjection(Es, Outs)
      BY DEF Surjection
    <3> HIDE DEF g, Es, Outs
    <3> QED BY <2>1, <3>1, FS_Surjection
  <2> QED BY <1>3, <2>2 DEF Comparable
<1>5. Max(Outs) \in Outs /\ \A n \in Outs : n <= Max(Outs)
  <2> HIDE DEF Outs
  <2> QED BY <1>4, MaxIsGreatest
<1>6. Os # {} /\ \A a \in Es : a.dailyOutput <= Max(Outs)
  BY <1>5
<1>7. Ids \in SUBSET Nat /\ Ids # {}
  <2>1. \A a \in Os : a \in cs /\ a.line \in Nat
    BY DEF Comparable
  <2> HIDE DEF Os
  <2> QED BY <1>6, <2>1
<1>8. Min(Ids) \in Ids /\ \A n \in Ids : Min(Ids) <= n
  <2> HIDE DEF Ids
  <2> QED BY <1>7, MinIsLeast
<1>9. PICK a \in Os : a.line = Min(Ids)
  BY <1>8
<1>10. \A b \in Os : a.line <= b.line
  BY <1>8, <1>9
<1>11. a \in cs /\ a.end = Min(Ends) /\ a.dailyOutput = Max(Outs)
  BY <1>9
<1>12. ASSUME NEW b \in cs \ {a} PROVE Better(a, b)
  <2>1. /\ a.end \in Nat /\ a.dailyOutput \in Nat /\ a.line \in Nat /\ a.line # b.line
        /\ b.end \in Nat /\ b.dailyOutput \in Nat /\ b.line \in Nat
    BY <1>11, <1>12 DEF Comparable
  <2>2. a.end <= b.end
    BY <1>3, <1>11, <1>12
  <2>3. a.end = b.end => b \in Es
    BY <1>11, <1>12
  <2>4. a.end = b.end => b.dailyOutput <= a.dailyOutput
    BY <1>6, <1>11, <2>3
  <2>5. a.end = b.end /\ a.dailyOutput = b.dailyOutput => a.line <= b.line
    BY <1>10, <1>11, <2>3
  <2> HIDE DEF Es, Os, Outs, Ids, Ends
  <2> QED BY <2>1, <2>2, <2>4, <2>5 DEF Better
<1> QED BY <1>11, <1>12 DEF pickBestCandidate

-----------------------------------------------------------------------------
(* Arithmetic of a candidate *)

LEMMA DivIs ==
  ASSUME NEW a \in Nat, NEW b \in Nat \ {0}
  PROVE  /\ a \div b \in Nat /\ (a \div b) * b <= a
         /\ a < (a \div b) * b + b
OBVIOUS

LEMMA ProductType ==
  ASSUME NEW a \in Nat, NEW b \in Nat
  PROVE  a * b \in Nat
OBVIOUS

LEMMA ProductGrows ==
  ASSUME NEW a \in Nat, NEW b \in Nat, NEW k \in Nat, a <= b
  PROVE  a * k <= b * k /\ k * a <= k * b
OBVIOUS

LEMMA ProductShrinks ==
  ASSUME NEW a \in Nat, NEW b \in Nat, NEW k \in Nat \ {0}, a * k < b * k
  PROVE  a < b
OBVIOUS

LEMMA ProductPositive ==
  ASSUME NEW a \in Nat \ {0}, NEW b \in Nat \ {0}
  PROVE  a * b \in Nat \ {0}
OBVIOUS

LEMMA MoreThanNone ==
  ASSUME NEW a \in Nat, NEW b \in Nat, NEW k \in Nat, k * a > 0
  PROVE  a > 0 /\ k > 0
OBVIOUS

\* Rounding to hundredths loses less than half of one.
LEMMA RoundIs ==
  ASSUME NEW num \in Nat, NEW den \in Nat \ {0}
  PROVE  /\ round2([num |-> num, den |-> den]) \in Nat
         /\ 200 * num < (2 * round2([num |-> num, den |-> den]) + 1) * den
<1> DEFINE a == 200 * num + den
           b == 2 * den
           D == a \div b
<1>1. round2([num |-> num, den |-> den]) = D
  BY DEF round2
<1>2. a \in Nat /\ b \in Nat \ {0}
  OBVIOUS
<1>3. D \in Nat /\ a < D * b + b
  <2> HIDE DEF a, b
  <2> QED BY <1>2, DivIs
<1> HIDE DEF D
<1>4. D * b = 2 * (D * den) /\ (2 * D + 1) * den = 2 * (D * den) + den
  BY <1>3
<1>5. D * den \in Nat
  BY <1>3, ProductType
<1>6. 200 * num < (2 * D + 1) * den
  BY <1>3, <1>4, <1>5
<1> QED BY <1>1, <1>3, <1>6

\* The days suffice for the exact output, and there is at least one.
LEMMA DaysAre ==
  ASSUME NEW qty \in Nat \ {0}, NEW num \in Nat \ {0}, NEW den \in Nat \ {0}
  PROVE  /\ daysNeeded(qty, [num |-> num, den |-> den]) \in Nat \ {0}
         /\ qty * den <= daysNeeded(qty, [num |-> num, den |-> den]) * num
<1> DEFINE q == qty * den
           a == q + num - 1
           N == a \div num
<1>1. daysNeeded(qty, [num |-> num, den |-> den]) = N
  BY DEF daysNeeded, CeilDiv
<1>2. q \in Nat \ {0}
  BY ProductPositive
<1> HIDE DEF q
<1>3. a \in Nat
  BY <1>2
<1>4. N \in Nat /\ a < N * num + num
  <2> HIDE DEF a
  <2> QED BY <1>3, DivIs
<1> HIDE DEF N
<1>5. N * num \in Nat
  BY <1>4, ProductType
<1>6. q <= N * num
  BY <1>2, <1>4, <1>5
<1>7. N > 0
  BY <1>2, <1>4, <1>5, <1>6, MoreThanNone
<1> QED BY <1>1, <1>4, <1>6, <1>7 DEF q

\* N days of D hundredths and a half more each are more than the quantity.
LEMMA DaysCover ==
  ASSUME NEW qty \in Nat, NEW num \in Nat, NEW den \in Nat \ {0}, NEW N \in Nat \ {0}, NEW K \in Nat,
         200 * num < K * den, qty * den <= N * num
  PROVE  200 * qty < N * K
<1>1. /\ N * num \in Nat /\ qty * den \in Nat /\ K * den \in Nat /\ N * K \in Nat
      /\ N * (K * den) \in Nat /\ 200 * num \in Nat
  BY ProductType
<1>2. N * (200 * num) < N * (K * den)
  OBVIOUS
<1>3. N * (200 * num) = 200 * (N * num) /\ N * (K * den) = (N * K) * den
      /\ 200 * (qty * den) = (200 * qty) * den
  OBVIOUS
<1>4. 200 * (qty * den) <= 200 * (N * num)
  BY <1>1
<1>5. (200 * qty) * den < (N * K) * den
  BY <1>1, <1>2, <1>3, <1>4
<1> QED BY <1>1, <1>5, ProductShrinks

-----------------------------------------------------------------------------
(* What a pass assigns *)

Entry == [order : Orders, line : Lines, start : Nat, dailyOutput : Nat, end : Nat]

\* A schedule of o ends no sooner than it starts, and its days, each of the
\* rounded output and half a hundredth, are enough for o.
Enough(o, s) ==
  /\ s.start \in Nat /\ s.end \in Nat /\ s.dailyOutput \in Nat /\ s.start <= s.end
  /\ 200 * OrderOf[o].qty < (s.end - s.start + 1) * (2 * s.dailyOutput + 1)

LEMMA OutputType ==
  ASSUME NEW o \in Orders, NEW l \in Lines, NEW present \in Nat
  PROVE  \E num \in Nat, den \in Nat \ {0} :
           computeDailyOutput(o, l, present) = [num |-> num, den |-> den]
<1> DEFINE need == OrderOf[o].manpowerRequired
           eff == LineOf[l].efficiencyPct
           takt == OrderOf[o].taktTimeSec
           num == IF need > 0 THEN DaySeconds * eff * Min({need, present}) ELSE 0
           den == takt * 100 * Max({need, 1})
<1>1. need \in Int /\ eff \in Nat /\ takt \in Nat \ {0} /\ DaySeconds \in Nat
  BY PlanningAssumption
<1> HIDE DEF need, eff, takt
<1>2. num \in Nat
  <2>1. CASE need > 0
    <3>1. {need, present} \in SUBSET Nat /\ {need, present} # {}
      BY <1>1, <2>1
    <3>2. Min({need, present}) \in {need, present}
      BY <3>1, MinIsLeast
    <3>3. Min({need, present}) \in Nat
      BY <3>1, <3>2
    <3>4. DaySeconds * eff \in Nat
      BY <1>1, ProductType
    <3>5. (DaySeconds * eff) * Min({need, present}) \in Nat
      BY <3>3, <3>4, ProductType
    <3> QED BY <2>1, <3>5
  <2> QED BY <2>1
<1>3. den \in Nat \ {0}
  <2>1. Max({need, 1}) \in Nat \ {0}
    BY <1>1, MaxOfTwo
  <2>2. takt * 100 \in Nat \ {0}
    BY <1>1
  <2> QED BY <2>1, <2>2, ProductPositive
<1>4. computeDailyOutput(o, l, present) = [num |-> num, den |-> den]
  BY DEF computeDailyOutput, need, eff, takt
<1> HIDE DEF num, den
<1> QED BY <1>2, <1>3, <1>4

LEMMA CandidateOK ==
  ASSUME NEW o \in Orders, NEW l \in Lines, NEW present \in Nat, NEW from \in Nat,
         NEW a \in Candidate(o, l, present, from)
  PROVE  a \in Entry /\ a.order = o /\ a.line = l /\ a.start = from /\ Enough(o, a)
<1>1. PICK num \in Nat, den \in Nat \ {0} :
        computeDailyOutput(o, l, present) = [num |-> num, den |-> den]
  BY OutputType
<1> DEFINE out == [num |-> num, den |-> den]
           N == daysNeeded(OrderOf[o].qty, out)
           D == round2(out)
<1>2. /\ num # 0
      /\ a = [order |-> o, line |-> l, start |-> from, dailyOutput |-> D, end |-> from + N - 1]
  <2>1. computeDailyOutput(o, l, present) = out /\ out.num = num
    BY <1>1
  <2>2. Candidate(o, l, present, from) =
          IF out.num = 0 THEN {}
          ELSE {[order |-> o, line |-> l, start |-> from, dailyOutput |-> D, end |-> from + N - 1]}
    BY <2>1 DEF Candidate
  <2> HIDE DEF out
  <2> QED BY <2>1, <2>2
<1>3. OrderOf[o].qty \in Nat \ {0} /\ num \in Nat \ {0}
  BY <1>2, PlanningAssumption
<1>4. D \in Nat /\ 200 * num < (2 * D + 1) * den
  BY RoundIs
<1>5. N \in Nat \ {0} /\ OrderOf[o].qty * den <= N * num
  BY <1>3, DaysAre
<1> HIDE DEF N, D
<1>6. 200 * OrderOf[o].qty < N * (2 * D + 1)
  <2>1. 2 * D + 1 \in Nat /\ OrderOf[o].qty \in Nat /\ num \in Nat
    BY <1>3, <1>4
  <2> QED BY <1>4, <1>5, <2>1, DaysCover
<1>7. from + N - 1 \in Nat /\ from <= from + N - 1 /\ (from + N - 1) - from + 1 = N
  BY <1>5
<1>8. /\ a.order = o /\ a.line = l /\ a.start = from /\ a.dailyOutput = D /\ a.end = from + N - 1
      /\ a \in Entry
  BY <1>2, <1>4, <1>7 DEF Entry
<1> QED BY <1>4, <1>6, <1>7, <1>8 DEF Enough

LEMMA OneCandidate ==
  ASSUME NEW o, NEW l, NEW present, NEW from
  PROVE  \A a, b \in Candidate(o, l, present, from) : a = b
BY DEF Candidate

LEMMA CandidateFinite ==
  ASSUME NEW o, NEW l, NEW present, NEW from
  PROVE  IsFiniteSet(Candidate(o, l, present, from))
<1>1. Candidate(o, l, present, from) = {} \/ \E a : Candidate(o, l, present, from) = {a}
  BY DEF Candidate
<1>2. IsFiniteSet({}) /\ \A a : IsFiniteSet({a})
  BY FS_EmptySet, FS_Singleton
<1> QED BY <1>1, <1>2, Zenon

\* Where a pass has come to: the lines it found free from avail on.
PassOK(acc, avail) ==
  /\ acc.avail \in [Lines -> Nat] /\ \A l \in Lines : avail[l] <= acc.avail[l]
  /\ acc.out \in Seq(Entry)
  /\ \A i \in DOMAIN acc.out : LET a == acc.out[i] IN
       Enough(a.order, a) /\ avail[a.line] <= a.start /\ a.end < acc.avail[a.line]
  /\ \A i, j \in DOMAIN acc.out :
       i < j /\ acc.out[i].line = acc.out[j].line => acc.out[i].end < acc.out[j].start

\* The candidates of order o.
Fitting(o, present, from) ==
  UNION {Candidate(o, l, present[l], from[l]) :
         l \in {x \in Lines : OrderOf[o].type \in LineOf[x].compatibleProductTypes}}

Chosen(a, from) == a \in Entry /\ Enough(a.order, a) /\ a.start = from[a.line]

LEMMA ChosenOK ==
  ASSUME NEW o \in Orders, NEW present \in [Lines -> Nat], NEW from \in [Lines -> Nat],
         Fitting(o, present, from) # {}
  PROVE  Chosen(pickBestCandidate(Fitting(o, present, from)), from)
<1> DEFINE cs == Fitting(o, present, from)
           Ls == {x \in Lines : OrderOf[o].type \in LineOf[x].compatibleProductTypes}
           C(l) == Candidate(o, l, present[l], from[l])
<1>1. \A l \in Ls : \A a \in C(l) :
        a \in Entry /\ a.order = o /\ a.line = l /\ a.start = from[l] /\ Enough(o, a)
  BY CandidateOK
<1>2. \A a \in cs : \E l \in Ls : a \in C(l)
  BY DEF Fitting
<1>3. IsFiniteSet(cs)
  <2> DEFINE T == {C(l) : l \in Ls}
             g == [l \in Ls |-> C(l)]
  <2>1. IsFiniteSet(Ls)
    BY FS_Subset, PlanningAssumption
  <2>2. g \in Surjection(Ls, T)
    BY DEF Surjection
  <2>3. \A X \in T : IsFiniteSet(X)
    BY CandidateFinite
  <2>4. cs = UNION T
    BY DEF Fitting
  <2> HIDE DEF T, g, C, Ls, cs
  <2>5. IsFiniteSet(T)
    BY <2>1, <2>2, FS_Surjection
  <2> QED BY <2>3, <2>4, <2>5, FS_UNION
<1>4. \A a, b \in cs : a.line = b.line => a = b
  <2> SUFFICES ASSUME NEW a \in cs, NEW b \in cs, a.line = b.line PROVE a = b
    OBVIOUS
  <2>1. PICK k \in Ls : a \in C(k)
    BY <1>2
  <2>2. PICK l \in Ls : b \in C(l)
    BY <1>2
  <2>3. k = l
    BY <1>1, <2>1, <2>2
  <2> QED BY <2>1, <2>2, <2>3, OneCandidate
<1>a. cs # {}
  OBVIOUS
<1> HIDE DEF C, cs
<1>5. Comparable(cs)
  <2>1. \A a \in cs : a.end \in Nat /\ a.dailyOutput \in Nat /\ a.line \in Nat
    BY <1>1, <1>2, PlanningAssumption DEF Entry
  <2> QED BY <1>a, <1>3, <1>4, <2>1 DEF Comparable
<1>6. pickBestCandidate(cs) \in cs
  BY <1>5, Picked
<1>7. Chosen(pickBestCandidate(cs), from)
  BY <1>1, <1>2, <1>6 DEF Chosen
<1> QED BY <1>7 DEF cs

LEMMA AssignedOK ==
  ASSUME NEW o \in Orders, NEW present \in [Lines -> Nat], NEW avail \in [Lines -> Nat],
         NEW acc, PassOK(acc, avail)
  PROVE  PassOK(Assigned(acc, o, present), avail)
<1> DEFINE cs == Fitting(o, present, acc.avail)
           a == pickBestCandidate(cs)
           free == AvailableAfter(acc.avail, a)
           out == Append(acc.out, a)
<1>0. acc.avail \in [Lines -> Nat] /\ \A l \in Lines : avail[l] <= acc.avail[l] /\ avail[l] \in Nat
  BY DEF PassOK
<1>1. CASE cs = {}
  <2>1. Assigned(acc, o, present) = acc
    BY <1>1 DEF Assigned, Fitting
  <2> QED BY <2>1
<1>2. CASE cs # {}
  <2>1. Assigned(acc, o, present) = [avail |-> free, out |-> out]
    BY <1>2 DEF Assigned, Fitting
  <2>2. a \in Entry /\ Enough(a.order, a) /\ a.start = acc.avail[a.line]
    BY <1>0, <1>2, ChosenOK DEF Chosen
  <2> HIDE DEF cs, a
  <2>3. a.line \in Lines /\ a.end \in Nat /\ a.start <= a.end /\ a.start \in Nat
    BY <2>2 DEF Entry, Enough
  <2>4. /\ free \in [Lines -> Nat] /\ free[a.line] = a.end + 1
        /\ \A l \in Lines : l # a.line => free[l] = acc.avail[l]
    BY <1>0, <2>3 DEF AvailableAfter
  <2>5. \A l \in Lines : acc.avail[l] <= free[l] /\ acc.avail[l] \in Nat /\ free[l] \in Nat
    BY <1>0, <2>2, <2>3, <2>4
  <2>6. \A l \in Lines : avail[l] <= free[l]
    BY <1>0, <2>5
  <2> DEFINE n == Len(acc.out)
  <2>7. /\ out \in Seq(Entry) /\ acc.out \in Seq(Entry) /\ n \in Nat /\ DOMAIN acc.out = 1..n
        /\ DOMAIN out = 1..(n + 1) /\ out[n + 1] = a /\ \A i \in 1..n : out[i] = acc.out[i]
    BY <2>2 DEF PassOK
  <2>8. \A i \in 1..n : /\ acc.out[i].line \in Lines /\ acc.out[i].end \in Nat
                        /\ Enough(acc.out[i].order, acc.out[i])
                        /\ avail[acc.out[i].line] <= acc.out[i].start
                        /\ acc.out[i].end < acc.avail[acc.out[i].line]
    <3> SUFFICES ASSUME NEW i \in 1..n
                 PROVE  /\ acc.out[i].line \in Lines /\ acc.out[i].end \in Nat
                        /\ Enough(acc.out[i].order, acc.out[i])
                        /\ avail[acc.out[i].line] <= acc.out[i].start
                        /\ acc.out[i].end < acc.avail[acc.out[i].line]
      OBVIOUS
    <3>1. i \in DOMAIN acc.out /\ acc.out[i] \in Entry
      BY <2>7
    <3>2. acc.out[i].line \in Lines /\ acc.out[i].end \in Nat
      BY <3>1 DEF Entry
    <3> QED BY <3>1, <3>2 DEF PassOK
  <2> HIDE DEF n, out, free
  <2>9. ASSUME NEW i \in DOMAIN out
        PROVE  /\ Enough(out[i].order, out[i]) /\ avail[out[i].line] <= out[i].start
               /\ out[i].end < free[out[i].line]
    <3>1. CASE i \in 1..n
      <4>1. /\ out[i] = acc.out[i] /\ acc.out[i].line \in Lines /\ acc.out[i].end \in Nat
            /\ acc.out[i].end < acc.avail[acc.out[i].line]
        BY <2>7, <2>8, <3>1
      <4>2. acc.out[i].end < free[acc.out[i].line]
        BY <2>5, <4>1
      <4> QED BY <2>8, <3>1, <4>1, <4>2
    <3>2. CASE i = n + 1
      <4>1. avail[a.line] <= a.start
        BY <1>0, <2>2, <2>3
      <4>2. a.end < free[a.line]
        BY <2>3, <2>4
      <4> QED BY <2>2, <2>7, <3>2, <4>1, <4>2
    <3> QED BY <2>7, <3>1, <3>2
  <2>10. ASSUME NEW i \in DOMAIN out, NEW j \in DOMAIN out, i < j, out[i].line = out[j].line
         PROVE  out[i].end < out[j].start
    <3>1. i \in 1..n
      BY <2>7, <2>10
    <3>2. CASE j \in 1..n
      BY <2>7, <2>10, <3>1, <3>2 DEF PassOK
    <3>3. CASE j = n + 1
      BY <2>2, <2>7, <2>8, <2>10, <3>1, <3>3
    <3> QED BY <2>7, <3>2, <3>3
  <2> QED BY <2>1, <2>4, <2>6, <2>7, <2>9, <2>10 DEF PassOK
<1> QED BY <1>1, <1>2

\* The orders of a pass are taken one after the other, from the lines as found.
IsPass(g, n, sorted, present, avail) ==
  /\ DOMAIN g = 0..n /\ g[0] = [avail |-> avail, out |-> << >>]
  /\ \A i \in 1..n : g[i] = Assigned(g[i - 1], sorted[i], present)

\* The recursive definition of a pass has a solution: of the numbers of orders
\* for which it had none there would be a least one.
LEMMA PassExists ==
  ASSUME NEW sorted, NEW present, NEW avail, NEW n \in Nat
  PROVE  \E g : IsPass(g, n, sorted, present, avail)
<1> DEFINE Has(k) == \E g : IsPass(g, k, sorted, present, avail)
           Bad == {k \in Nat : ~Has(k)}
<1>1. SUFFICES ASSUME ~Has(n) PROVE FALSE
  OBVIOUS
<1>2. Bad \in SUBSET Nat /\ Bad # {}
  <2> HIDE DEF Has
  <2> QED BY <1>1
<1>3. Min(Bad) \in Bad /\ \A k \in Bad : Min(Bad) <= k
  <2> HIDE DEF Bad
  <2> QED BY <1>2, MinIsLeast
<1> DEFINE m == Min(Bad)
<1>4. m \in Nat /\ ~Has(m) /\ \A k \in Bad : m <= k
  <2> HIDE DEF Has
  <2> QED BY <1>3
<1> HIDE DEF m
<1>5. CASE m = 0
  <2> DEFINE g == [i \in 0..0 |-> [avail |-> avail, out |-> << >>]]
  <2>1. DOMAIN g = 0..0 /\ g[0] = [avail |-> avail, out |-> << >>]
    OBVIOUS
  <2>2. IsPass(g, 0, sorted, present, avail)
    <3> HIDE DEF g
    <3> QED BY <2>1 DEF IsPass
  <2> QED BY <1>4, <1>5, <2>2
<1>6. CASE m # 0
  <2>1. m - 1 \in Nat /\ m - 1 < m
    BY <1>4, <1>6
  <2>2. m - 1 \notin Bad
    <3> HIDE DEF Bad
    <3> QED BY <1>4, <2>1
  <2>3. Has(m - 1)
    <3> HIDE DEF Has
    <3> QED BY <2>1, <2>2
  <2>4. PICK h : IsPass(h, m - 1, sorted, present, avail)
    BY <2>3
  <2> DEFINE g == [i \in 0..m |-> IF i < m THEN h[i] ELSE Assigned(h[m - 1], sorted[m], present)]
  <2>5. /\ DOMAIN g = 0..m /\ g[m] = Assigned(h[m - 1], sorted[m], present)
        /\ \A i \in 0..(m - 1) : g[i] = h[i]
    BY <1>4, <1>6
  <2> HIDE DEF g
  <2>6. g[0] = [avail |-> avail, out |-> << >>]
    BY <2>1, <2>4, <2>5 DEF IsPass
  <2>7. ASSUME NEW i \in 1..m PROVE g[i] = Assigned(g[i - 1], sorted[i], present)
    <3>1. CASE i = m
      <4>1. g[m - 1] = h[m - 1]
        BY <2>1, <2>5
      <4> QED BY <2>5, <3>1, <4>1
    <3>2. CASE i # m
      <4>1. i \in 1..(m - 1) /\ i \in 0..(m - 1) /\ i - 1 \in 0..(m - 1)
        BY <1>4, <3>2
      <4>2. h[i] = Assigned(h[i - 1], sorted[i], present)
        BY <2>4, <4>1 DEF IsPass
      <4> QED BY <2>5, <4>1, <4>2
    <3> QED BY <3>1, <3>2
  <2>8. IsPass(g, m, sorted, present, avail)
    BY <2>5, <2>6, <2>7 DEF IsPass
  <2> QED BY <1>4, <2>8
<1> QED BY <1>5, <1>6

LEMMA PassUnfolds ==
  ASSUME NEW sorted, NEW present, NEW avail, Len(sorted) \in Nat
  PROVE  IsPass(PassAfter(sorted, present, avail), Len(sorted), sorted, present, avail)
<1> DEFINE n == Len(sorted)
           Solves(f) == f = [i \in 0..n |->
             IF i = 0 THEN [avail |-> avail, out |-> << >>] ELSE Assigned(f[i - 1], sorted[i], present)]
<1>1. PassAfter(sorted, present, avail) = CHOOSE f : Solves(f)
  BY DEF PassAfter
<1>2. PICK h : IsPass(h, n, sorted, present, avail)
  BY PassExists
<1> DEFINE g == [i \in 0..n |-> h[i]]
<1>3. Solves(g)
  <2>1. ASSUME NEW i \in 0..n
        PROVE  g[i] = IF i = 0 THEN [avail |-> avail, out |-> << >>]
                      ELSE Assigned(g[i - 1], sorted[i], present)
    <3>1. CASE i = 0
      BY <1>2, <3>1 DEF IsPass
    <3>2. CASE i # 0
      <4>1. i \in 1..n /\ i - 1 \in 0..n
        BY <3>2
      <4>2. h[i] = Assigned(h[i - 1], sorted[i], present)
        BY <1>2, <4>1 DEF IsPass
      <4> QED BY <3>2, <4>1, <4>2
    <3> QED BY <3>1, <3>2
  <2> QED BY <2>1
<1>4. Solves(PassAfter(sorted, present, avail))
  <2> HIDE DEF Solves, g
  <2> QED BY <1>1, <1>3
<1> DEFINE f == PassAfter(sorted, present, avail)
<1>5. f = [i \in 0..n |->
             IF i = 0 THEN [avail |-> avail, out |-> << >>] ELSE Assigned(f[i - 1], sorted[i], present)]
  BY <1>4
<1> HIDE DEF f, n
<1>6. /\ DOMAIN f = 0..n
      /\ \A i \in 0..n : f[i] =
           IF i = 0 THEN [avail |-> avail, out |-> << >>] ELSE Assigned(f[i - 1], sorted[i], present)
  BY <1>5
<1>7. n \in Nat
  BY DEF n
<1>8. f[0] = [avail |-> avail, out |-> << >>]
  BY <1>6, <1>7
<1>9. ASSUME NEW i \in 1..n PROVE f[i] = Assigned(f[i - 1], sorted[i], present)
  <2>1. i \in 0..n /\ i # 0
    BY <1>7
  <2> QED BY <1>6, <2>1
<1>10. IsPass(f, n, sorted, present, avail)
  BY <1>6, <1>8, <1>9 DEF IsPass
<1> QED BY <1>10 DEF f, n

\* All that a pass assigns is in order.
LEMMA PassIsOK ==
  ASSUME NEW sorted \in Seq(Orders), NEW present \in [Lines -> Nat], NEW avail \in [Lines -> Nat]
  PROVE  \E free : PassOK([avail |-> free, out |-> runSchedulingPass(sorted, present, avail)], avail)
<1> DEFINE g == PassAfter(sorted, present, avail)
           n == Len(sorted)
           Bad == {k \in 0..n : ~PassOK(g[k], avail)}
<1>1. n \in Nat /\ \A i \in 1..n : sorted[i] \in Orders
  OBVIOUS
<1>2. IsPass(g, n, sorted, present, avail)
  BY <1>1, PassUnfolds
<1> HIDE DEF g, n
<1>3. PassOK(g[0], avail)
  <2>1. g[0] = [avail |-> avail, out |-> << >>]
    BY <1>2 DEF IsPass
  <2>2. g[0].avail = avail /\ g[0].out = << >>
    BY <2>1
  <2>3. << >> \in Seq(Entry) /\ DOMAIN << >> = {}
    OBVIOUS
  <2>4. \A l \in Lines : avail[l] <= avail[l]
    <3>1. \A l \in Lines : avail[l] \in Nat
      OBVIOUS
    <3> QED BY <3>1
  <2> QED BY <2>2, <2>3, <2>4 DEF PassOK
<1>4. Bad = {}
  <2> SUFFICES ASSUME Bad # {} PROVE FALSE
    OBVIOUS
  <2>1. Bad \in SUBSET Nat
    BY <1>1
  <2>2. Min(Bad) \in Bad /\ \A k \in Bad : Min(Bad) <= k
    <3> HIDE DEF Bad
    <3> QED BY <2>1, MinIsLeast
  <2> DEFINE m == Min(Bad)
  <2>3. m \in 0..n /\ ~PassOK(g[m], avail)
    BY <2>2
  <2>4. \A k \in Bad : m <= k
    BY <2>2
  <2> HIDE DEF m
  <2>5. m \in 1..n /\ m - 1 \in 0..n /\ m - 1 < m
    BY <1>1, <1>3, <2>3
  <2>6. m - 1 \notin Bad
    <3> HIDE DEF Bad
    <3> QED BY <1>1, <2>4, <2>5
  <2>7. PassOK(g[m - 1], avail)
    BY <2>5, <2>6
  <2>8. g[m] = Assigned(g[m - 1], sorted[m], present) /\ sorted[m] \in Orders
    BY <1>1, <1>2, <2>5 DEF IsPass
  <2> QED BY <2>3, <2>7, <2>8, AssignedOK
<1>5. PassOK(g[n], avail)
  BY <1>1, <1>4
<1>6. runSchedulingPass(sorted, present, avail) = g[n].out
  BY DEF runSchedulingPass, g, n
<1>7. PassOK([avail |-> g[n].avail, out |-> g[n].out], avail)
  BY <1>5 DEF PassOK
<1> QED BY <1>6, <1>7

-----------------------------------------------------------------------------
(* Sums as numbers of units *)

Units(f, ids) == UNION {{i} \X (1..f[i]) : i \in ids}

LEMMA UnitsIn ==
  ASSUME NEW f, NEW ids
  PROVE  \A i, n : <<i, n>> \in Units(f, ids) <=> i \in ids /\ n \in 1..f[i]
BY DEF Units

\* Finitely many summands, each a natural number.
Counts(f, ids) == IsFiniteSet(ids) /\ \A i \in ids : f[i] \in Nat

LEMMA UnitsFinite ==
  ASSUME NEW f, NEW ids, Counts(f, ids)
  PROVE  /\ IsFiniteSet(Units(f, ids))
         /\ Total(f, ids) = Cardinality(Units(f, ids)) /\ Total(f, ids) \in Nat
<1> DEFINE G == [i \in ids |-> {i} \X (1..f[i])]
           T == {{i} \X (1..f[i]) : i \in ids}
<1>1. G \in Surjection(ids, T)
  BY DEF Surjection
<1>2. IsFiniteSet(T)
  <2> HIDE DEF G, T
  <2> QED BY <1>1, FS_Surjection DEF Counts
<1>3. ASSUME NEW i \in ids PROVE IsFiniteSet({i} \X (1..f[i]))
  <2>1. IsFiniteSet(1..f[i])
    BY FS_Interval DEF Counts
  <2>2. IsFiniteSet({i})
    BY FS_Singleton
  <2> QED BY <2>1, <2>2, FS_Product
<1>4. \A X \in T : IsFiniteSet(X)
  BY <1>3
<1>5. IsFiniteSet(UNION T)
  <2> HIDE DEF T
  <2> QED BY <1>2, <1>4, FS_UNION
<1> QED BY <1>5, FS_CardinalityType DEF Units, Total

\* One summand less.
LEMMA TotalLess ==
  ASSUME NEW f, NEW ids, Counts(f, ids), NEW i \in ids
  PROVE  /\ Counts(f, ids \ {i}) /\ Total(f, ids \ {i}) \in Nat
         /\ Total(f, ids) = Total(f, ids \ {i}) + f[i]
<1> DEFINE q == f[i]
           U == Units(f, ids \ {i})
           V == {i} \X (1..q)
<1>1. Units(f, ids) = U \cup V /\ U \cap V = {}
  BY DEF Units
<1>2. q \in Nat
  BY DEF Counts
<1>0. Counts(f, ids \ {i})
  BY FS_Subset DEF Counts
<1> HIDE DEF q
<1>3. IsFiniteSet(1..q) /\ Cardinality(1..q) = q
  <2>1. Cardinality(1..q) = IF 1 > q THEN 0 ELSE q - 1 + 1
    BY <1>2, FS_Interval
  <2>2. IsFiniteSet(1..q)
    BY <1>2, FS_Interval
  <2> QED BY <1>2, <2>1, <2>2
<1>4. IsFiniteSet({i}) /\ Cardinality({i}) = 1
  BY FS_Singleton
<1>5. IsFiniteSet(V) /\ Cardinality(V) = 1 * q
  BY <1>3, <1>4, FS_Product
<1>6. Cardinality(V) = q
  BY <1>2, <1>5
<1>7. Total(f, ids) = Cardinality(U \cup V)
  BY <1>1 DEF Total, Units
<1>8. IsFiniteSet(U) /\ Total(f, ids \ {i}) = Cardinality(U) /\ Cardinality(U) \in Nat
  BY <1>0, UnitsFinite
<1> HIDE DEF U, V
<1>9. Cardinality(U \cup V) = Cardinality(U) + Cardinality(V) - Cardinality({})
  BY <1>1, <1>5, <1>8, FS_Union
<1>10. Cardinality({}) = 0
  BY FS_EmptySet
<1>11. Cardinality(U \cup V) = Cardinality(U) + q
  BY <1>2, <1>6, <1>8, <1>9, <1>10
<1> QED BY <1>0, <1>7, <1>8, <1>11 DEF q

\* The same summands.
LEMMA TotalSame ==
  ASSUME NEW f, NEW g, NEW ids, \A i \in ids : f[i] = g[i]
  PROVE  Total(f, ids) = Total(g, ids)
BY DEF Total

LEMMA TotalNone ==
  ASSUME NEW f
  PROVE  Total(f, {}) = 0
<1>1. Units(f, {}) = {}
  BY DEF Units
<1> QED BY <1>1, FS_EmptySet DEF Total, Units

\* One summand more.
LEMMA TotalMore ==
  ASSUME NEW f, NEW ids, NEW i, i \notin ids, Counts(f, ids \cup {i})
  PROVE  /\ Total(f, ids) \in Nat
         /\ Total(f, ids \cup {i}) = Total(f, ids) + f[i]
<1>1. (ids \cup {i}) \ {i} = ids
  OBVIOUS
<1> QED BY <1>1, TotalLess

-----------------------------------------------------------------------------
(* The distribution of a quantity over the days *)

LEMMA MinOfTwo ==
  ASSUME NEW x \in Nat, NEW y \in Nat
  PROVE  Min({x, y}) = IF x <= y THEN x ELSE y
<1>1. {x, y} \in SUBSET Nat /\ {x, y} # {}
  OBVIOUS
<1>2. Min({x, y}) \in {x, y} /\ \A k \in {x, y} : Min({x, y}) <= k
  BY <1>1, MinIsLeast
<1> QED BY <1>2

\* What is left after k days, when total was there.
After(total, daily, k) == IF total > k * daily THEN total - k * daily ELSE 0

LEMMA AfterDay ==
  ASSUME NEW total \in Nat, NEW daily \in Nat, NEW k \in Nat \ {0}
  PROVE  /\ After(total, daily, k) \in Nat /\ After(total, daily, k - 1) \in Nat
         /\ Max({0, total - (k - 1) * daily}) = After(total, daily, k - 1)
         /\ Min({daily, After(total, daily, k - 1)}) \in Nat
         /\ After(total, daily, k) =
              After(total, daily, k - 1) - Min({daily, After(total, daily, k - 1)})
<1> DEFINE x == (k - 1) * daily
           y == k * daily
           a == After(total, daily, k - 1)
           b == After(total, daily, k)
<1>1. x \in Nat /\ y = x + daily
  <2>1. k - 1 \in Nat
    OBVIOUS
  <2> QED BY <2>1, ProductType
<1>2. /\ a = IF total > x THEN total - x ELSE 0
      /\ b = IF total > y THEN total - y ELSE 0
  BY DEF After
<1>3. total - x \in Int /\ Max({0, total - x}) = IF total - x > 0 THEN total - x ELSE 0
  <2> HIDE DEF x, y
  <2> QED BY <1>1, MaxOfZero
<1> HIDE DEF x, y, a, b
<1>4. a \in Nat /\ b \in Nat
  BY <1>1, <1>2
<1>5. Min({daily, a}) = IF daily <= a THEN daily ELSE a
  BY <1>4, MinOfTwo
<1>6. Max({0, total - x}) = a /\ Min({daily, a}) \in Nat /\ b = a - Min({daily, a})
  BY <1>1, <1>2, <1>3, <1>4, <1>5
<1> QED BY <1>4, <1>6 DEF a, b, x

\* The days of a plan: what the line makes while something is left, then the rest.
LEMMA PlannedDays ==
  ASSUME NEW total \in Nat, NEW daily \in Nat, NEW n \in Nat \ {0}
  PROVE  LET days == distributeDailyPlanQty(total, daily, n) IN
         /\ days \in [1..n -> Nat] /\ days[n] = After(total, daily, n - 1)
         /\ \A d \in 1..(n - 1) :
              days[d] = After(total, daily, d - 1) - After(total, daily, d)
<1> DEFINE days == distributeDailyPlanQty(total, daily, n)
           Left(d) == After(total, daily, d - 1)
<1>1. ASSUME NEW d \in 1..n
      PROVE  /\ Left(d) \in Nat /\ Max({0, total - (d - 1) * daily}) = Left(d)
             /\ Min({daily, Left(d)}) \in Nat
             /\ After(total, daily, d) = Left(d) - Min({daily, Left(d)})
  <2>1. d \in Nat \ {0}
    OBVIOUS
  <2> QED BY <2>1, AfterDay
<1>2. days = [d \in 1..n |-> IF d = n THEN Left(d) ELSE Min({daily, Left(d)})]
  <2>1. days = [d \in 1..n |-> LET left == Max({0, total - (d - 1) * daily}) IN
                               IF d = n THEN left ELSE Min({daily, left})]
    BY DEF distributeDailyPlanQty
  <2> HIDE DEF Left, days
  <2>2. ASSUME NEW d \in 1..n
        PROVE  (LET left == Max({0, total - (d - 1) * daily}) IN
                IF d = n THEN left ELSE Min({daily, left}))
                 = IF d = n THEN Left(d) ELSE Min({daily, Left(d)})
    BY <1>1
  <2> QED BY <2>1, <2>2
<1> HIDE DEF Left, days
<1>3. days \in [1..n -> Nat]
  BY <1>1, <1>2
<1>6. \A d \in 1..n : days[d] = IF d = n THEN Left(d) ELSE Min({daily, Left(d)})
  BY <1>2
<1>4. n \in 1..n /\ days[n] = Left(n)
  <2>1. n \in 1..n
    OBVIOUS
  <2> QED BY <1>6, <2>1
<1>5. ASSUME NEW d \in 1..(n - 1) PROVE days[d] = Left(d) - After(total, daily, d)
  <2>1. d \in 1..n /\ d # n
    OBVIOUS
  <2>2. days[d] = Min({daily, Left(d)})
    BY <1>6, <2>1
  <2> DEFINE m == Min({daily, Left(d)})
  <2>3. Left(d) \in Nat /\ m \in Nat /\ After(total, daily, d) = Left(d) - m
    BY <1>1, <2>1
  <2> HIDE DEF m
  <2>4. Left(d) - After(total, daily, d) = m
    BY <2>3
  <2> QED BY <2>2, <2>4 DEF m
<1> QED BY <1>3, <1>4, <1>5 DEF days, Left

\* They add up to the quantity: after k days it is what was there less what is left.
LEMMA PlannedSum ==
  ASSUME NEW total \in Nat, NEW daily \in Nat, NEW n \in Nat \ {0},
         NEW days, days = distributeDailyPlanQty(total, daily, n)
  PROVE  Total(days, 1..n) = total
<1> DEFINE Sum(k) == Total(days, 1..k)
           Left(k) == After(total, daily, k)
           Bad == {k \in 0..(n - 1) : Sum(k) # total - Left(k)}
<1>1. /\ days \in [1..n -> Nat] /\ days[n] = Left(n - 1)
      /\ \A d \in 1..(n - 1) : days[d] = Left(d - 1) - Left(d)
  BY PlannedDays
<1>2. ASSUME NEW k \in 1..n
      PROVE  Sum(k - 1) \in Nat /\ Sum(k) = Sum(k - 1) + days[k]
  <2>1. (1..(k - 1)) \cup {k} = 1..k /\ k \notin 1..(k - 1)
    OBVIOUS
  <2>2. Counts(days, 1..k)
    <3>1. IsFiniteSet(1..k)
      BY FS_Interval
    <3>2. \A i \in 1..k : days[i] \in Nat
      BY <1>1
    <3> QED BY <3>1, <3>2 DEF Counts
  <2>3. Counts(days, (1..(k - 1)) \cup {k})
    BY <2>1, <2>2
  <2>4. Total(days, (1..(k - 1)) \cup {k}) = Total(days, 1..(k - 1)) + days[k]
        /\ Total(days, 1..(k - 1)) \in Nat
    BY <2>1, <2>3, TotalMore
  <2> QED BY <2>1, <2>4
<1>3. Left(0) = total /\ Sum(0) = 0
  <2>1. 0 * daily = 0 /\ 1..0 = {}
    OBVIOUS
  <2> QED BY <2>1, TotalNone DEF After
<1>4. \A k \in 0..(n - 1) : Left(k) \in Nat
  <2> SUFFICES ASSUME NEW k \in 0..(n - 1) PROVE Left(k) \in Nat
    OBVIOUS
  <2>1. k * daily \in Nat
    BY ProductType
  <2> QED BY <2>1 DEF After
<1> HIDE DEF Sum, Left
<1>5. Bad = {}
  <2> SUFFICES ASSUME Bad # {} PROVE FALSE
    OBVIOUS
  <2>1. Bad \in SUBSET Nat
    OBVIOUS
  <2>2. Min(Bad) \in Bad /\ \A k \in Bad : Min(Bad) <= k
    <3> HIDE DEF Bad
    <3> QED BY <2>1, MinIsLeast
  <2> DEFINE m == Min(Bad)
  <2>3. m \in 0..(n - 1) /\ Sum(m) # total - Left(m) /\ \A k \in Bad : m <= k
    BY <2>2
  <2> HIDE DEF m
  <2>4. m # 0
    BY <1>3, <2>3
  <2>5. m \in 1..(n - 1) /\ m \in 1..n /\ m - 1 \in 0..(n - 1) /\ m - 1 < m
    BY <2>3, <2>4
  <2>6. m - 1 \notin Bad
    <3> HIDE DEF Bad
    <3> QED BY <2>3, <2>5
  <2>7. Sum(m - 1) = total - Left(m - 1)
    BY <2>5, <2>6
  <2>8. Sum(m) = Sum(m - 1) + days[m] /\ days[m] = Left(m - 1) - Left(m)
    BY <1>1, <1>2, <2>5
  <2>9. Left(m) \in Nat /\ Left(m - 1) \in Nat
    BY <1>4, <2>5, <2>3
  <2> HIDE DEF Bad
  <2> QED BY <2>3, <2>7, <2>8, <2>9
<1>6. n - 1 \in 0..(n - 1) /\ n \in 1..n
  OBVIOUS
<1>7. Sum(n - 1) = total - Left(n - 1)
  BY <1>5, <1>6
<1>8. Sum(n) = Sum(n - 1) + days[n] /\ days[n] = Left(n - 1) /\ Left(n - 1) \in Nat
  BY <1>1, <1>2, <1>4, <1>6
<1>9. Sum(n) = total
  <2> HIDE DEF Bad
  <2> QED BY <1>7, <1>8
<1> QED BY <1>9 DEF Sum

-----------------------------------------------------------------------------
(* The invariant *)

\* Every row is of an order, on a line, and long enough for the order.
RowsOK(rows) ==
  /\ DOMAIN rows \subseteq Orders
  /\ \A o \in DOMAIN rows : rows[o].line \in Lines /\ Enough(o, rows[o])

\* No line is booked twice.
Apart(rows) == \A o, p \in DOMAIN rows :
  o # p /\ rows[o].line = rows[p].line => rows[o].end < rows[p].start \/ rows[p].end < rows[o].start

\* What a run has still to persist follows each other on a line.
LeftOK(left) ==
  /\ left \in Seq(Entry)
  /\ \A i \in DOMAIN left : Enough(left[i].order, left[i])
  /\ \A i, j \in DOMAIN left : i < j /\ left[i].line = left[j].line => left[i].end < left[j].start

RunOK(r) ==
  /\ r \in [pc : {"idle", "gathered", "create", "status", "cleanup"},
            eligible : SUBSET Orders, left : Seq(Entry)]
  /\ LeftOK(r.left)
  /\ r.pc \in {"status", "cleanup"} => r.left # << >>

\* And comes after every row there is, but for the first, whose row may be there.
Ahead(rows, r) == \A o \in DOMAIN rows : \A i \in DOMAIN r.left :
  (r.pc = "create" \/ i > 1) /\ rows[o].line = r.left[i].line => rows[o].end < r.left[i].start

PlanOK(o, p) ==
  /\ Total(p.days, DOMAIN p.days) = 100 * OrderOf[o].qty
  /\ \A d \in DOMAIN p.days : p.days[d] >= 0
  /\ 2 * p.days[Len(p.days)] <= 2 * p.perDay + Len(p.days)

Calendar == today \in Nat /\ workers \in [Lines -> Nat]
Rows == RowsOK(row) /\ Apart(row) /\ RunOK(run) /\ Ahead(row, run)
Drafts == \A d \in draft : d.order \in Orders /\ Enough(d.order, d.schedule)
Plans == \A o \in DOMAIN plan : PlanOK(o, plan[o])

Booked == Calendar /\ Rows /\ Drafts /\ Plans

-----------------------------------------------------------------------------
(* Rows that come and go, and what a run has left *)

LEMMA LeftGoes ==
  ASSUME NEW left, LeftOK(left), left # << >>
  PROVE  /\ LeftOK(Tail(left)) /\ Head(left) = left[1] /\ 1 \in DOMAIN left
         /\ \A i \in DOMAIN Tail(left) : i + 1 \in DOMAIN left /\ i + 1 > 1 /\ Tail(left)[i] = left[i + 1]
<1> DEFINE n == Len(left)
           t == Tail(left)
<1>1. /\ left \in Seq(Entry) /\ n \in Nat \ {0} /\ DOMAIN left = 1..n
      /\ t \in Seq(Entry) /\ DOMAIN t = 1..(n - 1) /\ Head(left) = left[1]
      /\ \A i \in 1..(n - 1) : t[i] = left[i + 1]
  BY DEF LeftOK
<1> HIDE DEF n, t
<1>2. \A i \in DOMAIN t : i \in Nat /\ i + 1 \in DOMAIN left /\ i + 1 > 1 /\ t[i] = left[i + 1]
  BY <1>1
<1>3. \A i \in DOMAIN t : Enough(t[i].order, t[i])
  BY <1>2 DEF LeftOK
<1>4. ASSUME NEW i \in DOMAIN t, NEW j \in DOMAIN t, i < j, t[i].line = t[j].line
      PROVE  t[i].end < t[j].start
  <2>1. i + 1 < j + 1 /\ i + 1 \in DOMAIN left /\ j + 1 \in DOMAIN left
    BY <1>2, <1>4
  <2>2. left[i + 1].line = left[j + 1].line
    BY <1>2, <1>4
  <2>3. left[i + 1].end < left[j + 1].start
    BY <2>1, <2>2 DEF LeftOK
  <2> QED BY <1>2, <2>3
<1>5. LeftOK(t) /\ 1 \in DOMAIN left
  BY <1>1, <1>3, <1>4 DEF LeftOK
<1> QED BY <1>1, <1>2, <1>5 DEF t

LEMMA RowGoes ==
  ASSUME NEW rows, RowsOK(rows), Apart(rows), NEW o
  PROVE  /\ RowsOK(Without(rows, o)) /\ Apart(Without(rows, o))
         /\ \A p \in DOMAIN Without(rows, o) : p \in DOMAIN rows /\ Without(rows, o)[p] = rows[p]
<1> DEFINE W == Without(rows, o)
<1>1. DOMAIN W = DOMAIN rows \ {o} /\ \A p \in DOMAIN W : p \in DOMAIN rows /\ W[p] = rows[p]
  BY DEF Without
<1> HIDE DEF W
<1>2. RowsOK(W)
  BY <1>1 DEF RowsOK
<1>3. Apart(W)
  BY <1>1 DEF Apart
<1> QED BY <1>1, <1>2, <1>3 DEF W

LEMMA RowComes ==
  ASSUME NEW rows, RowsOK(rows), Apart(rows), NEW o \in Orders \ DOMAIN rows, NEW s,
         s.line \in Lines, Enough(o, s),
         \A p \in DOMAIN rows : rows[p].line = s.line => rows[p].end < s.start
  PROVE  RowsOK(With(rows, o, s)) /\ Apart(With(rows, o, s))
<1> DEFINE W == With(rows, o, s)
<1>1. /\ DOMAIN W = DOMAIN rows \cup {o} /\ W[o] = s
      /\ \A p \in DOMAIN rows : W[p] = rows[p] /\ p # o
  BY DEF With
<1> HIDE DEF W
<1>2. RowsOK(W)
  BY <1>1 DEF RowsOK
<1>3. Apart(W)
  <2> SUFFICES ASSUME NEW p \in DOMAIN W, NEW q \in DOMAIN W, p # q, W[p].line = W[q].line
               PROVE  W[p].end < W[q].start \/ W[q].end < W[p].start
    BY DEF Apart
  <2>1. CASE p = o
    <3>1. q \in DOMAIN rows
      BY <1>1, <2>1
    <3> QED BY <1>1, <2>1, <3>1
  <2>2. CASE q = o
    <3>1. p \in DOMAIN rows
      BY <1>1, <2>2
    <3> QED BY <1>1, <2>2, <3>1
  <2>3. CASE p # o /\ q # o
    <3>1. p \in DOMAIN rows /\ q \in DOMAIN rows
      BY <1>1, <2>3
    <3> QED BY <1>1, <3>1 DEF Apart
  <2> QED BY <2>1, <2>2, <2>3
<1> QED BY <1>2, <1>3 DEF W

\* A line is free after all its schedules.
LEMMA AvailableIs ==
  ASSUME RowsOK(row), today \in Nat, NEW l \in Lines
  PROVE  /\ computeLineAvailableFrom(row, l) \in Nat
         /\ \A o \in DOMAIN row : row[o].line = l => row[o].end < computeLineAvailableFrom(row, l)
<1> DEFINE Os == {x \in DOMAIN row : row[x].line = l}
           ends == {row[o].end : o \in Os}
<1>1. computeLineAvailableFrom(row, l) = IF ends = {} THEN today ELSE Max(ends) + 1
  BY DEF computeLineAvailableFrom
<1>2. ends \in SUBSET Nat
  BY DEF RowsOK, Enough
<1>3. IsFiniteSet(ends)
  <2>1. IsFiniteSet(Os)
    <3>1. Os \in SUBSET Orders
      BY DEF RowsOK
    <3> QED BY <3>1, FS_Subset, PlanningAssumption
  <2> DEFINE g == [o \in Os |-> row[o].end]
  <2>2. g \in Surjection(Os, ends)
    BY DEF Surjection
  <2> HIDE DEF g, Os, ends
  <2> QED BY <2>1, <2>2, FS_Surjection
<1>4. \A o \in DOMAIN row : row[o].line = l => row[o].end \in ends
  OBVIOUS
<1>5. ends # {} => Max(ends) \in ends /\ \A k \in ends : k <= Max(ends)
  <2> HIDE DEF ends
  <2> QED BY <1>2, <1>3, MaxIsGreatest
<1> HIDE DEF ends
<1>6. CASE ends = {}
  BY <1>1, <1>4, <1>6
<1>7. CASE ends # {}
  <2>1. Max(ends) \in Nat
    BY <1>2, <1>5, <1>7
  <2>2. \A k \in ends : k < Max(ends) + 1
    BY <1>2, <1>5, <1>7, <2>1
  <2> QED BY <1>1, <1>4, <1>7, <2>1, <2>2
<1> QED BY <1>6, <1>7

-----------------------------------------------------------------------------
(* The steps *)

LEMMA BookedInit == Init => Booked
<1> SUFFICES ASSUME Init PROVE Booked
  OBVIOUS
<1>1. Calendar
  BY PlanningAssumption DEF Init, Calendar
<1>2. DOMAIN row = {} /\ DOMAIN plan = {} /\ draft = {}
  BY DEF Init
<1>3. RunOK(NoRun)
  BY DEF NoRun, RunOK, LeftOK
<1>4. RowsOK(row) /\ Apart(row) /\ Ahead(row, run)
  BY <1>2 DEF RowsOK, Apart, Ahead
<1> QED BY <1>1, <1>2, <1>3, <1>4 DEF Init, Booked, Rows, Drafts, Plans

LEMMA GatherBooked ==
  ASSUME Booked, gatherOrders
  PROVE  Rows'
<1> DEFINE E == {o \in Orders \ Scheduled : status[o] # "Closed"}
<1>1. run' = [NoRun EXCEPT !.pc = "gathered", !.eligible = E] /\ row' = row
  BY DEF gatherOrders
<1>2. E \subseteq Orders
  OBVIOUS
<1> HIDE DEF E
<1>3. run' = [pc |-> "gathered", eligible |-> E, left |-> << >>]
  BY <1>1 DEF NoRun
<1>4. RunOK(run')
  BY <1>2, <1>3 DEF RunOK, LeftOK
<1>5. Ahead(row', run')
  BY <1>3 DEF Ahead
<1> QED BY <1>1, <1>4, <1>5 DEF Booked, Rows

LEMMA PassBooked ==
  ASSUME Booked, pass
  PROVE  Rows'
<1> DEFINE avail == [l \in Lines |-> computeLineAvailableFrom(row, l)]
<1>1. PICK sorted \in sortOrders(run.eligible) :
        run' = [NoRun EXCEPT !.pc = "create", !.left = runSchedulingPass(sorted, workers, avail)]
  BY DEF pass
<1>2. row' = row
  BY DEF pass
<1>3. /\ avail \in [Lines -> Nat]
      /\ \A o \in DOMAIN row : row[o].line \in Lines /\ row[o].end < avail[row[o].line]
  BY AvailableIs DEF Booked, Rows, Calendar, RowsOK
<1> HIDE DEF avail
<1>4. sorted \in Seq(Orders)
  <2>1. run.eligible \in SUBSET Orders
    BY DEF Booked, Rows, RunOK
  <2>2. IsFiniteSet(run.eligible)
    BY <2>1, FS_Subset, PlanningAssumption
  <2>3. Cardinality(run.eligible) \in Nat
    BY <2>2, FS_CardinalityType
  <2> DEFINE k == Cardinality(run.eligible)
  <2>4. sorted \in [1..k -> run.eligible]
    BY DEF sortOrders
  <2> HIDE DEF k
  <2>5. sorted \in [1..k -> Orders] /\ k \in Nat
    BY <2>1, <2>3, <2>4 DEF k
  <2> QED BY <2>5
<1> DEFINE left == runSchedulingPass(sorted, workers, avail)
<1>5. PICK free : PassOK([avail |-> free, out |-> left], avail)
  <2>1. workers \in [Lines -> Nat]
    BY DEF Booked, Calendar
  <2> QED BY <1>3, <1>4, <2>1, PassIsOK
<1> HIDE DEF left
<1>6. run' = [pc |-> "create", eligible |-> {}, left |-> left]
  BY <1>1 DEF NoRun, left
<1>7. /\ left \in Seq(Entry)
      /\ \A i \in DOMAIN left : Enough(left[i].order, left[i]) /\ avail[left[i].line] <= left[i].start
      /\ \A i, j \in DOMAIN left : i < j /\ left[i].line = left[j].line => left[i].end < left[j].start
  BY <1>5 DEF PassOK
<1>8. RunOK(run')
  BY <1>6, <1>7 DEF RunOK, LeftOK
<1>9. Ahead(row', run')
  <2> SUFFICES ASSUME NEW o \in DOMAIN row, NEW i \in DOMAIN left, row[o].line = left[i].line
               PROVE  row[o].end < left[i].start
    BY <1>2, <1>6 DEF Ahead
  <2>1. /\ row[o].end < avail[row[o].line] /\ avail[row[o].line] <= left[i].start
        /\ avail[row[o].line] \in Nat
    BY <1>3, <1>7
  <2>2. row[o].end \in Nat /\ left[i].start \in Nat
    BY <1>7 DEF Booked, Rows, RowsOK, Enough
  <2> QED BY <2>1, <2>2
<1> QED BY <1>2, <1>8, <1>9 DEF Booked, Rows

\* The run goes on with the next order.
LEMMA GoesOn ==
  ASSUME RunOK(run), run.left # << >>
  PROVE  /\ Persisted = [pc |-> "create", eligible |-> run.eligible, left |-> Tail(run.left)]
         /\ RunOK(Persisted)
<1>1. LeftOK(run.left)
  BY DEF RunOK
<1>2. LeftOK(Tail(run.left))
  BY <1>1, LeftGoes
<1> DEFINE t == Tail(run.left)
<1>3. Persisted = [pc |-> "create", eligible |-> run.eligible, left |-> t]
  <2>1. Persisted = [[run EXCEPT !.pc = "create"] EXCEPT !.left = t]
    BY DEF RunOK, Persisted
  <2>2. [run EXCEPT !.pc = "create"] = [pc |-> "create", eligible |-> run.eligible, left |-> run.left]
    BY DEF RunOK
  <2> HIDE DEF t
  <2> QED BY <2>1, <2>2
<1>4. RunOK(Persisted)
  BY <1>2, <1>3 DEF RunOK, LeftOK
<1> QED BY <1>3, <1>4

LEMMA GoesOnAhead ==
  ASSUME RunOK(run), run.left # << >>, NEW rows, Ahead(rows, run)
  PROVE  Ahead(rows, Persisted)
<1>1. LeftOK(run.left)
  BY DEF RunOK
<1>2. \A i \in DOMAIN Tail(run.left) :
        i + 1 \in DOMAIN run.left /\ i + 1 > 1 /\ Tail(run.left)[i] = run.left[i + 1]
  BY <1>1, LeftGoes
<1>3. Persisted.left = Tail(run.left)
  BY GoesOn
<1> SUFFICES ASSUME NEW o \in DOMAIN rows, NEW i \in DOMAIN Tail(run.left),
                    rows[o].line = Tail(run.left)[i].line
             PROVE  rows[o].end < Tail(run.left)[i].start
  BY <1>3 DEF Ahead
<1>4. rows[o].line = run.left[i + 1].line
  BY <1>2
<1>5. rows[o].end < run.left[i + 1].start
  BY <1>2, <1>4 DEF Ahead
<1> QED BY <1>2, <1>5

LEMMA CreateBooked ==
  ASSUME Booked, createRow
  PROVE  Rows'
<1> DEFINE a == Head(run.left)
           s == [line |-> a.line, start |-> a.start, end |-> a.end, dailyOutput |-> a.dailyOutput]
<1>0. /\ RowsOK(row) /\ Apart(row) /\ RunOK(run) /\ Ahead(row, run)
      /\ run.pc = "create" /\ run.left # << >> /\ LeftOK(run.left)
  BY DEF Booked, Rows, RunOK, createRow
<1>1. CASE a.order \in Scheduled
  <2>1. run' = Persisted /\ row' = row
    BY <1>1 DEF createRow
  <2> QED BY <1>0, <2>1, GoesOn, GoesOnAhead DEF Rows
<1>2. CASE a.order \notin Scheduled
  <2>1. row' = With(row, a.order, s) /\ run' = [run EXCEPT !.pc = "status"]
    BY <1>2 DEF createRow
  <2>2. a = run.left[1] /\ 1 \in DOMAIN run.left
    BY <1>0, LeftGoes
  <2> HIDE DEF a
  <2>3. a \in Entry /\ Enough(a.order, a)
    BY <1>0, <2>2 DEF LeftOK
  <2>4. a.order \in Orders \ DOMAIN row /\ a.line \in Lines
    BY <1>2, <2>3 DEF Entry, Scheduled
  <2>5. s.line = a.line /\ s.start = a.start /\ s.end = a.end /\ s.dailyOutput = a.dailyOutput
    OBVIOUS
  <2> HIDE DEF s
  <2>6. Enough(a.order, s)
    BY <2>3, <2>5 DEF Enough
  <2>7. \A p \in DOMAIN row : row[p].line = s.line => row[p].end < s.start
    BY <1>0, <2>2, <2>5 DEF Ahead
  <2>8. RowsOK(row') /\ Apart(row')
    BY <1>0, <2>1, <2>4, <2>5, <2>6, <2>7, RowComes
  <2>9. run' = [pc |-> "status", eligible |-> run.eligible, left |-> run.left]
    BY <1>0, <2>1 DEF RunOK
  <2>10. RunOK(run')
    BY <1>0, <2>9 DEF RunOK
  <2>11. Ahead(row', run')
    <3> SUFFICES ASSUME NEW o \in DOMAIN row', NEW i \in DOMAIN run.left, i > 1,
                        row'[o].line = run.left[i].line
                 PROVE  row'[o].end < run.left[i].start
      BY <2>9 DEF Ahead
    <3>1. CASE o \in DOMAIN row /\ o # a.order
      <4>1. row'[o] = row[o]
        BY <2>1, <3>1 DEF With
      <4> QED BY <1>0, <3>1, <4>1 DEF Ahead
    <3>2. CASE o = a.order
      <4>1. row'[o] = s
        BY <2>1, <3>2 DEF With
      <4>2. run.left[1].line = run.left[i].line
        BY <2>2, <2>5, <4>1
      <4>3. run.left[1].end < run.left[i].start
        BY <1>0, <2>2, <4>2 DEF LeftOK
      <4> QED BY <2>2, <2>5, <4>1, <4>3
    <3>3. o \in DOMAIN row \/ o = a.order
      BY <2>1 DEF With
    <3> QED BY <3>1, <3>2, <3>3
  <2> QED BY <2>8, <2>10, <2>11 DEF Rows
<1> QED BY <1>1, <1>2

LEMMA StatusBooked ==
  ASSUME Booked, toScheduled
  PROVE  Rows'
<1>0. /\ RowsOK(row) /\ Apart(row) /\ RunOK(run) /\ Ahead(row, run) /\ row' = row
      /\ run.pc = "status" /\ run.left # << >>
  BY DEF Booked, Rows, RunOK, toScheduled
<1>1. CASE run' = Persisted
  BY <1>0, <1>1, GoesOn, GoesOnAhead DEF Rows
<1>2. CASE run' = [run EXCEPT !.pc = "cleanup"]
  <2>1. run' = [pc |-> "cleanup", eligible |-> run.eligible, left |-> run.left]
    BY <1>0, <1>2 DEF RunOK
  <2>2. RunOK(run')
    BY <1>0, <2>1 DEF RunOK
  <2>3. Ahead(row', run')
    BY <1>0, <2>1 DEF Ahead
  <2> QED BY <1>0, <2>2, <2>3 DEF Rows
<1> QED BY <1>1, <1>2 DEF toScheduled

\* Where a row goes nothing comes closer.
LEMMA GoneAhead ==
  ASSUME NEW rows, RowsOK(rows), Apart(rows), NEW r, Ahead(rows, r), NEW o
  PROVE  Ahead(Without(rows, o), r)
<1> DEFINE W == Without(rows, o)
<1>1. \A p \in DOMAIN W : p \in DOMAIN rows /\ W[p] = rows[p]
  BY RowGoes
<1> HIDE DEF W
<1>2. Ahead(W, r)
  BY <1>1 DEF Ahead
<1> QED BY <1>2 DEF W

LEMMA CleanupBooked ==
  ASSUME Booked, cleanup
  PROVE  Rows'
<1>0. /\ RowsOK(row) /\ Apart(row) /\ RunOK(run) /\ Ahead(row, run)
      /\ run' = Persisted /\ run.left # << >>
  BY DEF Booked, Rows, RunOK, cleanup
<1>1. PICK o : row' = Without(row, o)
  BY DEF cleanup
<1>2. RowsOK(row') /\ Apart(row') /\ Ahead(row', run)
  BY <1>0, <1>1, RowGoes, GoneAhead
<1> QED BY <1>0, <1>2, GoesOn, GoesOnAhead DEF Rows

LEMMA EndBooked ==
  ASSUME Booked, endRun
  PROVE  Rows'
<1>1. run' = NoRun /\ row' = row
  BY DEF endRun
<1>2. RunOK(NoRun) /\ Ahead(row, NoRun)
  BY DEF NoRun, RunOK, LeftOK, Ahead
<1> QED BY <1>1, <1>2 DEF Booked, Rows

LEMMA UnscheduleBooked ==
  ASSUME Booked, NEW o \in Orders, unscheduleOrder(o)
  PROVE  Rows'
<1>1. run' = run /\ (row' = row \/ row' = Without(row, o))
  BY DEF unscheduleOrder
<1> QED BY <1>1, RowGoes, GoneAhead DEF Booked, Rows

LEMMA LoadBooked ==
  ASSUME Booked, NEW o \in Orders, planLoad(o)
  PROVE  Drafts'
<1>1. draft' = {[order |-> o, schedule |-> row[o]]} /\ o \in DOMAIN row
  BY DEF planLoad, Scheduled
<1>2. Enough(o, row[o])
  BY <1>1 DEF Booked, Rows, RowsOK
<1> QED BY <1>1, <1>2 DEF Drafts, Enough

\* A plan of enough days covers the order.
LEMMA PlannedOK ==
  ASSUME NEW o \in Orders, NEW s, Enough(o, s), NEW start
  PROVE  PlanOK(o, [start |-> start, perDay |-> s.dailyOutput,
                    days |-> distributeDailyPlanQty(100 * OrderOf[o].qty, s.dailyOutput,
                                                    s.end - s.start + 1)])
<1> DEFINE q == 100 * OrderOf[o].qty
           n == s.end - s.start + 1
           D == s.dailyOutput
           days == distributeDailyPlanQty(q, D, n)
           p == [start |-> start, perDay |-> D, days |-> days]
<1>1. q \in Nat /\ n \in Nat \ {0} /\ D \in Nat
  BY PlanningAssumption DEF Enough
<1>2. 2 * q < n * (2 * D + 1)
  BY PlanningAssumption DEF Enough
<1> HIDE DEF q, n, D
<1>3. days \in [1..n -> Nat] /\ days[n] = After(q, D, n - 1)
  BY <1>1, PlannedDays
<1>4. Total(days, 1..n) = q
  BY <1>1, PlannedSum
<1> HIDE DEF days
<1>5. Len(days) = n /\ DOMAIN days = 1..n
  BY <1>1, <1>3
<1>6. 2 * After(q, D, n - 1) <= 2 * D + n
  <2> DEFINE x == (n - 1) * D
  <2>1. n - 1 \in Nat
    BY <1>1
  <2>2. x \in Nat
    BY <1>1, <2>1, ProductType
  <2>3. n * (2 * D + 1) = 2 * x + 2 * D + n
    BY <1>1
  <2>4. After(q, D, n - 1) = IF q > x THEN q - x ELSE 0
    BY DEF After
  <2> HIDE DEF x
  <2> QED BY <1>1, <1>2, <2>2, <2>3, <2>4
<1>7. \A d \in 1..n : days[d] >= 0
  BY <1>3
<1>8. p.days = days /\ p.perDay = D
  OBVIOUS
<1>9. PlanOK(o, p)
  <2> HIDE DEF p
  <2> QED BY <1>3, <1>4, <1>5, <1>6, <1>7, <1>8 DEF PlanOK, q
<1> QED BY <1>9 DEF p, days, q, n, D

LEMMA GenerateBooked ==
  ASSUME Booked, NEW d \in draft, generateProductionPlan(d)
  PROVE  Plans'
<1> DEFINE s == d.schedule
           p == [start |-> s.start, perDay |-> s.dailyOutput,
                 days |-> distributeDailyPlanQty(100 * OrderOf[d.order].qty, s.dailyOutput,
                                                 s.end - s.start + 1)]
<1>1. plan' = With(plan, d.order, p)
  BY DEF generateProductionPlan
<1>2. PlanOK(d.order, p)
  BY PlannedOK DEF Booked, Drafts
<1> HIDE DEF p
<1>3. \A o \in DOMAIN plan' : plan'[o] = IF o = d.order THEN p ELSE plan[o]
  BY <1>1 DEF With
<1>4. \A o \in DOMAIN plan' : o = d.order \/ o \in DOMAIN plan
  BY <1>1 DEF With
<1> QED BY <1>2, <1>3, <1>4 DEF Booked, Plans

LEMMA BookedNext == Booked /\ [Next]_vars => Booked'
<1> SUFFICES ASSUME Booked, [Next]_vars PROVE Booked'
  OBVIOUS
<1> USE DEF Booked
<1>1. CASE UNCHANGED vars
  BY <1>1 DEF vars, Calendar, Rows, Drafts, Plans
<1>2. CASE Run
  <2>1. UNCHANGED <<today, workers, plan, draft>>
    BY <1>2 DEF Run, gatherOrders, pass, createRow, toScheduled, cleanup, endRun
  <2>2. Rows'
    BY <1>2, GatherBooked, PassBooked, CreateBooked, StatusBooked, CleanupBooked, EndBooked DEF Run
  <2> QED BY <2>1, <2>2 DEF Calendar, Drafts, Plans
<1>3. ASSUME NEW o \in Orders, unscheduleLoad(o) \/ moveOn(o) PROVE Booked'
  <2>1. UNCHANGED <<today, workers, row, run, plan, draft>>
    BY <1>3 DEF unscheduleLoad, moveOn
  <2> QED BY <2>1 DEF Calendar, Rows, Drafts, Plans
<1>4. ASSUME NEW o \in Orders, unscheduleOrder(o) PROVE Booked'
  <2>1. UNCHANGED <<today, workers, plan, draft>>
    BY <1>4 DEF unscheduleOrder
  <2>2. Rows'
    BY <1>4, UnscheduleBooked
  <2> QED BY <2>1, <2>2 DEF Calendar, Drafts, Plans
<1>5. ASSUME NEW o \in Orders, planLoad(o) PROVE Booked'
  <2>1. UNCHANGED <<today, workers, row, run, plan>>
    BY <1>5 DEF planLoad
  <2>2. Drafts'
    BY <1>5, LoadBooked
  <2> QED BY <2>1, <2>2 DEF Calendar, Rows, Plans
<1>6. ASSUME NEW d \in draft, generateProductionPlan(d) PROVE Booked'
  <2>1. UNCHANGED <<today, workers, row, run>> /\ draft' = {}
    BY <1>6 DEF generateProductionPlan
  <2>2. Plans'
    BY <1>6, GenerateBooked
  <2> QED BY <2>1, <2>2 DEF Calendar, Rows, Drafts
<1>7. CASE dayPasses
  <2>1. UNCHANGED <<row, run, plan, draft>> /\ today' = today + 1 /\ workers' \in Attendances
    BY <1>7 DEF dayPasses
  <2>2. Calendar'
    BY <2>1, PlanningAssumption DEF Calendar
  <2> QED BY <2>1, <2>2 DEF Rows, Drafts, Plans
<1> QED BY <1>1, <1>2, <1>3, <1>4, <1>5, <1>6, <1>7 DEF Next

\* No line has two orders on one day, whatever happens beside a run and however
\* many runs, un-schedulings and failed assignments came before: a pass starts
\* behind every row there is, its assignments on a line follow each other, and
\* no other run adds rows before it is done.
THEOREM LinesAreNotDoubleBooked == Spec => []NoDoubleBooking
<1>1. Booked => NoDoubleBooking
  BY DEF Booked, Rows, Apart, NoDoubleBooking, Scheduled
<1> QED BY <1>1, BookedInit, BookedNext, PTL DEF Spec

\* A plan adds up to its order, has no negative day, and its last day exceeds
\* the daily output by no more than half a hundredth for each day.
THEOREM PlansCoverOrders == Spec => []PlanCoversOrder
<1>1. Booked => PlanCoversOrder
  BY DEF Booked, Plans, PlanOK, PlanCoversOrder
<1> QED BY <1>1, BookedInit, BookedNext, PTL DEF Spec

=============================================================================
