-------------------------- MODULE AssessmentsProofs -------------------------
(***************************************************************************)
(* An assessment is completed once, the recommendations shown are those of *)
(* the score shown, and a recomputation that nothing races leaves the      *)
(* signals of its score - proved for any number of requests and jobs.  The *)
(* second part is about the numbers: what valid answers are scored, the    *)
(* averages, bands, differences and ranks, and that the rows keep to them. *)
(***************************************************************************)
EXTENDS Assessments, FiniteSetTheorems, WellFoundedInduction, TLAPS

-----------------------------------------------------------------------------
(* Sequences whose elements are of no set known beforehand.                 *)
Sequence(s) == \E S : s \in Seq(S)

(* A row is written in its place.                                           *)
LEMMA RowWritten ==
  ASSUME NEW s, Sequence(s), NEW a \in 1..Len(s), NEW v, NEW t, t = [s EXCEPT ![a] = v]
  PROVE  /\ Sequence(t) /\ Len(t) = Len(s)
         /\ \A i \in 1..Len(s) : t[i] = IF i = a THEN v ELSE s[i]
<1>1. PICK S : s \in Seq(S)
  BY DEF Sequence
<1>2. t \in Seq(S \cup {v})
  BY <1>1
<1>. QED
  BY <1>1, <1>2 DEF Sequence

(* A row is inserted after the others.                                      *)
LEMMA RowAppended ==
  ASSUME NEW s, Sequence(s), NEW v
  PROVE  /\ Sequence(Append(s, v)) /\ Len(s) \in Nat /\ Len(Append(s, v)) = Len(s) + 1
         /\ \A i \in 1..Len(s) + 1 : Append(s, v)[i] = IF i <= Len(s) THEN s[i] ELSE v
<1>1. PICK S : s \in Seq(S)
  BY DEF Sequence
<1>2. s \in Seq(S \cup {v})
  BY <1>1
<1>3. Append(s, v) \in Seq(S \cup {v})
  BY <1>2
<1>. QED
  BY <1>2, <1>3 DEF Sequence

(* The domain of a sequence is as long as it is.                            *)
LEMMA RowNumbers ==
  ASSUME NEW s, Sequence(s)
  PROVE  DOMAIN s = 1..Len(s) /\ Len(s) \in Nat
  BY DEF Sequence

(* A score has a value for each dimension, so it is not the empty one.      *)
LEMMA ScoresAreNoGap ==
  ASSUME NEW s, DOMAIN s = ToSet(Dimension)
  PROVE  s # << >>
<1>1. "product" \in ToSet(Dimension)
  BY DEF ToSet, Dimension
<1>2. DOMAIN << >> = {}
  OBVIOUS
<1>. QED
  BY <1>1, <1>2

(* What is scored is every dimension.                                       *)
LEMMA ScoreDomain ==
  ASSUME NEW answers
  PROVE  DOMAIN score(answers) = ToSet(Dimension)
  BY Zenon DEF score

-----------------------------------------------------------------------------
(* What is computed from answers and scores.                                *)

(* A set of numbers has a least: take one with the fewest below it.         *)
LEMMA MinOfNumbers ==
  ASSUME NEW S, S \subseteq Nat, S # {}
  PROVE  Min(S) \in S /\ \A y \in S : Min(S) <= y
<1>1. PICK below : below = [x \in S |-> {y \in S : y < x}]
  OBVIOUS
<1>2. ASSUME NEW x \in S PROVE below[x] \in FiniteSubsetsOf(Nat)
  <2>1. x \in Nat /\ below[x] = {y \in S : y < x}
    BY <1>1
  <2>2. below[x] \subseteq 0..x /\ below[x] \subseteq Nat
    <3>1. ASSUME NEW y \in below[x] PROVE y \in Nat /\ y < x
      BY <2>1
    <3>. QED
      BY <2>1, <3>1
  <2>3. IsFiniteSet(0..x)
    BY <2>1, FS_Interval
  <2>. QED
    BY <2>2, <2>3, FS_Subset DEF FiniteSubsetsOf
<1>3. \A x, y \in S : y < x => y \in below[x] /\ y \notin below[y] /\ below[y] \subseteq below[x]
  <2>. SUFFICES ASSUME NEW x \in S, NEW y \in S, y < x
                PROVE  y \in below[x] /\ y \notin below[y] /\ below[y] \subseteq below[x]
    OBVIOUS
  <2>1. /\ x \in Nat /\ y \in Nat
        /\ below[x] = {z \in S : z < x} /\ below[y] = {z \in S : z < y}
    BY <1>1
  <2>2. \A z \in S : z < y => z < x
    <3>. TAKE z \in S
    <3>1. z \in Nat
      OBVIOUS
    <3>. QED
      BY <2>1, <3>1
  <2>3. y \in below[x] /\ y \notin below[y]
    BY <2>1
  <2>4. below[y] \subseteq below[x]
    BY <2>1, <2>2, Zenon
  <2>. QED
    BY <2>3, <2>4
<1>4. PICK T : T = {below[x] : x \in S}
  OBVIOUS
<1>5. \E a \in T : \A b \in T : ~(<<b, a>> \in StrictSubsetOrdering(Nat))
  <2>1. T \subseteq FiniteSubsetsOf(Nat) /\ T # {}
    BY <1>2, <1>4
  <2>. QED
    BY <2>1, FS_StrictSubsetOrderingWellFounded, WFMin
<1>6. PICK x \in S : \A y \in S : ~(<<below[y], below[x]>> \in StrictSubsetOrdering(Nat))
  BY <1>4, <1>5
<1>7. \A y \in S : ~(y < x)
  BY <1>2, <1>3, <1>6 DEF StrictSubsetOrdering, FiniteSubsetsOf
<1>8. \A y \in S : x <= y
  BY <1>7
<1>. QED
  BY <1>8 DEF Min

(* One that has a bound has a greatest: the least distance from the bound.  *)
LEMMA MaxOfNumbers ==
  ASSUME NEW n \in Nat, NEW S, S \subseteq 0..n, S # {}
  PROVE  Max(S) \in S /\ \A y \in S : y <= Max(S)
<1>1. PICK T : T = {n - x : x \in S}
  OBVIOUS
<1>2. T \subseteq Nat /\ T # {}
  <2>1. \A x \in S : n - x \in Nat /\ n - x \in T
    BY <1>1
  <2>. QED
    BY <1>1, <2>1
<1>3. PICK t \in T : \A u \in T : t <= u
  BY <1>2, MinOfNumbers
<1>4. PICK x \in S : t = n - x
  BY <1>1
<1>5. \A y \in S : x >= y
  <2>. TAKE y \in S
  <2>1. t <= n - y
    BY <1>1, <1>3
  <2>. QED
    BY <1>4, <2>1
<1>. QED
  BY <1>5 DEF Max

(* What holds of 0 and passes from a number up to n to the next.            *)
LEMMA UpTo ==
  ASSUME NEW n \in Nat, NEW S, 0 \in S, \A i \in 1..n : i - 1 \in S => i \in S
  PROVE  \A i \in 0..n : i \in S
<1>. DEFINE T == {i \in 0..n : i \notin S}
<1>. SUFFICES ASSUME T # {} PROVE FALSE
  OBVIOUS
<1>1. PICK x \in T : \A y \in T : x <= y
  <2>1. T \subseteq Nat
    OBVIOUS
  <2>. HIDE DEF T
  <2>. QED
    BY <2>1, MinOfNumbers
<1>2. x \in 1..n /\ x - 1 \notin T
  BY <1>1
<1>. QED
  BY <1>2

(* The sums of a list's beginnings.                                         *)
LEMMA TotalSteps ==
  ASSUME NEW s, Len(s) \in Nat
  PROVE  \E upTo : /\ upTo[0] = 0 /\ Total(s) = upTo[Len(s)]
                   /\ \A n \in 1..Len(s) : upTo[n] = upTo[n - 1] + s[n]
<1>. DEFINE Sums(m, f) == f = [n \in 0..m |-> IF n = 0 THEN 0 ELSE f[n - 1] + s[n]]
            S == {m \in 0..Len(s) : \E f : Sums(m, f)}
<1>1. 0 \in S
  <2>1. Sums(0, [n \in 0..0 |-> 0])
    OBVIOUS
  <2>. HIDE DEF Sums
  <2>. QED
    BY <2>1
<1>2. ASSUME NEW i \in 1..Len(s), i - 1 \in S PROVE i \in S
  <2>1. PICK f : Sums(i - 1, f)
    BY <1>2
  <2>. DEFINE g == [n \in 0..i |-> IF n = i THEN f[i - 1] + s[i] ELSE f[n]]
  <2>2. Sums(i, g)
    <3>1. ASSUME NEW n \in 0..i PROVE g[n] = IF n = 0 THEN 0 ELSE g[n - 1] + s[n]
      <4>1. CASE n = i
        BY <4>1
      <4>2. CASE n # i
        <5>1. n \in 0..(i - 1) /\ g[n] = f[n]
          BY <4>2
        <5>2. f[n] = IF n = 0 THEN 0 ELSE f[n - 1] + s[n]
          BY <2>1, <5>1
        <5>3. n # 0 => n - 1 \in 0..i /\ n - 1 # i
          BY <4>2
        <5>. QED
          BY <5>1, <5>2, <5>3
      <4>. QED
        BY <4>1, <4>2
    <3>. QED
      BY <3>1
  <2>. HIDE DEF g, Sums
  <2>. QED
    BY <2>2
<1>3. \E f : Sums(Len(s), f)
  <2>. HIDE DEF Sums, S
  <2>1. \A i \in 0..Len(s) : i \in S
    BY <1>1, <1>2, UpTo
  <2>2. Len(s) \in S
    BY <2>1
  <2>. QED
    BY <2>2 DEF S
<1>4. PICK f : Sums(Len(s), f) /\ Total(s) = f[Len(s)]
  BY <1>3 DEF Total, Sums
<1>5. f[0] = 0
  BY <1>4
<1>6. \A n \in 1..Len(s) : f[n] = f[n - 1] + s[n]
  BY <1>4
<1>. HIDE DEF Sums
<1>. QED
  BY <1>4, <1>5, <1>6

(* Lists of which one is at most the other, number by number.               *)
LEMMA TotalsCompare ==
  ASSUME NEW s, NEW t, Len(s) \in Nat, Len(t) = Len(s),
         \A i \in 1..Len(s) : s[i] \in Nat /\ t[i] \in Nat /\ s[i] <= t[i]
  PROVE  Total(s) \in Nat /\ Total(t) \in Nat /\ Total(s) <= Total(t)
<1>1. PICK f : /\ f[0] = 0 /\ Total(s) = f[Len(s)]
               /\ \A n \in 1..Len(s) : f[n] = f[n - 1] + s[n]
  BY TotalSteps
<1>2. PICK g : /\ g[0] = 0 /\ Total(t) = g[Len(s)]
               /\ \A n \in 1..Len(s) : g[n] = g[n - 1] + t[n]
  <2>1. Len(t) \in Nat
    OBVIOUS
  <2>2. PICK g : /\ g[0] = 0 /\ Total(t) = g[Len(t)]
                 /\ \A n \in 1..Len(t) : g[n] = g[n - 1] + t[n]
    BY <2>1, TotalSteps
  <2>. QED
    BY <2>2
<1>. DEFINE S == {n \in 0..Len(s) : f[n] \in Nat /\ g[n] \in Nat /\ f[n] <= g[n]}
<1>3. 0 \in S
  BY <1>1, <1>2
<1>4. ASSUME NEW i \in 1..Len(s), i - 1 \in S PROVE i \in S
  <2>1. f[i] = f[i - 1] + s[i] /\ g[i] = g[i - 1] + t[i]
    BY <1>1, <1>2
  <2>2. /\ f[i - 1] \in Nat /\ g[i - 1] \in Nat /\ f[i - 1] <= g[i - 1]
        /\ s[i] \in Nat /\ t[i] \in Nat /\ s[i] <= t[i]
    BY <1>4
  <2>3. \A a, b, c, d \in Nat : a <= b /\ c <= d => a + c \in Nat /\ b + d \in Nat /\ a + c <= b + d
    OBVIOUS
  <2>4. f[i] \in Nat /\ g[i] \in Nat /\ f[i] <= g[i]
    BY <2>1, <2>2, <2>3
  <2>. QED
    BY <2>4
<1>5. Len(s) \in S
  <2>. HIDE DEF S
  <2>1. \A i \in 0..Len(s) : i \in S
    BY <1>3, <1>4, UpTo
  <2>. QED
    BY <2>1
<1>. QED
  BY <1>1, <1>2, <1>5

(* Five numbers that are at most m.                                         *)
LEMMA TotalOfFive ==
  ASSUME NEW m \in Nat, NEW s, Len(s) = 5, \A i \in 1..5 : s[i] \in 0..m
  PROVE  Total(s) \in Nat /\ Total(s) <= 5 * m
<1>1. PICK f : /\ f[0] = 0 /\ Total(s) = f[5]
               /\ \A n \in 1..5 : f[n] = f[n - 1] + s[n]
  <2>1. Len(s) \in Nat
    OBVIOUS
  <2>2. PICK f : /\ f[0] = 0 /\ Total(s) = f[Len(s)]
                 /\ \A n \in 1..Len(s) : f[n] = f[n - 1] + s[n]
    BY <2>1, TotalSteps
  <2>. QED
    BY <2>2
<1>2. /\ f[1] = f[0] + s[1] /\ f[2] = f[1] + s[2] /\ f[3] = f[2] + s[3]
      /\ f[4] = f[3] + s[4] /\ f[5] = f[4] + s[5]
  BY <1>1
<1>3. f[1] \in 0..m
  BY <1>1, <1>2
<1>4. f[2] \in 0..(2 * m)
  BY <1>2, <1>3
<1>5. f[3] \in 0..(3 * m)
  BY <1>2, <1>4
<1>6. f[4] \in 0..(4 * m)
  BY <1>2, <1>5
<1>7. f[5] \in 0..(5 * m)
  BY <1>2, <1>6
<1>8. PICK n : n = f[5]
  OBVIOUS
<1>9. n \in Nat /\ n <= 5 * m
  BY <1>7, <1>8
<1>. QED
  BY <1>1, <1>8, <1>9, Zenon

(* What is at most a hundred times as much is rounded to 0..100.            *)
LEMMA RoundInRange ==
  ASSUME NEW b \in Nat \ {0}, NEW a \in Nat, a <= 100 * b
  PROVE  Round(a, b) \in 0..100
<1>. DEFINE q == a \div b
            r == a % b
<1>1. q \in Int /\ r \in 0..(b - 1) /\ a = b * q + r
  OBVIOUS
<1>. HIDE DEF q, r
<1>2. q >= 0
  <2>. SUFFICES ASSUME q <= -1 PROVE FALSE
    BY <1>1
  <2>1. b * q <= b * (-1)
    BY <1>1
  <2>. QED
    BY <1>1, <2>1
<1>3. q <= 100
  <2>. SUFFICES ASSUME q >= 101 PROVE FALSE
    BY <1>1
  <2>1. b * q >= b * 101
    BY <1>1
  <2>. QED
    BY <1>1, <2>1
<1>4. q = 100 => r = 0
  BY <1>1
<1>. QED
  BY <1>1, <1>2, <1>3, <1>4 DEF Round, q, r

(* The questions of the bank.                                               *)
LEMMA BankRange ==
  /\ DOMAIN ASSESSMENT_BANK = 1..11 /\ Len(ASSESSMENT_BANK) = 11
  /\ ToSet(ASSESSMENT_BANK) = {ASSESSMENT_BANK[i] : i \in 1..11}
<1>1. DOMAIN ASSESSMENT_BANK = 1..11 /\ Len(ASSESSMENT_BANK) = 11
  BY DEF ASSESSMENT_BANK
<1>. QED
  BY <1>1 DEF ToSet

(* The points of an answer are up to five.                                  *)
LEMMA PointsOfAnswers ==
  ASSUME NEW q \in ToSet(ASSESSMENT_BANK)
  PROVE  \A v \in DOMAIN q.points : q.points[v] \in 0..5
<1>1. PICK i \in 1..11 : q = ASSESSMENT_BANK[i]
  BY BankRange
<1>2. CASE i = 1
  <2>1. q.points = [idea |-> 1, prototype |-> 2, mvp |-> 3, live |-> 4]
    BY <1>1, <1>2 DEF ASSESSMENT_BANK, Choice
  <2>. QED
    BY <2>1
<1>3. CASE i \in {2, 3, 7, 11}
  <2>1. q.points = [v \in 1..5 |-> v]
    BY <1>1, <1>3 DEF ASSESSMENT_BANK, Scale
  <2>. QED
    BY <2>1
<1>4. CASE i = 4
  <2>1. q.points = [none |-> 0, some |-> 2, deep |-> 3]
    BY <1>1, <1>4 DEF ASSESSMENT_BANK, Choice
  <2>. QED
    BY <2>1
<1>5. CASE i \in {5, 8}
  <2>1. q.points = [no |-> 0, yes |-> 2]
    BY <1>1, <1>5 DEF ASSESSMENT_BANK, Choice
  <2>. QED
    BY <2>1
<1>6. CASE i = 6
  <2>1. q.points = << >>
    BY <1>1, <1>6 DEF ASSESSMENT_BANK, Currency
  <2>. QED
    BY <2>1
<1>7. CASE i = 9
  <2>1. q.points = [no |-> 0, unsure |-> 1, yes |-> 2]
    BY <1>1, <1>7 DEF ASSESSMENT_BANK, Choice
  <2>. QED
    BY <2>1
<1>8. CASE i = 10
  <2>1. q.points = [solo |-> 1, cofounders |-> 3, team |-> 3]
    BY <1>1, <1>8 DEF ASSESSMENT_BANK, Choice
  <2>. QED
    BY <2>1
<1>. QED
  BY <1>2, <1>3, <1>4, <1>5, <1>6, <1>7, <1>8

(* No two questions have one key.                                           *)
LEMMA KeysDiffer ==
  ASSUME NEW p \in ToSet(ASSESSMENT_BANK), NEW q \in ToSet(ASSESSMENT_BANK), p.key = q.key
  PROVE  p = q
<1>1. PICK i, j \in 1..11 : p = ASSESSMENT_BANK[i] /\ q = ASSESSMENT_BANK[j]
  BY BankRange
<1>2. i = j
  BY <1>1 DEF ASSESSMENT_BANK, Choice, Scale, Currency
<1>. QED
  BY <1>1, <1>2

(* A question is found by its key.                                          *)
LEMMA QuestionOfKey ==
  ASSUME NEW q \in ToSet(ASSESSMENT_BANK)
  PROVE  question_by_key(q.key) = q
<1>1. question_by_key(q.key) \in ToSet(ASSESSMENT_BANK) /\ question_by_key(q.key).key = q.key
  BY DEF question_by_key
<1>. QED
  BY <1>1, KeysDiffer

(* An answer earns at most what its question can.                           *)
LEMMA PointsAtMost ==
  ASSUME NEW q \in ToSet(ASSESSMENT_BANK)
  PROVE  /\ MaxPoints(q) \in Nat
         /\ \A v \in validate_answer(q) : _points(q, v) \in Nat /\ _points(q, v) <= MaxPoints(q)
<1>. DEFINE S == {q.points[v] : v \in DOMAIN q.points} \cup {0}
<1>1. S \subseteq 0..5 /\ S # {} /\ 0 \in S
  BY PointsOfAnswers
<1>2. \A v \in DOMAIN q.points : q.points[v] \in S
  OBVIOUS
<1>3. MaxPoints(q) = Max(S)
  BY DEF MaxPoints
<1>. HIDE DEF S
<1>4. Max(S) \in S /\ \A y \in S : y <= Max(S)
  BY <1>1, MaxOfNumbers
<1>. QED
  BY <1>1, <1>2, <1>3, <1>4 DEF validate_answer, _points

(* The next question is one of the bank.                                    *)
LEMMA NextInBank ==
  ASSUME NEW answers, next_question(answers) # << >>
  PROVE  next_question(answers)[1] \in ToSet(ASSESSMENT_BANK)
<1>. DEFINE open == {i \in DOMAIN ASSESSMENT_BANK :
                       /\ ASSESSMENT_BANK[i].key \notin DOMAIN answers
                       /\ is_applicable(ASSESSMENT_BANK[i], answers)}
<1>1. open # {} /\ next_question(answers) = <<ASSESSMENT_BANK[Min(open)]>>
  BY Zenon DEF next_question
<1>2. open \subseteq 1..11 /\ open \subseteq Nat
  BY BankRange
<1>. HIDE DEF open
<1>3. Min(open) \in 1..11
  BY <1>1, <1>2, MinOfNumbers
<1>. QED
  BY <1>1, <1>3, BankRange

(* Scores of valid answers are up to a hundred without being clamped.       *)
LEMMA ScoresInRange ==
  ASSUME NEW answers, Answers(answers)
  PROVE  score(answers) \in Scores
<1>. SUFFICES ASSUME NEW d \in ToSet(Dimension), maxsum(d, answers) # 0
              PROVE  Pct(earned(d, answers), maxsum(d, answers)) \in 0..100
  BY DEF score, Scores
<1>. DEFINE got == [i \in DOMAIN ASSESSMENT_BANK |->
                      LET q == ASSESSMENT_BANK[i] IN
                      IF Counts(q, d, answers) THEN _points(q, answers[q.key]) ELSE 0]
            can == [i \in DOMAIN ASSESSMENT_BANK |->
                      LET q == ASSESSMENT_BANK[i] IN IF Counts(q, d, answers) THEN MaxPoints(q) ELSE 0]
<1>1. earned(d, answers) = Total(got) /\ maxsum(d, answers) = Total(can)
  BY DEF earned, maxsum
<1>2. ASSUME NEW i \in 1..11 PROVE got[i] \in Nat /\ can[i] \in Nat /\ got[i] <= can[i]
  <2>. PICK q : q = ASSESSMENT_BANK[i]
    OBVIOUS
  <2>1. q \in ToSet(ASSESSMENT_BANK)
    BY BankRange
  <2>2. /\ got[i] = IF Counts(q, d, answers) THEN _points(q, answers[q.key]) ELSE 0
        /\ can[i] = IF Counts(q, d, answers) THEN MaxPoints(q) ELSE 0
    BY BankRange
  <2>3. Counts(q, d, answers) => answers[q.key] \in validate_answer(q)
    BY <2>1, QuestionOfKey DEF Counts, Answers
  <2>4. MaxPoints(q) \in Nat
    BY <2>1, PointsAtMost
  <2>5. \A v \in validate_answer(q) : _points(q, v) \in Nat /\ _points(q, v) <= MaxPoints(q)
    BY <2>1, PointsAtMost
  <2>6. CASE Counts(q, d, answers)
    <3>. PICK m, n : m = MaxPoints(q) /\ n = _points(q, answers[q.key])
      OBVIOUS
    <3>1. m \in Nat /\ n \in Nat /\ n <= m
      BY <2>3, <2>4, <2>5, <2>6
    <3>2. got[i] = n /\ can[i] = m
      BY <2>2, <2>6, Zenon
    <3>. HIDE DEF got, can
    <3>. QED
      BY <3>1, <3>2
  <2>7. CASE ~Counts(q, d, answers)
    <3>1. got[i] = 0 /\ can[i] = 0
      BY <2>2, <2>7, Zenon
    <3>. HIDE DEF got, can
    <3>. QED
      BY <3>1
  <2>. QED
    BY <2>6, <2>7
<1>3. Len(got) = 11 /\ Len(can) = 11
  BY BankRange
<1>. HIDE DEF got, can
<1>4. \A i \in 1..Len(got) : got[i] \in Nat /\ can[i] \in Nat /\ got[i] <= can[i]
  BY <1>2, <1>3
<1>5. Total(got) \in Nat /\ Total(can) \in Nat /\ Total(got) <= Total(can)
  <2>1. Len(got) \in Nat /\ Len(can) = Len(got)
    BY <1>3
  <2>. QED
    BY <1>4, <2>1, TotalsCompare
<1>. QED
  <2>. PICK a, b \in Nat : a = Total(got) /\ b = Total(can)
    BY <1>5
  <2>1. b \in Nat \ {0} /\ 100 * a \in Nat /\ 100 * a <= 100 * b
    BY <1>1, <1>5
  <2>. QED
    BY <1>1, <2>1, RoundInRange DEF Pct

(* The score of five dimensions, and the band it is in.                     *)
LEMMA OverallInRange ==
  ASSUME NEW scores \in Scores
  PROVE  /\ weighted_overall(scores) \in 0..100
         /\ overall_provisional(scores) \in 0..100
<1>1. /\ Len(Dimension) = 5 /\ DOMAIN Dimension = 1..5
      /\ \A i \in 1..5 : Dimension[i] \in ToSet(Dimension)
  BY DEF Dimension, ToSet
<1>2. \A i \in 1..5 : scores[Dimension[i]] \in 0..100
  BY <1>1 DEF Scores
<1>3. PICK s : s = [i \in DOMAIN Dimension |-> scores[Dimension[i]]]
  OBVIOUS
<1>4. PICK w : w = [i \in DOMAIN Dimension |-> 20 * scores[Dimension[i]]]
  OBVIOUS
<1>5. Len(s) = 5
  BY <1>1, <1>3
<1>6. Len(w) = 5
  BY <1>1, <1>4
<1>7. Total(s) \in Nat /\ Total(s) <= 500
  <2>1. PICK m \in Nat : m = 100
    OBVIOUS
  <2>2. \A i \in 1..5 : s[i] \in 0..m
    BY <1>1, <1>2, <1>3, <2>1
  <2>3. Total(s) \in Nat /\ Total(s) <= 5 * m
    BY <1>5, <2>2, TotalOfFive
  <2>4. 5 * m = 500
    BY <2>1
  <2>. QED
    BY <2>3, <2>4
<1>8. Total(w) \in Nat /\ Total(w) <= 10000
  <2>1. PICK m \in Nat : m = 2000
    OBVIOUS
  <2>2. ASSUME NEW i \in 1..5 PROVE w[i] \in 0..m
    <3>1. PICK n : n = scores[Dimension[i]]
      OBVIOUS
    <3>2. w[i] = 20 * n
      BY <1>1, <1>4, <3>1
    <3>3. n \in 0..100
      BY <1>2, <3>1
    <3>4. 20 * n \in 0..m
      BY <2>1, <3>3
    <3>. QED
      BY <3>2, <3>4
  <2>3. \A i \in 1..5 : w[i] \in 0..m
    BY <2>2
  <2>4. Total(w) \in Nat /\ Total(w) <= 5 * m
    BY <1>6, <2>3, TotalOfFive
  <2>5. 5 * m = 10000
    BY <2>1
  <2>. QED
    BY <2>4, <2>5
<1>9. Round(Total(s), 5) \in 0..100 /\ Round(Total(w), 100) \in 0..100
  <2>1. PICK a \in Nat, b \in Nat : a = Total(s) /\ b = Total(w) /\ a <= 500 /\ b <= 10000
    BY <1>7, <1>8
  <2>2. PICK five \in Nat \ {0}, hundred \in Nat \ {0} : five = 5 /\ hundred = 100
    OBVIOUS
  <2>3. a <= 100 * five /\ b <= 100 * hundred
    BY <2>1, <2>2
  <2>4. Round(a, five) \in 0..100
    BY <2>3, RoundInRange
  <2>5. Round(b, hundred) \in 0..100
    BY <2>3, RoundInRange
  <2>6. Round(Total(s), 5) = Round(a, five) /\ Round(Total(w), 100) = Round(b, hundred)
    BY <2>1, <2>2
  <2>. QED
    BY <2>4, <2>5, <2>6
<1>10. weighted_overall(scores) = Round(Total(w), 100)
  BY <1>4, Zenon DEF weighted_overall
<1>11. overall_provisional(scores) = Round(Total(s), 5)
  BY <1>1, <1>3, Zenon DEF overall_provisional
<1>. QED
  BY <1>9, <1>10, <1>11, Zenon

(* Every score has its band.                                                *)
LEMMA BandOfScore ==
  ASSUME NEW n \in 0..100
  PROVE  band_for(n) \in {BANDS[i][2] : i \in DOMAIN BANDS}
<1>1. DOMAIN BANDS = 1..4 /\ BANDS[4][1] = 100
  BY DEF BANDS
<1>. DEFINE S == {i \in DOMAIN BANDS : n <= BANDS[i][1]}
<1>2. S \subseteq Nat /\ S # {} /\ S \subseteq DOMAIN BANDS
  BY <1>1
<1>3. band_for(n) = BANDS[Min(S)][2]
  BY DEF band_for
<1>. HIDE DEF S
<1>4. Min(S) \in S
  BY <1>2, MinOfNumbers
<1>. QED
  BY <1>2, <1>3, <1>4

(* The difference from an earlier score is up to a hundred.                 *)
LEMMA DeltaInRange ==
  ASSUME NEW h \in Seq(HealthScoreHistory), NEW n \in 0..100, week \in 0..1
  PROVE  _delta_7d(h, n) \in -100..100
<1>. DEFINE old == {i \in DOMAIN h : h[i].week < week}
<1>1. Len(h) \in Nat /\ DOMAIN h = 1..Len(h) /\ \A i \in 1..Len(h) : h[i].score \in 0..100
  <2>1. \A i \in 1..Len(h) : h[i] \in HealthScoreHistory
    OBVIOUS
  <2>. QED
    BY <2>1 DEF HealthScoreHistory
<1>2. old \subseteq 0..Len(h) /\ old \subseteq 1..Len(h)
  BY <1>1
<1>3. _delta_7d(h, n) = IF h = << >> THEN 0 ELSE n - h[IF old # {} THEN Max(old) ELSE 1].score
  BY DEF _delta_7d
<1>. HIDE DEF old
<1>4. old # {} => Max(old) \in 1..Len(h)
  BY <1>1, <1>2, MaxOfNumbers
<1>5. h # << >> => 1 \in 1..Len(h)
  BY <1>1
<1>6. h # << >> => h[IF old # {} THEN Max(old) ELSE 1].score \in 0..100
  BY <1>1, <1>4, <1>5
<1>7. \A x \in 0..100 : n - x \in -100..100
  OBVIOUS
<1>8. CASE h = << >>
  BY <1>3, <1>8
<1>9. CASE h # << >>
  BY <1>3, <1>6, <1>7, <1>9
<1>. QED
  BY <1>8, <1>9

(* Ranks are numbers of entries of the catalogue.                           *)
LEMMA RanksInCatalog ==
  ASSUME NEW scores
  PROVE  DOMAIN candidates(scores) \subseteq 1..Len(RECOMMENDATION_CATALOG)
<1>1. Len(RECOMMENDATION_CATALOG) = 10 /\ DOMAIN RECOMMENDATION_CATALOG = 1..10
  BY DEF RECOMMENDATION_CATALOG
<1>. DEFINE weak == {i \in DOMAIN RECOMMENDATION_CATALOG :
                       scores[RECOMMENDATION_CATALOG[i].dim] < RECOMMENDATION_CATALOG[i].below}
<1>2. DOMAIN candidates(scores) = 1..Cardinality(weak)
  BY DEF candidates
<1>3. IsFiniteSet(1..10) /\ Cardinality(1..10) = 10
  <2>1. \A n \in Nat : IsFiniteSet(1..n) /\ Cardinality(1..n) = n
    BY FS_Interval
  <2>. QED
    BY <2>1
<1>4. weak \subseteq 1..10
  BY <1>1
<1>. HIDE DEF weak
<1>5. Cardinality(weak) <= 10 /\ Cardinality(weak) \in Nat
  <2>1. PICK T : T = 1..10 /\ IsFiniteSet(T) /\ Cardinality(T) = 10
    BY <1>3
  <2>2. IsFiniteSet(weak) /\ Cardinality(weak) <= Cardinality(T)
    BY <1>4, <2>1, FS_Subset
  <2>. QED
    BY <2>1, <2>2, FS_CardinalityType
<1>. QED
  BY <1>1, <1>2, <1>5

-----------------------------------------------------------------------------
Types == {"initial", "quarterly"}
Recomputing(r) == txn[r].op \in {"recompute", "scored"}
ForAttempt(r) == Recomputing(r) /\ txn[r].trigger = "assessment_complete"

(* The table has a place for every request.                                 *)
Table == txn = [r \in Requests |-> txn[r]] /\ alone = [r \in Requests |-> alone[r]]

(* The first attempts are completed and have their results, and one more    *)
(* may be in progress.                                                      *)
Lengths ==
    /\ Sequence(assessments) /\ Sequence(results) /\ Sequence(completions)
    /\ Len(completions) = Len(assessments)
    /\ Len(assessments) \in {Len(results), Len(results) + 1}
    /\ pending \in BOOLEAN

Attempt(a) ==
    /\ assessments[a] \in [type : Types, status : {"in_progress", "completed"},
                           answers : {assessments[a].answers}]
    /\ assessments[a].status = "completed" <=> a <= Len(results)
    /\ completions[a] = IF a <= Len(results) THEN 1 ELSE 0
    /\ a <= Len(results) /\ assessments[a].type = "initial" => pending = FALSE

HasResult(a) ==
    /\ results[a] \in [scores : {results[a].scores}, narrative : {"template", "ai"}]
    /\ DOMAIN results[a].scores = ToSet(Dimension)

Attempts ==
    /\ \A a \in 1..Len(assessments) : Attempt(a)
    /\ \A a \in 1..Len(results) : HasResult(a)

(* A request starts an attempt when none is in progress, and completes the  *)
(* one that is.                                                             *)
Starts(r) ==
    /\ txn[r].op = "start" => txn[r] \in [op : {"start"}, type : Types]
    /\ txn[r].op = "started" => txn[r].type \in Types /\ Len(assessments) = Len(results)
    /\ txn[r].op \in {"answer", "complete"} => txn[r].assessment \in 1..Len(assessments)
    /\ txn[r].op = "narrative" => txn[r].assessment \in 1..Len(results)

Recomputes(r) ==
    /\ Recomputing(r) =>
         txn[r] \in [op : {"recompute", "scored"}, trigger : {"assessment_complete", "lazy_read"},
                     assessment : {txn[r].assessment}, scores : {txn[r].scores},
                     deletes : {txn[r].deletes}, history : {txn[r].history}, read : {txn[r].read}]
    /\ ForAttempt(r) =>
         /\ txn[r].assessment = Len(assessments) /\ Len(assessments) = Len(results) + 1
         /\ DOMAIN txn[r].scores = ToSet(Dimension)

(* What a request that is to write the recommendations has read of them is  *)
(* all there are, and what was decided then is decided now.                 *)
ReadAll(r) ==
    /\ txn[r].op = "scored" =>
         /\ DOMAIN txn[r].read = DOMAIN recs
         /\ \A k \in DOMAIN recs : txn[r].read[k].status # "pending" => recs[k].status # "pending"
    /\ txn[r].op = "resolve" => txn[r].status \in {"accepted", "dismissed"}

(* The signals a request deletes are all, if nobody has committed since.    *)
DeletesAll(r) == Recomputing(r) /\ alone[r] => txn[r].deletes = signals

(* Of requests that insert an attempt, complete one, or have upserted the   *)
(* score, there is one at a time.                                           *)
Apart(q, r) ==
    /\ ~(txn[q].op = "started" /\ txn[r].op = "started")
    /\ ~(ForAttempt(q) /\ ForAttempt(r))
    /\ ~(txn[q].op = "scored" /\ txn[r].op = "scored")

Ranked ==
    /\ \A k \in DOMAIN recs : recs[k] \in HealthRecommendation
    /\ PendingMatchesScore

UnderWay(r) == Starts(r) /\ Recomputes(r) /\ ReadAll(r) /\ DeletesAll(r)

AssessmentInv ==
    /\ Table /\ Lengths /\ Attempts /\ Ranked
    /\ \A r \in Requests : UnderWay(r)
    /\ \A q, r \in Requests : q # r => Apart(q, r)

-----------------------------------------------------------------------------
(* A request goes on and the others stay where they are.                    *)
LEMMA TableStep ==
  ASSUME Table, NEW r \in Requests, NEW t, Begin(r, t) \/ Go(r, t)
  PROVE  /\ Table' /\ txn'[r] = t /\ UNCHANGED alone
         /\ \A q \in Requests \ {r} : txn'[q] = txn[q]
  BY DEF Table, Begin, Go

(* One that ends does nothing more, and what the others began is raced.     *)
LEMMA TableCommit ==
  ASSUME Table, NEW r \in Requests, Commit(r)
  PROVE  /\ Table' /\ txn'[r] = Idle
         /\ \A q \in Requests \ {r} : txn'[q] = txn[q] /\ (txn[q] # Idle => alone'[q] = FALSE)
  BY DEF Table, Commit

(* Requests keep their promises when the rows do not change, so only that   *)
(* of the request that goes on is to be shown.                              *)
LEMMA Moves ==
  ASSUME AssessmentInv, NEW r \in Requests,
         UNCHANGED <<assessments, completions, pending, results, health, signals, recs>>,
         Table', UnderWay(r)',
         \A q \in Requests \ {r} : txn'[q] = txn[q] /\ alone'[q] = alone[q] /\ Apart(q, r)'
  PROVE  AssessmentInv'
<1>1. Lengths' /\ Attempts' /\ Ranked'
  <2>1. Lengths'
    BY DEF AssessmentInv, Lengths
  <2>2. Attempts'
    BY DEF AssessmentInv, Attempts, Attempt, HasResult
  <2>3. Ranked'
    BY DEF AssessmentInv, Ranked, PendingMatchesScore, list_recommendations
  <2>. QED
    BY <2>1, <2>2, <2>3
<1>2. ASSUME NEW q \in Requests \ {r} PROVE UnderWay(q)'
  <2>1. UnderWay(q)
    BY DEF AssessmentInv
  <2>. QED
    BY <2>1 DEF UnderWay, Starts, Recomputes, ReadAll, DeletesAll, ForAttempt, Recomputing
<1>3. ASSUME NEW p \in Requests, NEW q \in Requests, p # q PROVE Apart(p, q)'
  <2>1. Apart(p, q)
    BY <1>3 DEF AssessmentInv
  <2>2. CASE p # r /\ q # r
    BY <2>1, <2>2 DEF Apart, ForAttempt, Recomputing
  <2>3. CASE q = r
    BY <1>3, <2>3
  <2>4. CASE p = r
    <3>1. Apart(q, p)'
      BY <1>3, <2>4
    <3>. QED
      BY <3>1 DEF Apart
  <2>. QED
    BY <2>2, <2>3, <2>4
<1>. QED
  BY <1>1, <1>2, <1>3 DEF AssessmentInv

(* Requests begin with a row's copy or number, ...                          *)
LEMMA PlainBegins ==
  ASSUME AssessmentInv, NEW r \in Requests,
         UNCHANGED <<assessments, completions, pending, results, health, signals, recs>>,
         \/ start_assessment(r) \/ submit_answer(r) \/ post_complete_assessment(r)
         \/ handle_assessment_narrative(r)
         \/ accept_recommendation(r) \/ dismiss_recommendation(r) \/ handle_health_recommendations(r)
  PROVE  AssessmentInv'
<1>1. DOMAIN assessments = 1..Len(assessments) /\ DOMAIN results = 1..Len(results)
  BY RowNumbers DEF AssessmentInv, Lengths
<1>2. \E t : /\ Begin(r, t)
             /\ \/ t \in [op : {"start"}, type : Types]
                \/ t.op \in {"answer", "complete"} /\ t.assessment \in 1..Len(assessments)
                \/ t.op = "narrative" /\ t.assessment \in 1..Len(results)
                \/ t.op = "resolve" /\ t.status \in {"accepted", "dismissed"}
                \/ t.op = "bodies"
  <2>1. CASE start_assessment(r)
    <3>1. PICK type \in Types : Begin(r, [op |-> "start", type |-> type])
      BY <2>1 DEF start_assessment, Types
    <3>2. [op |-> "start", type |-> type] \in [op : {"start"}, type : Types]
      OBVIOUS
    <3>. QED
      BY <3>1, <3>2
  <2>2. CASE submit_answer(r)
    <3>1. PICK a, key, v :
            /\ a \in InProgress
            /\ Begin(r, [op |-> "answer", assessment |-> a, key |-> key, value |-> v])
      BY <2>2, Zenon DEF submit_answer
    <3>2. a \in 1..Len(assessments)
      BY <1>1, <3>1 DEF InProgress
    <3>. QED
      BY <3>1, <3>2
  <2>3. CASE post_complete_assessment(r)
    BY <1>1, <2>3 DEF post_complete_assessment
  <2>4. CASE handle_assessment_narrative(r)
    BY <1>1, <2>4 DEF handle_assessment_narrative
  <2>5. CASE accept_recommendation(r) \/ dismiss_recommendation(r)
    <3>1. \E to \in {"accepted", "dismissed"} : resolve_recommendation(r, to)
      BY <2>5 DEF accept_recommendation, dismiss_recommendation
    <3>2. PICK to \in {"accepted", "dismissed"} : resolve_recommendation(r, to)
      BY <3>1
    <3>3. PICK k : Begin(r, [op |-> "resolve", key |-> k, status |-> to])
      BY <3>2 DEF resolve_recommendation
    <3>. QED
      BY <3>2, <3>3
  <2>6. CASE handle_health_recommendations(r)
    BY <2>6 DEF handle_health_recommendations
  <2>. QED
    BY <2>1, <2>2, <2>3, <2>4, <2>5, <2>6
<1>3. PICK t : /\ Begin(r, t)
               /\ \/ t \in [op : {"start"}, type : Types]
                  \/ t.op \in {"answer", "complete"} /\ t.assessment \in 1..Len(assessments)
                  \/ t.op = "narrative" /\ t.assessment \in 1..Len(results)
                  \/ t.op = "resolve" /\ t.status \in {"accepted", "dismissed"}
                  \/ t.op = "bodies"
  BY <1>2
<1>4. /\ Table' /\ txn'[r] = t /\ UNCHANGED alone
      /\ \A q \in Requests \ {r} : txn'[q] = txn[q]
  BY <1>3, TableStep DEF AssessmentInv
<1>5. t.op \in {"start", "answer", "complete", "narrative", "resolve", "bodies"}
  BY <1>3
<1>6. Starts(r)'
  BY <1>3, <1>4, <1>5 DEF Starts
<1>7. Recomputes(r)' /\ ReadAll(r)' /\ DeletesAll(r)'
  BY <1>3, <1>4, <1>5 DEF Recomputes, ReadAll, DeletesAll, ForAttempt, Recomputing
<1>8. \A q \in Requests \ {r} : Apart(q, r)'
  BY <1>4, <1>5 DEF Apart, ForAttempt, Recomputing
<1>. QED
  BY <1>4, <1>6, <1>7, <1>8, Moves DEF UnderWay

(* ... wait to be the one that inserts, ...                                 *)
LEMMA StartWaits ==
  ASSUME AssessmentInv, NEW r \in Requests, start_or_resume(r)
  PROVE  AssessmentInv'
<1>1. PICK t : t = txn[r]
  OBVIOUS
<1>2. t \in [op : {"start"}, type : Types]
  BY <1>1 DEF AssessmentInv, UnderWay, Starts, start_or_resume, Doing
<1>3. UNCHANGED <<assessments, completions, pending, results, health, signals, recs>>
  BY DEF start_or_resume, assessmentVars, healthVars
<1>4. CASE InProgress # {}
  <2>1. Go(r, Idle)
    BY <1>4 DEF start_or_resume
  <2>2. /\ Table' /\ txn'[r] = Idle /\ UNCHANGED alone
        /\ \A q \in Requests \ {r} : txn'[q] = txn[q]
    BY <2>1, TableStep DEF AssessmentInv
  <2>3. UnderWay(r)' /\ \A q \in Requests \ {r} : Apart(q, r)'
    BY <2>2 DEF Idle, UnderWay, Starts, Recomputes, ReadAll, DeletesAll, ForAttempt, Recomputing, Apart
  <2>. QED
    BY <1>3, <2>2, <2>3, Moves
<1>5. CASE InProgress = {}
  <2>. DEFINE new == [t EXCEPT !.op = "started"]
  <2>1. new \in [op : {"started"}, type : Types]
    BY <1>2
  <2>2. Go(r, new)
    BY <1>1, <1>5 DEF start_or_resume
  <2>. HIDE DEF new
  <2>3. /\ Table' /\ txn'[r] = new /\ UNCHANGED alone
        /\ \A q \in Requests \ {r} : txn'[q] = txn[q]
    BY <2>2, TableStep DEF AssessmentInv
  <2>4. Len(assessments) = Len(results)
    <3>1. DOMAIN assessments = 1..Len(assessments) /\ Len(assessments) \in Nat /\ Len(results) \in Nat
      BY RowNumbers DEF AssessmentInv, Lengths
    <3>2. ASSUME Len(assessments) = Len(results) + 1 PROVE FALSE
      <4>1. Len(assessments) \in 1..Len(assessments)
        BY <3>1, <3>2
      <4>2. Attempt(Len(assessments))
        BY <4>1 DEF AssessmentInv, Attempts
      <4>3. assessments[Len(assessments)].status = "in_progress"
        BY <3>1, <3>2, <4>2 DEF Attempt
      <4>. QED
        BY <1>5, <3>1, <4>1, <4>3 DEF InProgress
    <3>. QED
      BY <3>2 DEF AssessmentInv, Lengths
  <2>5. Starts(r)'
    BY <1>3, <2>1, <2>3, <2>4 DEF Starts
  <2>6. Recomputes(r)' /\ ReadAll(r)' /\ DeletesAll(r)'
    BY <2>1, <2>3 DEF Recomputes, ReadAll, DeletesAll, ForAttempt, Recomputing
  <2>7. \A q \in Requests \ {r} : Apart(q, r)'
    BY <2>1, <2>3 DEF start_or_resume, Others, Doing, Apart, ForAttempt, Recomputing
  <2>. QED
    BY <1>3, <2>3, <2>5, <2>6, <2>7, Moves DEF UnderWay
<1>. QED
  BY <1>4, <1>5

(* What a recomputation carries.                                            *)
LEMMA RecomputeCarries ==
  ASSUME NEW trigger \in {"assessment_complete", "lazy_read"}, NEW a, NEW scores,
         NEW t, t = Recompute(trigger, a, scores)
  PROVE  /\ t \in [op : {"recompute", "scored"}, trigger : {"assessment_complete", "lazy_read"},
                   assessment : {t.assessment}, scores : {t.scores},
                   deletes : {t.deletes}, history : {t.history}, read : {t.read}]
         /\ t.op = "recompute" /\ t.trigger = trigger /\ t.assessment = a /\ t.scores = scores
         /\ t.deletes = signals
  BY DEF Recompute

(* ... or recompute the score, for the first reader ...                     *)
LEMMA ReaderRecomputes ==
  ASSUME AssessmentInv, NEW r \in Requests, get_health_score(r), UNCHANGED assessmentVars
  PROVE  AssessmentInv'
<1>1. PICK a, scores : Begin(r, Recompute("lazy_read", a, scores))
  BY DEF get_health_score
<1>2. PICK t : t = Recompute("lazy_read", a, scores)
  OBVIOUS
<1>3. UNCHANGED <<assessments, completions, pending, results, health, signals, recs>>
  BY DEF get_health_score, assessmentVars, healthVars
<1>4. /\ Table' /\ txn'[r] = t /\ UNCHANGED alone
      /\ \A q \in Requests \ {r} : txn'[q] = txn[q]
  BY <1>1, <1>2, TableStep DEF AssessmentInv
<1>5. /\ t \in [op : {"recompute", "scored"}, trigger : {"assessment_complete", "lazy_read"},
                assessment : {t.assessment}, scores : {t.scores},
                deletes : {t.deletes}, history : {t.history}, read : {t.read}]
      /\ t.op = "recompute" /\ t.trigger = "lazy_read" /\ t.deletes = signals
  BY <1>2, RecomputeCarries
<1>6. Starts(r)' /\ ReadAll(r)'
  BY <1>4, <1>5 DEF Starts, ReadAll
<1>7. Recomputes(r)'
  BY <1>4, <1>5 DEF Recomputes, ForAttempt, Recomputing
<1>8. DeletesAll(r)'
  BY <1>3, <1>4, <1>5 DEF DeletesAll
<1>9. \A q \in Requests \ {r} : Apart(q, r)'
  BY <1>4, <1>5 DEF Apart, ForAttempt
<1>. QED
  BY <1>3, <1>4, <1>6, <1>7, <1>8, <1>9, Moves DEF UnderWay

(* ... and for the one request that claims a completion, which holds the    *)
(* attempt in progress.                                                     *)
LEMMA ClaimantRecomputes ==
  ASSUME AssessmentInv, NEW r \in Requests, complete_assessment(r)
  PROVE  AssessmentInv'
<1>1. PICK a : a = txn[r].assessment
  OBVIOUS
<1>2. a \in 1..Len(assessments)
  BY <1>1 DEF AssessmentInv, UnderWay, Starts, complete_assessment, Doing
<1>3. UNCHANGED <<assessments, completions, pending, results, health, signals, recs>>
  BY DEF complete_assessment, assessmentVars, healthVars
<1>4. CASE ~Claims(r)
  <2>1. Go(r, Idle)
    BY <1>4 DEF complete_assessment
  <2>2. /\ Table' /\ txn'[r] = Idle /\ UNCHANGED alone
        /\ \A q \in Requests \ {r} : txn'[q] = txn[q]
    BY <2>1, TableStep DEF AssessmentInv
  <2>3. UnderWay(r)' /\ \A q \in Requests \ {r} : Apart(q, r)'
    BY <2>2 DEF Idle, UnderWay, Starts, Recomputes, ReadAll, DeletesAll, ForAttempt, Recomputing, Apart
  <2>. QED
    BY <1>3, <2>2, <2>3, Moves
<1>5. CASE Claims(r)
  <2>1. PICK t : t = Recompute("assessment_complete", a, score(txn[r].answers))
    OBVIOUS
  <2>2. Go(r, t)
    BY <1>1, <1>5, <2>1 DEF complete_assessment
  <2>3. /\ Table' /\ txn'[r] = t /\ UNCHANGED alone
        /\ \A q \in Requests \ {r} : txn'[q] = txn[q]
    BY <2>2, TableStep DEF AssessmentInv
  <2>4. /\ t \in [op : {"recompute", "scored"}, trigger : {"assessment_complete", "lazy_read"},
                  assessment : {t.assessment}, scores : {t.scores},
                  deletes : {t.deletes}, history : {t.history}, read : {t.read}]
        /\ t.op = "recompute" /\ t.trigger = "assessment_complete" /\ t.assessment = a
        /\ t.deletes = signals /\ DOMAIN t.scores = ToSet(Dimension)
    BY <2>1, RecomputeCarries, ScoreDomain
  <2>5. a = Len(assessments) /\ Len(assessments) = Len(results) + 1
    <3>1. Len(assessments) \in Nat /\ Len(results) \in Nat /\ Len(assessments) \in {Len(results), Len(results) + 1}
      BY RowNumbers DEF AssessmentInv, Lengths
    <3>2. ~(a <= Len(results))
      BY <1>1, <1>2, <1>5 DEF AssessmentInv, Attempts, Attempt, Claims
    <3>. QED
      BY <1>2, <3>1, <3>2
  <2>6. Starts(r)' /\ ReadAll(r)'
    BY <2>3, <2>4 DEF Starts, ReadAll
  <2>7. Recomputes(r)'
    BY <1>3, <2>3, <2>4, <2>5 DEF Recomputes, ForAttempt, Recomputing
  <2>8. DeletesAll(r)'
    BY <1>3, <2>3, <2>4 DEF DeletesAll
  <2>9. ASSUME NEW q \in Requests \ {r} PROVE Apart(q, r)'
    <3>1. ForAttempt(q) => txn[q].assessment = Len(assessments)
      BY DEF AssessmentInv, UnderWay, Recomputes
    <3>2. ~Completing(q, a)
      BY <1>1, <1>5 DEF complete_assessment
    <3>3. ~ForAttempt(q)
      BY <2>5, <3>1, <3>2 DEF Completing, ForAttempt, Recomputing
    <3>. QED
      BY <2>3, <2>4, <3>3 DEF Apart, ForAttempt, Recomputing
  <2>. QED
    BY <1>3, <2>3, <2>6, <2>7, <2>8, <2>9, Moves DEF UnderWay
<1>. QED
  BY <1>4, <1>5

(* The upsert of the score waits for another's, so no recommendation comes  *)
(* or goes between the reading and the commit.                              *)
LEMMA ScoreWaits ==
  ASSUME AssessmentInv, NEW r \in Requests, recompute_health_score(r), UNCHANGED assessmentVars
  PROVE  AssessmentInv'
<1>1. PICK t : t = txn[r]
  OBVIOUS
<1>2. /\ t \in [op : {"recompute", "scored"}, trigger : {"assessment_complete", "lazy_read"},
                assessment : {t.assessment}, scores : {t.scores},
                deletes : {t.deletes}, history : {t.history}, read : {t.read}]
      /\ t.op = "recompute"
      /\ alone[r] => t.deletes = signals
      /\ t.trigger = "assessment_complete" =>
           /\ t.assessment = Len(assessments) /\ Len(assessments) = Len(results) + 1
           /\ DOMAIN t.scores = ToSet(Dimension)
  BY <1>1 DEF AssessmentInv, UnderWay, Recomputes, DeletesAll, ForAttempt, Recomputing,
              recompute_health_score, Doing
<1>3. UNCHANGED <<assessments, completions, pending, results, health, signals, recs>>
  BY DEF recompute_health_score, assessmentVars, healthVars
<1>. DEFINE new == [t EXCEPT !.op = "scored", !.read = recs]
<1>4. /\ new \in [op : {"recompute", "scored"}, trigger : {"assessment_complete", "lazy_read"},
                  assessment : {t.assessment}, scores : {t.scores},
                  deletes : {t.deletes}, history : {t.history}, read : {recs}]
      /\ new.op = "scored" /\ new.trigger = t.trigger /\ new.assessment = t.assessment
      /\ new.scores = t.scores /\ new.deletes = t.deletes /\ new.history = t.history
      /\ new.read = recs
  BY <1>2
<1>5. Go(r, new)
  BY <1>1 DEF recompute_health_score
<1>. HIDE DEF new
<1>6. /\ Table' /\ txn'[r] = new /\ UNCHANGED alone
      /\ \A q \in Requests \ {r} : txn'[q] = txn[q]
  BY <1>5, TableStep DEF AssessmentInv
<1>7. Starts(r)'
  BY <1>4, <1>6 DEF Starts
<1>8. Recomputes(r)'
  BY <1>2, <1>3, <1>4, <1>6 DEF Recomputes, ForAttempt, Recomputing
<1>9. ReadAll(r)'
  BY <1>3, <1>4, <1>6 DEF ReadAll
<1>10. DeletesAll(r)'
  BY <1>2, <1>3, <1>4, <1>6 DEF DeletesAll
<1>11. ASSUME NEW q \in Requests \ {r} PROVE Apart(q, r)'
  <2>1. Apart(q, r) /\ txn[q].op # "scored"
    BY DEF AssessmentInv, recompute_health_score, Others, Doing
  <2>. QED
    BY <1>1, <1>2, <1>4, <1>6, <2>1 DEF Apart, ForAttempt, Recomputing
<1>. QED
  BY <1>3, <1>6, <1>7, <1>8, <1>9, <1>10, <1>11, Moves DEF UnderWay

-----------------------------------------------------------------------------
(* A commit keeps the invariant if the rows are as they should be and what  *)
(* the others have in hand is still true of them.                           *)
LEMMA Commits ==
  ASSUME AssessmentInv, NEW r \in Requests, Commit(r), Lengths', Attempts', Ranked',
         \A q \in Requests \ {r} : Starts(q)' /\ Recomputes(q)' /\ ReadAll(q)'
  PROVE  AssessmentInv'
<1>1. /\ Table' /\ txn'[r] = Idle
      /\ \A q \in Requests \ {r} : txn'[q] = txn[q] /\ (txn[q] # Idle => alone'[q] = FALSE)
  BY TableCommit DEF AssessmentInv
<1>2. UnderWay(r)'
  BY <1>1 DEF Idle, UnderWay, Starts, Recomputes, ReadAll, DeletesAll, ForAttempt, Recomputing
<1>3. ASSUME NEW q \in Requests \ {r} PROVE DeletesAll(q)'
  BY <1>1 DEF DeletesAll, Recomputing, Idle
<1>4. ASSUME NEW p \in Requests, NEW q \in Requests, p # q PROVE Apart(p, q)'
  <2>1. Apart(p, q)
    BY <1>4 DEF AssessmentInv
  <2>2. CASE p # r /\ q # r
    BY <1>1, <2>1, <2>2 DEF Apart, ForAttempt, Recomputing
  <2>3. CASE p = r \/ q = r
    BY <1>1, <2>3 DEF Idle, Apart, ForAttempt, Recomputing
  <2>. QED
    BY <2>2, <2>3
<1>. QED
  BY <1>1, <1>2, <1>3, <1>4 DEF AssessmentInv, UnderWay

(* A new attempt is the one in progress.                                    *)
LEMMA StartCommits ==
  ASSUME AssessmentInv, NEW r \in Requests, CommitStart(r)
  PROVE  AssessmentInv'
<1>. DEFINE n == Len(assessments)
            new == [type |-> txn[r].type, status |-> "in_progress", answers |-> << >>]
<1>1. txn[r].op = "started" /\ txn[r].type \in Types /\ n = Len(results)
  BY DEF CommitStart, Doing, AssessmentInv, UnderWay, Starts
<1>2. /\ assessments' = Append(assessments, new) /\ completions' = Append(completions, 0)
      /\ UNCHANGED <<pending, results, health, signals, recs>>
      /\ Commit(r)
  BY DEF CommitStart, healthVars
<1>3. new \in [type : Types, status : {"in_progress", "completed"}, answers : {new.answers}]
      /\ new.status = "in_progress"
  BY <1>1
<1>. HIDE DEF new
<1>4. /\ Sequence(assessments') /\ Sequence(completions') /\ n \in Nat
      /\ Len(completions) = n
      /\ Len(assessments') = n + 1 /\ Len(completions') = n + 1
      /\ \A i \in 1..n + 1 : /\ assessments'[i] = IF i <= n THEN assessments[i] ELSE new
                             /\ completions'[i] = IF i <= n THEN completions[i] ELSE 0
  BY <1>2, RowAppended DEF AssessmentInv, Lengths
<1>5. Lengths'
  BY <1>1, <1>2, <1>4 DEF AssessmentInv, Lengths
<1>6. Attempts'
  <2>1. ASSUME NEW a \in 1..n + 1 PROVE Attempt(a)'
    <3>1. CASE a <= n
      <4>1. Attempt(a) /\ assessments'[a] = assessments[a] /\ completions'[a] = completions[a]
        BY <1>4, <3>1 DEF AssessmentInv, Attempts
      <4>. QED
        BY <1>2, <4>1 DEF Attempt
    <3>2. CASE ~(a <= n)
      <4>1. assessments'[a] = new /\ completions'[a] = 0 /\ ~(a <= Len(results))
        BY <1>1, <1>4, <3>2
      <4>. QED
        BY <1>2, <1>3, <4>1 DEF Attempt
    <3>. QED
      BY <3>1, <3>2
  <2>2. \A a \in 1..Len(results) : HasResult(a)'
    BY <1>2 DEF AssessmentInv, Attempts, HasResult
  <2>. QED
    BY <1>2, <1>4, <2>1, <2>2 DEF Attempts
<1>7. Ranked'
  BY <1>2 DEF AssessmentInv, Ranked, PendingMatchesScore, list_recommendations
<1>8. ASSUME NEW q \in Requests \ {r} PROVE Starts(q)' /\ Recomputes(q)' /\ ReadAll(q)'
  <2>1. UnderWay(q) /\ Apart(q, r) /\ txn'[q] = txn[q]
    BY <1>2, TableCommit DEF AssessmentInv
  <2>2. Starts(q)'
    BY <1>1, <1>2, <1>4, <2>1 DEF UnderWay, Starts, Apart
  <2>3. Recomputes(q)'
    BY <1>1, <1>2, <1>4, <2>1 DEF UnderWay, Recomputes, ForAttempt, Recomputing
  <2>4. ReadAll(q)'
    BY <1>2, <2>1 DEF UnderWay, ReadAll
  <2>. QED
    BY <2>2, <2>3, <2>4
<1>. QED
  BY <1>2, <1>5, <1>6, <1>7, <1>8, Commits

(* An answer changes neither an attempt's status nor its number.            *)
LEMMA AnswerCommits ==
  ASSUME AssessmentInv, NEW r \in Requests, post_answer(r)
  PROVE  AssessmentInv'
<1>1. PICK a : a = txn[r].assessment
  OBVIOUS
<1>2. a \in 1..Len(assessments)
  BY <1>1 DEF post_answer, Doing, AssessmentInv, UnderWay, Starts
<1>3. PICK w : /\ assessments' = [assessments EXCEPT ![a] = [assessments[a] EXCEPT !.answers = w]]
               /\ UNCHANGED <<pending, completions, results, health, signals, recs>>
               /\ Commit(r)
  BY <1>1 DEF post_answer, healthVars
<1>4. PICK row : row = assessments[a]
  OBVIOUS
<1>5. row \in [type : Types, status : {"in_progress", "completed"}, answers : {row.answers}]
  BY <1>2, <1>4 DEF AssessmentInv, Attempts, Attempt
<1>. DEFINE new == [row EXCEPT !.answers = w]
<1>6. /\ new \in [type : Types, status : {"in_progress", "completed"}, answers : {new.answers}]
      /\ new.status = row.status /\ new.type = row.type
  BY <1>5
<1>7. assessments' = [assessments EXCEPT ![a] = new]
  BY <1>3, <1>4
<1>. HIDE DEF new
<1>8. /\ Sequence(assessments') /\ Len(assessments') = Len(assessments)
      /\ \A i \in 1..Len(assessments) : assessments'[i] = IF i = a THEN new ELSE assessments[i]
  <2>1. Sequence(assessments)
    BY DEF AssessmentInv, Lengths
  <2>2. PICK s, t, v : s = assessments /\ t = assessments' /\ v = new
    OBVIOUS
  <2>3. Sequence(s) /\ a \in 1..Len(s) /\ t = [s EXCEPT ![a] = v]
    BY <1>2, <1>7, <2>1, <2>2
  <2>4. Sequence(t) /\ Len(t) = Len(s)
    BY <2>3, RowWritten
  <2>5. ASSUME NEW i \in 1..Len(s) PROVE t[i] = IF i = a THEN v ELSE s[i]
    BY <2>3, RowWritten
  <2>. QED
    BY <2>2, <2>4, <2>5
<1>9. Lengths'
  BY <1>3, <1>8 DEF AssessmentInv, Lengths
<1>10. Attempts'
  <2>1. ASSUME NEW i \in 1..Len(assessments) PROVE Attempt(i)'
    <3>1. Attempt(i)
      BY DEF AssessmentInv, Attempts
    <3>2. CASE i = a
      BY <1>3, <1>4, <1>6, <1>8, <3>1, <3>2 DEF Attempt
    <3>3. CASE i # a
      BY <1>3, <1>8, <3>1, <3>3 DEF Attempt
    <3>. QED
      BY <3>2, <3>3
  <2>2. \A i \in 1..Len(results) : HasResult(i)'
    BY <1>3 DEF AssessmentInv, Attempts, HasResult
  <2>. QED
    BY <1>3, <1>8, <2>1, <2>2 DEF Attempts
<1>11. Ranked'
  <2>1. UNCHANGED <<health, recs>>
    BY <1>3
  <2>. QED
    BY <2>1 DEF AssessmentInv, Ranked, PendingMatchesScore, list_recommendations
<1>12. ASSUME NEW q \in Requests \ {r} PROVE Starts(q)' /\ Recomputes(q)' /\ ReadAll(q)'
  <2>1. txn'[q] = txn[q] /\ Starts(q) /\ Recomputes(q) /\ ReadAll(q)
    BY <1>3, TableCommit DEF AssessmentInv, UnderWay
  <2>2. Len(assessments') = Len(assessments) /\ UNCHANGED <<results, recs>>
    BY <1>3, <1>8
  <2>3. Starts(q)'
    BY <2>1, <2>2 DEF Starts
  <2>4. Recomputes(q)'
    BY <2>1, <2>2 DEF Recomputes, ForAttempt, Recomputing
  <2>5. ReadAll(q)'
    BY <2>1, <2>2 DEF ReadAll
  <2>. QED
    BY <2>3, <2>4, <2>5
<1>. QED
  BY <1>3, <1>9, <1>10, <1>11, <1>12, Commits

(* Nor does the model's narrative change a result's scores.                 *)
LEMMA NarrativeCommits ==
  ASSUME AssessmentInv, NEW r \in Requests, CommitNarrative(r)
  PROVE  AssessmentInv'
<1>1. PICK a : a = txn[r].assessment
  OBVIOUS
<1>2. a \in 1..Len(results)
  BY <1>1 DEF CommitNarrative, Doing, AssessmentInv, UnderWay, Starts
<1>3. /\ results' = [results EXCEPT ![a] = [results[a] EXCEPT !.narrative = "ai"]]
      /\ UNCHANGED <<assessments, pending, completions, health, signals, recs>>
      /\ Commit(r)
  BY <1>1 DEF CommitNarrative
<1>4. PICK row : row = results[a]
  OBVIOUS
<1>5. /\ row \in [scores : {row.scores}, narrative : {"template", "ai"}]
      /\ DOMAIN row.scores = ToSet(Dimension)
  BY <1>2, <1>4 DEF AssessmentInv, Attempts, HasResult
<1>. DEFINE new == [row EXCEPT !.narrative = "ai"]
<1>6. new \in [scores : {new.scores}, narrative : {"template", "ai"}] /\ new.scores = row.scores
  BY <1>5
<1>7. results' = [results EXCEPT ![a] = new]
  BY <1>3, <1>4
<1>. HIDE DEF new
<1>8. /\ Sequence(results') /\ Len(results') = Len(results)
      /\ \A i \in 1..Len(results) : results'[i] = IF i = a THEN new ELSE results[i]
  <2>1. Sequence(results)
    BY DEF AssessmentInv, Lengths
  <2>2. PICK s, t, v : s = results /\ t = results' /\ v = new
    OBVIOUS
  <2>3. Sequence(s) /\ a \in 1..Len(s) /\ t = [s EXCEPT ![a] = v]
    BY <1>2, <1>7, <2>1, <2>2
  <2>4. Sequence(t) /\ Len(t) = Len(s)
    BY <2>3, RowWritten
  <2>5. ASSUME NEW i \in 1..Len(s) PROVE t[i] = IF i = a THEN v ELSE s[i]
    BY <2>3, RowWritten
  <2>. QED
    BY <2>2, <2>4, <2>5
<1>9. Lengths'
  BY <1>3, <1>8 DEF AssessmentInv, Lengths
<1>10. Attempts'
  <2>1. \A i \in 1..Len(assessments) : Attempt(i)'
    BY <1>3, <1>8 DEF AssessmentInv, Attempts, Attempt
  <2>2. ASSUME NEW i \in 1..Len(results) PROVE HasResult(i)'
    <3>1. HasResult(i)
      BY DEF AssessmentInv, Attempts
    <3>2. CASE i = a
      BY <1>5, <1>6, <1>8, <3>2 DEF HasResult
    <3>3. CASE i # a
      BY <1>8, <3>1, <3>3 DEF HasResult
    <3>. QED
      BY <3>2, <3>3
  <2>. QED
    BY <1>3, <1>8, <2>1, <2>2 DEF Attempts
<1>11. Ranked'
  <2>1. UNCHANGED <<health, recs>>
    BY <1>3
  <2>. QED
    BY <2>1 DEF AssessmentInv, Ranked, PendingMatchesScore, list_recommendations
<1>12. ASSUME NEW q \in Requests \ {r} PROVE Starts(q)' /\ Recomputes(q)' /\ ReadAll(q)'
  <2>1. txn'[q] = txn[q] /\ Starts(q) /\ Recomputes(q) /\ ReadAll(q)
    BY <1>3, TableCommit DEF AssessmentInv, UnderWay
  <2>2. Len(results') = Len(results) /\ UNCHANGED <<assessments, recs>>
    BY <1>3, <1>8
  <2>3. Starts(q)'
    BY <2>1, <2>2 DEF Starts
  <2>4. Recomputes(q)'
    BY <2>1, <2>2 DEF Recomputes, ForAttempt, Recomputing
  <2>5. ReadAll(q)'
    BY <2>1, <2>2 DEF ReadAll
  <2>. QED
    BY <2>3, <2>4, <2>5
<1>. QED
  BY <1>3, <1>9, <1>10, <1>11, <1>12, Commits

-----------------------------------------------------------------------------
(* A key among the ranked has the rank that chose it.                       *)
LEMMA Rank ==
  ASSUME NEW ranked, NEW k \in ToSet(ranked), NEW n,
         n = CHOOSE i \in DOMAIN ranked : ranked[i] = k
  PROVE  n \in DOMAIN ranked /\ ranked[n] = k
  BY DEF ToSet

(* Written by the one that read all of them, the recommendations are the    *)
(* ranked ones and the decided: a pending one that is not ranked was        *)
(* pending when it was read, and goes.                                      *)
LEMMA Reranked ==
  ASSUME AssessmentInv, NEW r \in Requests, txn[r].op = "scored", Recomputed(r)
  PROVE  Ranked'
<1>1. PICK t : t = txn[r]
  OBVIOUS
<1>2. PICK read : read = t.read
  OBVIOUS
<1>. DEFINE ranked == candidates(t.scores)
            gone == {k \in DOMAIN read : read[k].status = "pending" /\ k \notin ToSet(ranked)}
            rank(k) == CHOOSE n \in DOMAIN ranked : ranked[n] = k
<1>3. DOMAIN ranked \subseteq 1..Len(RECOMMENDATION_CATALOG)
  BY RanksInCatalog
<1>4. /\ DOMAIN read = DOMAIN recs
      /\ \A k \in DOMAIN recs : read[k].status # "pending" => recs[k].status # "pending"
  BY <1>1, <1>2 DEF AssessmentInv, UnderWay, ReadAll
<1>5. recs' = [k \in (DOMAIN recs \ gone) \cup ToSet(ranked) |->
           IF k \notin DOMAIN read
           THEN [status |-> "pending", priority |-> rank(k), body |-> "default"]
           ELSE IF k \in ToSet(ranked) /\ read[k].status # "dismissed"
                THEN [recs[k] EXCEPT !.priority = rank(k)]
           ELSE recs[k]]
  <2>1. recs' = generate_recommendations(read, t.scores)
    BY <1>1, <1>2, Zenon DEF Recomputed
  <2>. QED
    BY <2>1 DEF generate_recommendations
<1>6. health' # NoScore => health'.scores = t.scores
  BY <1>1 DEF Recomputed
<1>. HIDE DEF ranked
<1>7. \A k \in DOMAIN recs : recs[k] \in HealthRecommendation
  BY DEF AssessmentInv, Ranked
<1>8. ASSUME NEW k \in DOMAIN recs'
      PROVE  /\ recs'[k] \in HealthRecommendation
             /\ recs'[k].status = "pending" =>
                  recs'[k].priority \in DOMAIN ranked /\ ranked[recs'[k].priority] = k
  <2>1. k \in (DOMAIN recs \ gone) \cup ToSet(ranked)
    BY <1>5
  <2>2. PICK n : n = rank(k)
    OBVIOUS
  <2>3. k \in ToSet(ranked) => n \in DOMAIN ranked /\ ranked[n] = k
    BY <2>2, Rank
  <2>4. PICK row : row = recs[k]
    OBVIOUS
  <2>5. recs'[k] = IF k \notin DOMAIN read
                   THEN [status |-> "pending", priority |-> n, body |-> "default"]
                   ELSE IF k \in ToSet(ranked) /\ read[k].status # "dismissed"
                        THEN [row EXCEPT !.priority = n]
                   ELSE row
    BY <1>5, <2>1, <2>2, <2>4
  <2>. HIDE DEF rank
  <2>6. CASE k \notin DOMAIN recs
    <3>1. k \in ToSet(ranked)
      BY <2>1, <2>6
    <3>2. recs'[k] = [status |-> "pending", priority |-> n, body |-> "default"]
      BY <1>4, <2>5, <2>6
    <3>3. n \in DOMAIN ranked /\ ranked[n] = k /\ n \in 1..Len(RECOMMENDATION_CATALOG)
      BY <1>3, <2>3, <3>1
    <3>. QED
      BY <3>2, <3>3 DEF HealthRecommendation
  <2>7. CASE k \in DOMAIN recs /\ k \in ToSet(ranked) /\ read[k].status # "dismissed"
    <3>1. recs'[k] = [row EXCEPT !.priority = n]
      BY <1>4, <2>5, <2>7
    <3>2. row \in HealthRecommendation
      BY <1>7, <2>4, <2>7
    <3>3. n \in DOMAIN ranked /\ ranked[n] = k /\ n \in 1..Len(RECOMMENDATION_CATALOG)
      BY <1>3, <2>3, <2>7
    <3>4. recs'[k] \in HealthRecommendation /\ recs'[k].priority = n
      BY <3>1, <3>2, <3>3 DEF HealthRecommendation
    <3>. QED
      BY <3>3, <3>4
  <2>8. CASE k \in DOMAIN recs /\ ~(k \in ToSet(ranked) /\ read[k].status # "dismissed")
    <3>1. recs'[k] = row /\ row = recs[k]
      BY <1>4, <2>4, <2>5, <2>8
    <3>2. read[k].status # "pending"
      <4>1. CASE k \in ToSet(ranked)
        BY <2>8, <4>1
      <4>2. CASE k \notin ToSet(ranked)
        BY <1>4, <2>1, <2>8, <4>2
      <4>. QED
        BY <4>1, <4>2
    <3>. QED
      BY <1>4, <1>7, <2>8, <3>1, <3>2
  <2>. QED
    BY <2>6, <2>7, <2>8
<1>9. ToSet(ranked) \subseteq DOMAIN recs'
  BY <1>5
<1>10. PendingMatchesScore'
  <2>. SUFFICES ASSUME health' # NoScore
                PROVE  /\ \A s \in list_recommendations("pending")' : ranked[s.priority] = s.key
                       /\ ToSet(ranked) \subseteq DOMAIN recs'
    BY <1>6 DEF PendingMatchesScore, ranked
  <2>1. ASSUME NEW s \in list_recommendations("pending")' PROVE ranked[s.priority] = s.key
    <3>1. PICK k \in DOMAIN recs' : /\ recs'[k].status = "pending"
                                    /\ s = [key |-> k, priority |-> recs'[k].priority]
      BY <2>1 DEF list_recommendations
    <3>. QED
      BY <1>8, <3>1
  <2>. QED
    BY <1>9, <2>1
<1>. QED
  BY <1>8, <1>10 DEF Ranked

(* The first reader's score is committed.                                   *)
LEMMA ReaderCommits ==
  ASSUME AssessmentInv, NEW r \in Requests, CommitLazyRead(r), UNCHANGED assessmentVars
  PROVE  AssessmentInv'
<1>1. /\ txn[r].op = "scored" /\ Recomputed(r) /\ Commit(r)
      /\ UNCHANGED <<assessments, completions, pending, results>>
  BY DEF CommitLazyRead, Doing, assessmentVars
<1>2. Lengths'
  BY <1>1 DEF AssessmentInv, Lengths
<1>3. Attempts'
  BY <1>1 DEF AssessmentInv, Attempts, Attempt, HasResult
<1>4. Ranked'
  BY <1>1, Reranked
<1>5. ASSUME NEW q \in Requests \ {r} PROVE Starts(q)' /\ Recomputes(q)' /\ ReadAll(q)'
  <2>1. UnderWay(q) /\ Apart(q, r) /\ txn'[q] = txn[q]
    BY <1>1, TableCommit DEF AssessmentInv
  <2>2. Starts(q)' /\ Recomputes(q)'
    BY <1>1, <2>1 DEF UnderWay, Starts, Recomputes, ForAttempt, Recomputing
  <2>3. ReadAll(q)'
    BY <1>1, <2>1 DEF UnderWay, ReadAll, Apart
  <2>. QED
    BY <2>2, <2>3
<1>. QED
  BY <1>1, <1>2, <1>3, <1>4, <1>5, Commits

(* A completion is committed: the attempt in progress becomes the last that *)
(* is completed, with its result, its jobs and its event.                   *)
LEMMA CompletionCommits ==
  ASSUME AssessmentInv, NEW r \in Requests, CommitComplete(r)
  PROVE  AssessmentInv'
<1>1. PICK a : a = txn[r].assessment
  OBVIOUS
<1>2. PICK scores : scores = txn[r].scores
  OBVIOUS
<1>. DEFINE result == [scores |-> scores, narrative |-> "template"]
<1>3. /\ txn[r].op = "scored" /\ ForAttempt(r) /\ Recomputed(r) /\ Commit(r)
      /\ assessments' = [assessments EXCEPT ![a] = [assessments[a] EXCEPT !.status = "completed"]]
      /\ results' = Append(results, result)
      /\ pending' = (pending /\ assessments[a].type # "initial")
      /\ completions' = [completions EXCEPT ![a] = completions[a] + 1]
  BY <1>1, <1>2 DEF CommitComplete, Completing, Doing, ForAttempt, Recomputing
<1>4. /\ a = Len(assessments) /\ Len(assessments) = Len(results) + 1 /\ Len(completions) = a
      /\ DOMAIN scores = ToSet(Dimension)
  BY <1>1, <1>2, <1>3 DEF AssessmentInv, UnderWay, Recomputes, Lengths
<1>5. result \in [scores : {result.scores}, narrative : {"template", "ai"}] /\ result.scores = scores
  OBVIOUS
<1>. HIDE DEF result
<1>6. /\ Sequence(results') /\ Len(results) \in Nat /\ Len(results') = a
      /\ \A i \in 1..a : results'[i] = IF i <= Len(results) THEN results[i] ELSE result
  <2>1. Sequence(results)
    BY DEF AssessmentInv, Lengths
  <2>. QED
    BY <1>3, <1>4, <2>1, RowAppended
<1>7. a \in 1..Len(assessments) /\ a \in 1..Len(completions) /\ a \in Nat
  BY <1>4, <1>6
<1>8. PICK row : row = assessments[a]
  OBVIOUS
<1>9. /\ row \in [type : Types, status : {"in_progress", "completed"}, answers : {row.answers}]
      /\ completions[a] = 0
  BY <1>4, <1>6, <1>7, <1>8 DEF AssessmentInv, Attempts, Attempt
<1>. DEFINE new == [row EXCEPT !.status = "completed"]
<1>10. /\ new \in [type : Types, status : {"in_progress", "completed"}, answers : {new.answers}]
       /\ new.status = "completed" /\ new.type = row.type
  BY <1>9
<1>11. assessments' = [assessments EXCEPT ![a] = new] /\ completions' = [completions EXCEPT ![a] = 1]
  BY <1>3, <1>8, <1>9
<1>. HIDE DEF new
<1>12. /\ Sequence(assessments') /\ Len(assessments') = a
       /\ \A i \in 1..a : assessments'[i] = IF i = a THEN new ELSE assessments[i]
  <2>1. PICK s, t, v : s = assessments /\ t = assessments' /\ v = new
    OBVIOUS
  <2>2. Sequence(s) /\ a \in 1..Len(s) /\ t = [s EXCEPT ![a] = v]
    BY <1>7, <1>11, <2>1 DEF AssessmentInv, Lengths
  <2>3. Sequence(t) /\ Len(t) = Len(s)
    BY <2>2, RowWritten
  <2>4. ASSUME NEW i \in 1..Len(s) PROVE t[i] = IF i = a THEN v ELSE s[i]
    BY <2>2, RowWritten
  <2>. QED
    BY <1>4, <2>1, <2>3, <2>4
<1>13. /\ Sequence(completions') /\ Len(completions') = a
       /\ \A i \in 1..a : completions'[i] = IF i = a THEN 1 ELSE completions[i]
  <2>1. PICK s, t, v : s = completions /\ t = completions' /\ v = 1
    OBVIOUS
  <2>2. Sequence(s) /\ a \in 1..Len(s) /\ t = [s EXCEPT ![a] = v]
    BY <1>7, <1>11, <2>1 DEF AssessmentInv, Lengths
  <2>3. Sequence(t) /\ Len(t) = Len(s)
    BY <2>2, RowWritten
  <2>4. ASSUME NEW i \in 1..Len(s) PROVE t[i] = IF i = a THEN v ELSE s[i]
    BY <2>2, RowWritten
  <2>. QED
    BY <1>4, <2>1, <2>3, <2>4
<1>14. pending' \in BOOLEAN /\ (pending = FALSE => pending' = FALSE)
       /\ (row.type = "initial" => pending' = FALSE)
  BY <1>3, <1>8 DEF AssessmentInv, Lengths
<1>15. Lengths'
  BY <1>6, <1>7, <1>12, <1>13, <1>14 DEF Lengths
<1>16. Attempts'
  <2>1. ASSUME NEW i \in 1..a PROVE Attempt(i)'
    <3>1. Attempt(i)
      BY <1>4 DEF AssessmentInv, Attempts
    <3>2. CASE i = a
      <4>1. assessments'[i] = new /\ completions'[i] = 1 /\ i <= Len(results')
        BY <1>6, <1>7, <1>12, <1>13, <3>2
      <4>. QED
        BY <1>10, <1>14, <4>1 DEF Attempt
    <3>3. CASE i # a
      <4>1. assessments'[i] = assessments[i] /\ completions'[i] = completions[i]
        BY <1>12, <1>13, <3>3
      <4>2. i <= Len(results) /\ i <= Len(results')
        BY <1>4, <1>6, <1>7, <3>3
      <4>. QED
        BY <1>14, <3>1, <4>1, <4>2 DEF Attempt
    <3>. QED
      BY <3>2, <3>3
  <2>2. ASSUME NEW i \in 1..a PROVE HasResult(i)'
    <3>1. CASE i = a
      <4>1. results'[i] = result
        BY <1>4, <1>6, <1>7, <3>1
      <4>. QED
        BY <1>4, <1>5, <4>1 DEF HasResult
    <3>2. CASE i # a
      <4>1. i \in 1..Len(results) /\ results'[i] = results[i]
        BY <1>4, <1>6, <1>7, <3>2
      <4>. QED
        BY <4>1 DEF AssessmentInv, Attempts, HasResult
    <3>. QED
      BY <3>1, <3>2
  <2>. QED
    BY <1>6, <1>12, <2>1, <2>2 DEF Attempts
<1>17. Ranked'
  BY <1>3, Reranked
<1>18. ASSUME NEW q \in Requests \ {r} PROVE Starts(q)' /\ Recomputes(q)' /\ ReadAll(q)'
  <2>1. UnderWay(q) /\ Apart(q, r) /\ txn'[q] = txn[q]
    BY <1>3, TableCommit DEF AssessmentInv
  <2>2. Starts(q)'
    BY <1>4, <1>6, <1>12, <2>1 DEF UnderWay, Starts
  <2>3. Recomputes(q)'
    BY <1>3, <2>1 DEF UnderWay, Recomputes, Apart, ForAttempt, Recomputing
  <2>4. ReadAll(q)'
    BY <1>3, <2>1 DEF UnderWay, ReadAll, Apart
  <2>. QED
    BY <2>2, <2>3, <2>4
<1>. QED
  BY <1>3, <1>15, <1>16, <1>17, <1>18, Commits

(* A decision leaves the row where it is ranked, and is not taken back.     *)
LEMMA DecisionCommits ==
  ASSUME AssessmentInv, NEW r \in Requests, CommitResolve(r), UNCHANGED assessmentVars
  PROVE  AssessmentInv'
<1>1. PICK k, to : k = txn[r].key /\ to = txn[r].status
  OBVIOUS
<1>2. /\ k \in DOMAIN recs /\ Commit(r)
      /\ recs' = [recs EXCEPT ![k] = [recs[k] EXCEPT !.status = to]]
      /\ UNCHANGED <<assessments, completions, pending, results, health, signals>>
  BY <1>1 DEF CommitResolve, assessmentVars
<1>3. to \in {"accepted", "dismissed"}
  BY <1>1 DEF AssessmentInv, UnderWay, ReadAll, CommitResolve, Doing
<1>4. PICK row : row = recs[k]
  OBVIOUS
<1>. DEFINE new == [row EXCEPT !.status = to]
<1>5. row \in HealthRecommendation
  BY <1>2, <1>4 DEF AssessmentInv, Ranked
<1>6. new \in HealthRecommendation /\ new.status = to
  BY <1>3, <1>5 DEF HealthRecommendation
<1>7. recs' = [recs EXCEPT ![k] = new]
  BY <1>2, <1>4
<1>. HIDE DEF new
<1>8. /\ DOMAIN recs' = DOMAIN recs
      /\ \A i \in DOMAIN recs : recs'[i] = IF i = k THEN new ELSE recs[i]
  BY <1>2, <1>7
<1>9. \A i \in DOMAIN recs : /\ recs'[i] \in HealthRecommendation
                             /\ recs'[i].status = "pending" => recs'[i] = recs[i]
                             /\ recs[i].status # "pending" => recs'[i].status # "pending"
  BY <1>3, <1>6, <1>8 DEF AssessmentInv, Ranked
<1>10. Ranked'
  <2>1. PendingMatchesScore
    BY DEF AssessmentInv, Ranked
  <2>2. list_recommendations("pending")' \subseteq list_recommendations("pending")
    BY <1>8, <1>9 DEF list_recommendations
  <2>3. PendingMatchesScore'
    BY <1>2, <1>8, <2>1, <2>2 DEF PendingMatchesScore
  <2>. QED
    BY <1>8, <1>9, <2>3 DEF Ranked
<1>11. Lengths' /\ Attempts'
  BY <1>2 DEF AssessmentInv, Lengths, Attempts, Attempt, HasResult
<1>12. ASSUME NEW q \in Requests \ {r} PROVE Starts(q)' /\ Recomputes(q)' /\ ReadAll(q)'
  <2>1. UnderWay(q) /\ txn'[q] = txn[q]
    BY <1>2, TableCommit DEF AssessmentInv
  <2>2. Starts(q)' /\ Recomputes(q)'
    BY <1>2, <2>1 DEF UnderWay, Starts, Recomputes, ForAttempt, Recomputing
  <2>3. ReadAll(q)'
    BY <1>8, <1>9, <2>1 DEF UnderWay, ReadAll
  <2>. QED
    BY <2>2, <2>3
<1>. QED
  BY <1>2, <1>10, <1>11, <1>12, Commits

(* The model's texts change neither rank nor decision.                      *)
LEMMA BodiesCommit ==
  ASSUME AssessmentInv, NEW r \in Requests, CommitBodies(r), UNCHANGED assessmentVars
  PROVE  AssessmentInv'
<1>1. PICK some : recs' = [k \in DOMAIN recs |->
                     IF k \in some THEN [recs[k] EXCEPT !.body = "ai"] ELSE recs[k]]
  BY Zenon DEF CommitBodies
<1>2. /\ Commit(r) /\ UNCHANGED <<assessments, completions, pending, results, health, signals>>
  BY DEF CommitBodies, assessmentVars
<1>3. DOMAIN recs' = DOMAIN recs
  BY <1>1
<1>4. ASSUME NEW k \in DOMAIN recs
      PROVE  /\ recs'[k] \in HealthRecommendation /\ recs'[k].status = recs[k].status
             /\ recs'[k].priority = recs[k].priority
  <2>1. PICK row : row = recs[k]
    OBVIOUS
  <2>2. row \in HealthRecommendation
    BY <2>1 DEF AssessmentInv, Ranked
  <2>3. recs'[k] = IF k \in some THEN [row EXCEPT !.body = "ai"] ELSE row
    BY <1>1, <2>1
  <2>. QED
    BY <2>1, <2>2, <2>3 DEF HealthRecommendation
<1>5. Ranked'
  <2>1. PendingMatchesScore
    BY DEF AssessmentInv, Ranked
  <2>2. list_recommendations("pending")' \subseteq list_recommendations("pending")
    BY <1>3, <1>4 DEF list_recommendations
  <2>3. PendingMatchesScore'
    BY <1>2, <1>3, <2>1, <2>2 DEF PendingMatchesScore
  <2>. QED
    BY <1>3, <1>4, <2>3 DEF Ranked
<1>6. Lengths' /\ Attempts'
  BY <1>2 DEF AssessmentInv, Lengths, Attempts, Attempt, HasResult
<1>7. ASSUME NEW q \in Requests \ {r} PROVE Starts(q)' /\ Recomputes(q)' /\ ReadAll(q)'
  <2>1. UnderWay(q) /\ txn'[q] = txn[q]
    BY <1>2, TableCommit DEF AssessmentInv
  <2>2. Starts(q)' /\ Recomputes(q)'
    BY <1>2, <2>1 DEF UnderWay, Starts, Recomputes, ForAttempt, Recomputing
  <2>3. ReadAll(q)'
    BY <1>3, <1>4, <2>1 DEF UnderWay, ReadAll
  <2>. QED
    BY <2>2, <2>3
<1>. QED
  BY <1>2, <1>5, <1>6, <1>7, Commits

(* A request that fails has written nothing.                                *)
LEMMA Fails ==
  ASSUME AssessmentInv, NEW r \in Requests, Rollback(r), UNCHANGED <<assessmentVars, healthVars>>
  PROVE  AssessmentInv'
<1>1. UNCHANGED <<assessments, completions, pending, results, health, signals, recs>>
  BY DEF assessmentVars, healthVars
<1>2. /\ Table' /\ txn'[r] = Idle
      /\ \A q \in Requests \ {r} : txn'[q] = txn[q] /\ alone'[q] = alone[q]
  BY DEF AssessmentInv, Table, Rollback
<1>3. UnderWay(r)' /\ \A q \in Requests \ {r} : Apart(q, r)'
  BY <1>2 DEF Idle, UnderWay, Starts, Recomputes, ReadAll, DeletesAll, ForAttempt, Recomputing, Apart
<1>. QED
  BY <1>1, <1>2, <1>3, Moves

(* Nothing happens but that time passes.                                    *)
LEMMA TimePasses ==
  ASSUME AssessmentInv, UNCHANGED <<assessmentVars, healthVars, txn, alone>>
  PROVE  AssessmentInv'
<1>1. UNCHANGED <<assessments, completions, pending, results, health, signals, recs>>
  BY DEF assessmentVars, healthVars
<1>2. Table' /\ Lengths' /\ Attempts'
  BY <1>1 DEF AssessmentInv, Table, Lengths, Attempts, Attempt, HasResult
<1>3. Ranked'
  BY <1>1 DEF AssessmentInv, Ranked, PendingMatchesScore, list_recommendations
<1>4. ASSUME NEW q \in Requests PROVE UnderWay(q)'
  <2>1. UnderWay(q)
    BY DEF AssessmentInv
  <2>. QED
    BY <1>1, <2>1 DEF UnderWay, Starts, Recomputes, ReadAll, DeletesAll, ForAttempt, Recomputing
<1>5. ASSUME NEW p \in Requests, NEW q \in Requests, p # q PROVE Apart(p, q)'
  BY <1>5 DEF AssessmentInv, Apart, ForAttempt, Recomputing
<1>. QED
  BY <1>2, <1>3, <1>4, <1>5 DEF AssessmentInv

(* The invariant holds in every reachable state.                            *)
LEMMA AssessmentsInductive == Spec => []AssessmentInv
<1>1. Init => AssessmentInv
  <2> SUFFICES ASSUME Init PROVE AssessmentInv
    OBVIOUS
  <2>1. \A r \in Requests : txn[r] = [op |-> "idle"]
    BY DEF Init, TransactionsInit, Idle
  <2>2. Table
    BY DEF Init, TransactionsInit, Table
  <2>3. \A r \in Requests : UnderWay(r)
    BY <2>1 DEF UnderWay, Starts, Recomputes, ReadAll, DeletesAll, ForAttempt, Recomputing
  <2>4. \A q, r \in Requests : Apart(q, r)
    BY <2>1 DEF Apart, ForAttempt, Recomputing
  <2>5. /\ assessments = << >> /\ results = << >> /\ completions = << >> /\ pending = TRUE
        /\ health = NoScore /\ recs = << >>
    BY DEF Init, HealthInit
  <2>6. Sequence(<< >>) /\ Len(<< >>) = 0 /\ DOMAIN << >> = {}
    BY DEF Sequence
  <2>7. Lengths /\ Attempts
    BY <2>5, <2>6 DEF Lengths, Attempts
  <2>8. Ranked
    BY <2>5, <2>6 DEF Ranked, PendingMatchesScore
  <2>. QED
    BY <2>2, <2>3, <2>4, <2>7, <2>8 DEF AssessmentInv
<1>2. AssessmentInv /\ [Next]_vars => AssessmentInv'
  <2> SUFFICES ASSUME AssessmentInv, [Next]_vars PROVE AssessmentInv'
    OBVIOUS
  <2>1. ASSUME NEW r \in Requests,
               \/ start_assessment(r) \/ submit_answer(r) \/ post_complete_assessment(r)
               \/ handle_assessment_narrative(r)
        PROVE  AssessmentInv'
    <3>1. UNCHANGED <<assessments, completions, pending, results, health, signals, recs>>
      BY <2>1 DEF start_assessment, submit_answer, post_complete_assessment,
                  handle_assessment_narrative, assessmentVars, healthVars
    <3>. QED
      BY <2>1, <3>1, PlainBegins
  <2>2. ASSUME NEW r \in Requests,
               start_or_resume(r) \/ CommitStart(r) \/ post_answer(r) \/ complete_assessment(r)
               \/ CommitComplete(r) \/ CommitNarrative(r)
        PROVE  AssessmentInv'
    BY <2>2, StartWaits, StartCommits, AnswerCommits, ClaimantRecomputes, CompletionCommits,
       NarrativeCommits
  <2>3. ASSUME NEW r \in Requests, HealthStep(r), UNCHANGED assessmentVars
        PROVE  AssessmentInv'
    <3>1. CASE accept_recommendation(r) \/ dismiss_recommendation(r) \/ handle_health_recommendations(r)
      <4>1. UNCHANGED <<assessments, completions, pending, results, health, signals, recs>>
        BY <2>3, <3>1 DEF accept_recommendation, dismiss_recommendation, resolve_recommendation,
                          handle_health_recommendations, assessmentVars, healthVars
      <4>. QED
        BY <3>1, <4>1, PlainBegins
    <3>. QED
      BY <2>3, <3>1, ReaderRecomputes, ScoreWaits, ReaderCommits, DecisionCommits, BodiesCommit
         DEF HealthStep
  <2>4. ASSUME NEW r \in Requests, Rollback(r), UNCHANGED <<assessmentVars, healthVars, week>>
        PROVE  AssessmentInv'
    BY <2>4, Fails
  <2>5. CASE SevenDays \/ UNCHANGED vars
    BY <2>5, TimePasses DEF SevenDays, vars, txnVars
  <2>. QED
    BY <2>1, <2>2, <2>3, <2>4, <2>5 DEF Next
<1>. QED
  BY <1>1, <1>2, PTL DEF Spec

(* However many requests complete an assessment, one result is written, and *)
(* the jobs and the event are sent once, with it.                           *)
THEOREM CompletesOnce == Spec => []CompletedOnce
<1>1. AssessmentInv => CompletedOnce
  <2> SUFFICES ASSUME AssessmentInv, NEW a \in DOMAIN assessments
               PROVE  /\ (get_assessment(a).status = "completed") = (get_assessment(a).result # << >>)
                      /\ completions[a] = IF get_assessment(a).status = "completed" THEN 1 ELSE 0
                      /\ get_assessment(a).status = "completed" /\ assessments[a].type = "initial" => ~pending
    BY Zenon DEF CompletedOnce
  <2>1. /\ DOMAIN assessments = 1..Len(assessments) /\ Len(assessments) \in Nat
        /\ DOMAIN results = 1..Len(results) /\ Len(results) \in Nat
    BY RowNumbers DEF AssessmentInv, Lengths
  <2>2. Attempt(a)
    BY <2>1 DEF AssessmentInv, Attempts
  <2>3. /\ get_assessment(a).status = assessments[a].status
        /\ get_assessment(a).result = IF a \in DOMAIN results THEN results[a].scores ELSE << >>
    BY DEF get_assessment
  <2>4. CASE a <= Len(results)
    <3>1. results[a].scores # << >> /\ a \in DOMAIN results
      BY <2>1, <2>4, ScoresAreNoGap DEF AssessmentInv, Attempts, HasResult
    <3>. QED
      BY <2>2, <2>3, <2>4, <3>1 DEF Attempt
  <2>5. CASE ~(a <= Len(results))
    BY <2>1, <2>2, <2>3, <2>5 DEF Attempt
  <2>. QED
    BY <2>4, <2>5
<1>. QED
  BY <1>1, AssessmentsInductive, PTL

(* Through recomputations, decisions and the model's texts in any order, a  *)
(* pending recommendation is one of the score shown and ranked by it.       *)
THEOREM ShownMatchScore == Spec => []PendingMatchesScore
<1>1. AssessmentInv => PendingMatchesScore
  BY DEF AssessmentInv, Ranked
<1>. QED
  BY <1>1, AssessmentsInductive, PTL

(* A decision is kept by every step that writes the recommendations, unless *)
(* the request has read it as undecided.                                    *)
LEMMA DecisionKept ==
  ASSUME AssessmentInv, Next, NEW k \in DOMAIN recs, Decided(k), ~Decided(k)'
  PROVE  \E r \in Requests : txn[r].op = "scored" /\ Recomputed(r) /\ Commit(r)
<1>1. ASSUME NEW r \in Requests, CommitComplete(r) \/ CommitLazyRead(r)
      PROVE  txn[r].op = "scored" /\ Recomputed(r) /\ Commit(r)
  BY <1>1 DEF CommitComplete, CommitLazyRead, Doing
<1>2. ASSUME UNCHANGED recs PROVE FALSE
  BY <1>2 DEF Decided
<1>3. ASSUME NEW r \in Requests, CommitResolve(r) PROVE FALSE
  <2>1. txn[r].status # "pending"
    BY <1>3 DEF CommitResolve, Doing, AssessmentInv, UnderWay, ReadAll
  <2>2. recs' = [recs EXCEPT ![txn[r].key].status = txn[r].status]
    BY <1>3 DEF CommitResolve
  <2>3. recs[k] \in HealthRecommendation
    BY DEF AssessmentInv, Ranked
  <2>. QED
    BY <2>1, <2>2, <2>3 DEF Decided, HealthRecommendation
<1>4. ASSUME NEW r \in Requests, CommitBodies(r) PROVE FALSE
  <2>1. PICK some : recs' = [i \in DOMAIN recs |->
                       IF i \in some THEN [recs[i] EXCEPT !.body = "ai"] ELSE recs[i]]
    BY <1>4 DEF CommitBodies
  <2>2. recs[k] \in HealthRecommendation
    BY DEF AssessmentInv, Ranked
  <2>. QED
    BY <2>1, <2>2 DEF Decided, HealthRecommendation
<1>5. ASSUME NEW r \in Requests,
             \/ start_assessment(r) \/ start_or_resume(r) \/ CommitStart(r)
             \/ submit_answer(r) \/ post_answer(r)
             \/ post_complete_assessment(r) \/ complete_assessment(r)
             \/ handle_assessment_narrative(r) \/ CommitNarrative(r)
      PROVE  UNCHANGED recs
  BY <1>5 DEF start_assessment, start_or_resume, CommitStart, submit_answer, post_answer,
              post_complete_assessment, complete_assessment, handle_assessment_narrative,
              CommitNarrative, healthVars
<1>6. ASSUME NEW r \in Requests,
             \/ get_health_score(r) \/ recompute_health_score(r)
             \/ accept_recommendation(r) \/ dismiss_recommendation(r)
             \/ handle_health_recommendations(r)
      PROVE  UNCHANGED recs
  BY <1>6 DEF get_health_score, recompute_health_score, accept_recommendation,
              dismiss_recommendation, resolve_recommendation,
              handle_health_recommendations, healthVars
<1>7. ASSUME SevenDays \/ UNCHANGED <<assessmentVars, healthVars, week>> PROVE UNCHANGED recs
  BY <1>7 DEF SevenDays, healthVars
<1>. QED
  BY <1>1, <1>2, <1>3, <1>4, <1>5, <1>6, <1>7 DEF Next, HealthStep

(* Only a recomputation that had read a recommendation before it was        *)
(* decided undoes the decision; later recomputations, the model's texts and *)
(* other founders' decisions leave it.                                      *)
THEOREM DecisionsLast == Spec => DecisionsOutlastFreshReads
<1>1. AssessmentInv /\ [Next]_vars =>
        [\A k \in DOMAIN recs : Decided(k) /\ ~Decided(k)' =>
           \E r \in Requests :
             Doing(r, "scored") /\ txn'[r] = Idle /\ txn[r].read[k].status = "pending"]_vars
  <2> SUFFICES ASSUME AssessmentInv, Next, NEW k \in DOMAIN recs, Decided(k), ~Decided(k)'
               PROVE  \E r \in Requests :
                        Doing(r, "scored") /\ txn'[r] = Idle /\ txn[r].read[k].status = "pending"
    OBVIOUS
  <2>1. PICK r \in Requests : txn[r].op = "scored" /\ Recomputed(r) /\ Commit(r)
    BY DecisionKept
  <2>2. txn'[r] = Idle
    BY <2>1, TableCommit DEF AssessmentInv
  <2>3. k \in DOMAIN txn[r].read
    BY <2>1 DEF AssessmentInv, UnderWay, ReadAll
  <2>4. ASSUME txn[r].read[k].status # "pending" PROVE FALSE
    <3> PICK read : read = txn[r].read
      OBVIOUS
    <3> PICK ranked : ranked = candidates(txn[r].scores)
      OBVIOUS
    <3>1. recs[k] \in HealthRecommendation
      BY DEF AssessmentInv, Ranked
    <3>2. recs' = generate_recommendations(read, txn[r].scores)
      BY <2>1 DEF Recomputed
    <3>3. /\ k \in DOMAIN recs'
          /\ recs'[k] = recs[k] \/ \E n : recs'[k] = [recs[k] EXCEPT !.priority = n]
      BY <2>3, <2>4, <3>2 DEF generate_recommendations
    <3>. QED
      BY <3>1, <3>3 DEF Decided, HealthRecommendation
  <2>. QED
    BY <2>1, <2>2, <2>4 DEF Doing
<1>. QED
  BY <1>1, AssessmentsInductive, PTL DEF Spec, DecisionsOutlastFreshReads

-----------------------------------------------------------------------------
(* The values of the rows, and what a request carries to write there: valid *)
(* answers and scores of answers.                                           *)
Carried(t) ==
    /\ t.op = "answer" =>
         \E q \in ToSet(ASSESSMENT_BANK) : t.key = q.key /\ t.value \in validate_answer(q)
    /\ t.op = "complete" => Answers(t.answers)
    /\ t.op \in {"recompute", "scored"} => t.scores \in Scores

RowValues ==
    /\ \A a \in 1..Len(assessments) : Answers(assessments[a].answers)
    /\ \A a \in 1..Len(results) : results[a].scores \in Scores
    /\ health = NoScore \/ health \in HealthScore
    /\ signals \subseteq HealthSignal
    /\ history \in Seq(HealthScoreHistory) /\ week \in 0..1

ValuesInv == AssessmentInv /\ RowValues /\ \A r \in Requests : Carried(txn[r])

(* A request that writes no such row has to carry what it should.           *)
LEMMA CarriesOn ==
  ASSUME ValuesInv, NEW r \in Requests,
         UNCHANGED <<assessments, results, health, signals, history, week>>,
         NEW t, Carried(t), Begin(r, t) \/ Go(r, t) \/ (Commit(r) /\ t = Idle)
  PROVE  RowValues' /\ \A q \in Requests : Carried(txn'[q])
<1>1. RowValues'
  BY DEF ValuesInv, RowValues
<1>2. txn'[r] = t /\ \A q \in Requests \ {r} : txn'[q] = txn[q]
  BY TableStep, TableCommit DEF ValuesInv, AssessmentInv
<1>. QED
  BY <1>1, <1>2 DEF ValuesInv

(* Nothing is carried by the idle.                                          *)
LEMMA IdleCarries == Carried(Idle)
BY DEF Carried, Idle

(* The answer carried is one of the next question's.                        *)
LEMMA AnswerCarried ==
  ASSUME ValuesInv, NEW r \in Requests, submit_answer(r)
  PROVE  RowValues' /\ \A q \in Requests : Carried(txn'[q])
<1>1. PICK a \in InProgress : LET next == next_question(assessments[a].answers) IN
        /\ next # << >>
        /\ \E v \in validate_answer(next[1]) :
             Begin(r, [op |-> "answer", assessment |-> a, key |-> next[1].key, value |-> v])
  BY Zenon DEF submit_answer
<1>2. PICK answers : answers = assessments[a].answers
  OBVIOUS
<1>3. PICK q : q = next_question(answers)[1]
  OBVIOUS
<1>4. q \in ToSet(ASSESSMENT_BANK)
  BY <1>1, <1>2, <1>3, NextInBank
<1>5. PICK v \in validate_answer(q) :
        Begin(r, [op |-> "answer", assessment |-> a, key |-> q.key, value |-> v])
  BY <1>1, <1>2, <1>3
<1>6. Carried([op |-> "answer", assessment |-> a, key |-> q.key, value |-> v])
  BY <1>4 DEF Carried
<1>7. UNCHANGED <<assessments, results, health, signals, history, week>>
  BY DEF submit_answer, assessmentVars, healthVars
<1>. QED
  BY <1>5, <1>6, <1>7, CarriesOn

(* The scores carried are those of valid answers, or the last result's.     *)
LEMMA ScoresCarried ==
  ASSUME ValuesInv, NEW r \in Requests,
         post_complete_assessment(r) \/ complete_assessment(r)
         \/ (get_health_score(r) /\ UNCHANGED assessmentVars)
         \/ (recompute_health_score(r) /\ UNCHANGED assessmentVars)
  PROVE  RowValues' /\ \A q \in Requests : Carried(txn'[q])
<1>1. UNCHANGED <<assessments, results, health, signals, history, week>>
  BY DEF post_complete_assessment, complete_assessment, get_health_score, recompute_health_score,
         assessmentVars, healthVars
<1>2. /\ DOMAIN assessments = 1..Len(assessments)
      /\ DOMAIN results = 1..Len(results) /\ Len(results) \in Nat
  BY RowNumbers DEF ValuesInv, AssessmentInv, Lengths
<1>3. CASE post_complete_assessment(r)
  <2>1. PICK a \in DOMAIN assessments :
          Begin(r, [op |-> "complete", assessment |-> a, answers |-> assessments[a].answers])
    BY <1>3 DEF post_complete_assessment
  <2>2. Carried([op |-> "complete", assessment |-> a, answers |-> assessments[a].answers])
    BY <1>2 DEF Carried, ValuesInv, RowValues
  <2>. QED
    BY <1>1, <2>1, <2>2, CarriesOn
<1>4. CASE complete_assessment(r)
  <2>1. CASE ~Claims(r)
    <3>1. Go(r, Idle)
      BY <1>4, <2>1 DEF complete_assessment
    <3>. QED
      BY <1>1, <3>1, IdleCarries, CarriesOn
  <2>2. CASE Claims(r)
    <3>1. PICK t : t = Recompute("assessment_complete", txn[r].assessment, score(txn[r].answers))
      OBVIOUS
    <3>2. Go(r, t)
      BY <1>4, <2>2, <3>1 DEF complete_assessment
    <3>3. Answers(txn[r].answers)
      BY <1>4 DEF complete_assessment, Doing, ValuesInv, Carried
    <3>4. t.op = "recompute" /\ t.scores \in Scores
      BY <3>1, <3>3, ScoresInRange, RecomputeCarries
    <3>5. Carried(t)
      BY <3>4 DEF Carried
    <3>. QED
      BY <1>1, <3>2, <3>5, CarriesOn
  <2>. QED
    BY <2>1, <2>2
<1>5. CASE get_health_score(r)
  <2>1. results # << >> /\ Begin(r, Recompute("lazy_read", Len(results), latest_completed_result))
    BY <1>5 DEF get_health_score
  <2>2. latest_completed_result \in Scores
    <3>1. Len(results) \in 1..Len(results)
      <4>1. Sequence(results)
        BY DEF ValuesInv, AssessmentInv, Lengths
      <4>2. Len(results) # 0
        BY <2>1, <4>1 DEF Sequence
      <4>. QED
        BY <1>2, <4>2
    <3>. QED
      BY <3>1 DEF latest_completed_result, ValuesInv, RowValues
  <2>3. PICK t : t = Recompute("lazy_read", Len(results), latest_completed_result)
    OBVIOUS
  <2>4. t.op = "recompute" /\ t.scores \in Scores
    BY <2>2, <2>3, RecomputeCarries
  <2>5. Carried(t)
    BY <2>4 DEF Carried
  <2>. QED
    BY <1>1, <2>1, <2>3, <2>5, CarriesOn
<1>6. CASE recompute_health_score(r)
  <2>1. PICK t : t = txn[r]
    OBVIOUS
  <2>2. /\ t \in [op : {"recompute", "scored"}, trigger : {"assessment_complete", "lazy_read"},
                  assessment : {t.assessment}, scores : {t.scores},
                  deletes : {t.deletes}, history : {t.history}, read : {t.read}]
        /\ t.scores \in Scores
    BY <1>6, <2>1 DEF ValuesInv, AssessmentInv, UnderWay, Recomputes, Recomputing,
                      recompute_health_score, Doing, Carried
  <2>. DEFINE new == [t EXCEPT !.op = "scored", !.read = recs]
  <2>3. new.op = "scored" /\ new.scores = t.scores
    BY <2>2
  <2>4. Go(r, new)
    BY <1>6, <2>1 DEF recompute_health_score
  <2>. HIDE DEF new
  <2>5. Carried(new)
    BY <2>2, <2>3 DEF Carried
  <2>. QED
    BY <1>1, <2>4, <2>5, CarriesOn
<1>. QED
  BY <1>3, <1>4, <1>5, <1>6

(* A recomputation writes values in their ranges.                           *)
LEMMA RecomputedValues ==
  ASSUME ValuesInv, NEW r \in Requests, Recomputed(r), txn[r].scores \in Scores
  PROVE  health' \in HealthScore /\ signals' \subseteq HealthSignal /\ history' \in Seq(HealthScoreHistory)
<1>1. PICK scores \in Scores : scores = txn[r].scores
  OBVIOUS
<1>2. PICK overall : overall = weighted_overall(scores)
  OBVIOUS
<1>3. overall \in 0..100
  BY <1>2, OverallInRange
<1>4. health' \in HealthScore
  <2>1. health' = [scores |-> scores, score |-> overall, band |-> band_for(overall)]
    BY <1>1, <1>2, Zenon DEF Recomputed
  <2>. QED
    BY <1>3, <2>1, BandOfScore DEF HealthScore
<1>5. history \in Seq(HealthScoreHistory) /\ week \in 0..1 /\ signals \subseteq HealthSignal
  BY DEF ValuesInv, RowValues
<1>6. history' \in Seq(HealthScoreHistory)
  <2>1. history' = Append(history, [score |-> overall, delta |-> _delta_7d(history, overall), week |-> week])
    BY <1>1, <1>2, Zenon DEF Recomputed
  <2>2. [score |-> overall, delta |-> _delta_7d(history, overall), week |-> week] \in HealthScoreHistory
    BY <1>3, <1>5, DeltaInRange DEF HealthScoreHistory
  <2>. QED
    BY <1>5, <2>1, <2>2
<1>7. signals' \subseteq HealthSignal
  <2>. PICK n \in Nat : n = Len(history) + 1
    BY <1>5
  <2>1. signals' = (signals \ txn[r].deletes)
                     \cup {[dim |-> d, value |-> scores[d], by |-> n] : d \in ToSet(Dimension)}
    BY <1>1, Zenon DEF Recomputed
  <2>2. \A d \in ToSet(Dimension) : [dim |-> d, value |-> scores[d], by |-> n] \in HealthSignal
    BY DEF Scores, HealthSignal
  <2>. QED
    BY <1>5, <2>1, <2>2
<1>. QED
  BY <1>4, <1>6, <1>7

(* A new attempt has no answers.                                            *)
LEMMA StartValues ==
  ASSUME ValuesInv, NEW r \in Requests, CommitStart(r)
  PROVE  RowValues' /\ \A q \in Requests : Carried(txn'[q])
<1>. DEFINE new == [type |-> txn[r].type, status |-> "in_progress", answers |-> << >>]
<1>1. /\ assessments' = Append(assessments, new)
      /\ UNCHANGED <<results, health, signals, history, week>> /\ Commit(r)
  BY DEF CommitStart, healthVars
<1>2. new.answers = << >>
  OBVIOUS
<1>. HIDE DEF new
<1>3. Sequence(assessments)
  BY DEF ValuesInv, AssessmentInv, Lengths
<1>4. /\ Len(assessments) \in Nat /\ Len(assessments') = Len(assessments) + 1
      /\ \A a \in 1..Len(assessments) + 1 : assessments'[a] = IF a <= Len(assessments) THEN assessments[a] ELSE new
  BY <1>1, <1>3, RowAppended
<1>5. Answers(<< >>)
  BY DEF Answers
<1>6. \A a \in 1..Len(assessments') : Answers(assessments'[a].answers)
  <2>. TAKE a \in 1..Len(assessments')
  <2>1. CASE a <= Len(assessments)
    BY <1>4, <2>1 DEF ValuesInv, RowValues
  <2>2. CASE ~(a <= Len(assessments))
    BY <1>2, <1>4, <1>5, <2>2
  <2>. QED
    BY <2>1, <2>2
<1>7. RowValues'
  BY <1>1, <1>6 DEF ValuesInv, RowValues
<1>8. \A q \in Requests : Carried(txn'[q])
  BY <1>1, IdleCarries, TableCommit DEF ValuesInv, AssessmentInv
<1>. QED
  BY <1>7, <1>8

(* The answer written is valid, and the others stay.                        *)
LEMMA AnswerValues ==
  ASSUME ValuesInv, NEW r \in Requests, post_answer(r)
  PROVE  RowValues' /\ \A q \in Requests : Carried(txn'[q])
<1>1. PICK a : a = txn[r].assessment
  OBVIOUS
<1>2. a \in 1..Len(assessments)
  BY <1>1 DEF post_answer, Doing, ValuesInv, AssessmentInv, UnderWay, Starts
<1>3. PICK q \in ToSet(ASSESSMENT_BANK) : txn[r].key = q.key /\ txn[r].value \in validate_answer(q)
  BY DEF post_answer, Doing, ValuesInv, Carried
<1>4. PICK row : row = assessments[a]
  OBVIOUS
<1>. DEFINE w == Put(row.answers, q.key, txn[r].value)
            new == [row EXCEPT !.answers = w]
<1>5. /\ assessments' = [assessments EXCEPT ![a] = new]
      /\ UNCHANGED <<results, health, signals, history, week>> /\ Commit(r)
  BY <1>1, <1>3, <1>4 DEF post_answer, healthVars
<1>6. row \in [type : Types, status : {"in_progress", "completed"}, answers : {row.answers}]
  BY <1>2, <1>4 DEF ValuesInv, AssessmentInv, Attempts, Attempt
<1>7. new.answers = w
  BY <1>6
<1>8. Answers(w)
  <2>1. Answers(row.answers)
    BY <1>2, <1>4 DEF ValuesInv, RowValues
  <2>2. DOMAIN w = {q.key} \cup DOMAIN row.answers
    BY DEF Put
  <2>3. ASSUME NEW k \in DOMAIN w PROVE w[k] = IF k = q.key THEN txn[r].value ELSE row.answers[k]
    BY <2>2 DEF Put
  <2>. HIDE DEF w
  <2>4. question_by_key(q.key) = q
    BY QuestionOfKey
  <2>5. q.key \in {p.key : p \in ToSet(ASSESSMENT_BANK)}
    OBVIOUS
  <2>. QED
    BY <1>3, <2>1, <2>2, <2>3, <2>4, <2>5 DEF Answers
<1>. HIDE DEF new, w
<1>9. /\ Len(assessments') = Len(assessments)
      /\ \A i \in 1..Len(assessments) : assessments'[i] = IF i = a THEN new ELSE assessments[i]
  <2>1. Sequence(assessments)
    BY DEF ValuesInv, AssessmentInv, Lengths
  <2>2. PICK s, t, v : s = assessments /\ t = assessments' /\ v = new
    OBVIOUS
  <2>3. Sequence(s) /\ a \in 1..Len(s) /\ t = [s EXCEPT ![a] = v]
    BY <1>2, <1>5, <2>1, <2>2
  <2>4. Len(t) = Len(s)
    BY <2>3, RowWritten
  <2>5. ASSUME NEW i \in 1..Len(s) PROVE t[i] = IF i = a THEN v ELSE s[i]
    BY <2>3, RowWritten
  <2>. QED
    BY <2>2, <2>4, <2>5
<1>10. \A i \in 1..Len(assessments') : Answers(assessments'[i].answers)
  BY <1>7, <1>8, <1>9 DEF ValuesInv, RowValues
<1>11. RowValues'
  BY <1>5, <1>10 DEF ValuesInv, RowValues
<1>12. \A p \in Requests : Carried(txn'[p])
  BY <1>5, IdleCarries, TableCommit DEF ValuesInv, AssessmentInv
<1>. QED
  BY <1>11, <1>12

(* The result written has the scores the claimant carries.                  *)
LEMMA CompletionValues ==
  ASSUME ValuesInv, NEW r \in Requests, CommitComplete(r)
  PROVE  RowValues' /\ \A q \in Requests : Carried(txn'[q])
<1>1. PICK a, scores : a = txn[r].assessment /\ scores = txn[r].scores
  OBVIOUS
<1>. DEFINE result == [scores |-> scores, narrative |-> "template"]
<1>2. /\ txn[r].op = "scored" /\ ForAttempt(r) /\ Recomputed(r) /\ Commit(r)
      /\ assessments' = [assessments EXCEPT ![a] = [assessments[a] EXCEPT !.status = "completed"]]
      /\ results' = Append(results, result)
      /\ week' = week
  BY <1>1 DEF CommitComplete, Completing, Doing, ForAttempt, Recomputing
<1>3. scores \in Scores
  BY <1>1, <1>2 DEF ValuesInv, Carried
<1>4. /\ Sequence(assessments) /\ Sequence(results) /\ Len(assessments) \in Nat
      /\ a = Len(assessments) /\ Len(assessments) = Len(results) + 1
  BY <1>1, <1>2, RowNumbers DEF ValuesInv, AssessmentInv, UnderWay, Recomputes, Lengths
<1>5. result.scores = scores
  OBVIOUS
<1>. HIDE DEF result
<1>6. \A i \in 1..Len(results') : results'[i].scores \in Scores
  <2>1. /\ Len(results) \in Nat /\ Len(results') = Len(results) + 1
        /\ \A i \in 1..Len(results) + 1 : results'[i] = IF i <= Len(results) THEN results[i] ELSE result
    BY <1>2, <1>4, RowAppended
  <2>. TAKE i \in 1..Len(results')
  <2>2. CASE i <= Len(results)
    BY <2>1, <2>2 DEF ValuesInv, RowValues
  <2>3. CASE ~(i <= Len(results))
    BY <1>3, <1>5, <2>1, <2>3
  <2>. QED
    BY <2>2, <2>3
<1>7. a \in 1..Len(assessments)
  <2>1. Len(results) \in Nat
    BY <1>4, RowNumbers
  <2>. QED
    BY <1>4, <2>1
<1>8. PICK row : row = assessments[a]
  OBVIOUS
<1>9. row \in [type : Types, status : {"in_progress", "completed"}, answers : {row.answers}]
  BY <1>7, <1>8 DEF ValuesInv, AssessmentInv, Attempts, Attempt
<1>. DEFINE new == [row EXCEPT !.status = "completed"]
<1>10. new.answers = row.answers /\ assessments' = [assessments EXCEPT ![a] = new]
  BY <1>2, <1>8, <1>9
<1>. HIDE DEF new
<1>11. \A i \in 1..Len(assessments') : Answers(assessments'[i].answers)
  <2>1. PICK s, t, v : s = assessments /\ t = assessments' /\ v = new
    OBVIOUS
  <2>2. Sequence(s) /\ a \in 1..Len(s) /\ t = [s EXCEPT ![a] = v]
    BY <1>4, <1>7, <1>10, <2>1
  <2>3. Len(t) = Len(s)
    BY <2>2, RowWritten
  <2>4. ASSUME NEW i \in 1..Len(s) PROVE t[i] = IF i = a THEN v ELSE s[i]
    BY <2>2, RowWritten
  <2>5. \A i \in 1..Len(s) : Answers(s[i].answers)
    BY <2>1 DEF ValuesInv, RowValues
  <2>6. Answers(v.answers)
    BY <1>7, <1>8, <1>10, <2>1, <2>5
  <2>. QED
    BY <2>1, <2>3, <2>4, <2>5, <2>6
<1>12. health' \in HealthScore /\ signals' \subseteq HealthSignal /\ history' \in Seq(HealthScoreHistory)
  BY <1>1, <1>2, <1>3, RecomputedValues
<1>13. RowValues'
  BY <1>2, <1>6, <1>11, <1>12 DEF ValuesInv, RowValues
<1>14. \A q \in Requests : Carried(txn'[q])
  BY <1>2, IdleCarries, TableCommit DEF ValuesInv, AssessmentInv
<1>. QED
  BY <1>13, <1>14

(* A reader who recomputes writes the scores it carries.                    *)
LEMMA ReaderValues ==
  ASSUME ValuesInv, NEW r \in Requests, CommitLazyRead(r), UNCHANGED assessmentVars
  PROVE  RowValues' /\ \A q \in Requests : Carried(txn'[q])
<1>1. /\ txn[r].op = "scored" /\ Recomputed(r) /\ Commit(r)
      /\ UNCHANGED <<assessments, results, week>>
  BY DEF CommitLazyRead, Doing, assessmentVars
<1>2. health' \in HealthScore /\ signals' \subseteq HealthSignal /\ history' \in Seq(HealthScoreHistory)
  BY <1>1, RecomputedValues DEF ValuesInv, Carried
<1>3. RowValues'
  BY <1>1, <1>2 DEF ValuesInv, RowValues
<1>4. \A q \in Requests : Carried(txn'[q])
  BY <1>1, IdleCarries, TableCommit DEF ValuesInv, AssessmentInv
<1>. QED
  BY <1>3, <1>4

(* A narrative is another text of the same result.                          *)
LEMMA NarrativeValues ==
  ASSUME ValuesInv, NEW r \in Requests, CommitNarrative(r)
  PROVE  RowValues' /\ \A q \in Requests : Carried(txn'[q])
<1>1. PICK a : a = txn[r].assessment
  OBVIOUS
<1>2. a \in 1..Len(results)
  BY <1>1 DEF CommitNarrative, Doing, ValuesInv, AssessmentInv, UnderWay, Starts
<1>3. PICK row : row = results[a]
  OBVIOUS
<1>4. row \in [scores : {row.scores}, narrative : {"template", "ai"}]
  BY <1>2, <1>3 DEF ValuesInv, AssessmentInv, Attempts, HasResult
<1>. DEFINE new == [row EXCEPT !.narrative = "ai"]
<1>5. /\ results' = [results EXCEPT ![a] = new] /\ new.scores = row.scores
      /\ UNCHANGED <<assessments, health, signals, history, week>> /\ Commit(r)
  BY <1>1, <1>3, <1>4 DEF CommitNarrative
<1>. HIDE DEF new
<1>6. \A i \in 1..Len(results') : results'[i].scores \in Scores
  <2>1. PICK s, t, v : s = results /\ t = results' /\ v = new
    OBVIOUS
  <2>2. Sequence(s) /\ a \in 1..Len(s) /\ t = [s EXCEPT ![a] = v]
    BY <1>2, <1>5, <2>1 DEF ValuesInv, AssessmentInv, Lengths
  <2>3. Len(t) = Len(s)
    BY <2>2, RowWritten
  <2>4. ASSUME NEW i \in 1..Len(s) PROVE t[i] = IF i = a THEN v ELSE s[i]
    BY <2>2, RowWritten
  <2>5. \A i \in 1..Len(s) : s[i].scores \in Scores
    BY <2>1 DEF ValuesInv, RowValues
  <2>6. v.scores \in Scores
    BY <1>2, <1>3, <1>5, <2>1, <2>5
  <2>. QED
    BY <2>1, <2>3, <2>4, <2>5, <2>6
<1>7. RowValues'
  BY <1>5, <1>6 DEF ValuesInv, RowValues
<1>8. \A q \in Requests : Carried(txn'[q])
  BY <1>5, IdleCarries, TableCommit DEF ValuesInv, AssessmentInv
<1>. QED
  BY <1>7, <1>8

(* The other requests write none of these rows, and carry nothing to them.  *)
LEMMA OthersCarry ==
  ASSUME ValuesInv, NEW r \in Requests,
         \/ start_assessment(r) \/ start_or_resume(r) \/ handle_assessment_narrative(r)
         \/ (/\ \/ accept_recommendation(r) \/ dismiss_recommendation(r) \/ CommitResolve(r)
                \/ handle_health_recommendations(r) \/ CommitBodies(r)
             /\ UNCHANGED assessmentVars)
  PROVE  RowValues' /\ \A q \in Requests : Carried(txn'[q])
<1>1. UNCHANGED <<assessments, results, health, signals, history, week>>
  BY DEF start_assessment, start_or_resume, handle_assessment_narrative, accept_recommendation,
         dismiss_recommendation, resolve_recommendation, CommitResolve,
         handle_health_recommendations, CommitBodies, assessmentVars, healthVars
<1>2. ASSUME NEW t, t.op \in {"start", "started", "narrative", "resolve", "bodies"} PROVE Carried(t)
  BY <1>2 DEF Carried
<1>3. CASE start_assessment(r)
  BY <1>1, <1>2, <1>3, CarriesOn DEF start_assessment
<1>4. CASE start_or_resume(r)
  <2>1. CASE InProgress # {}
    BY <1>1, <1>4, <2>1, IdleCarries, CarriesOn DEF start_or_resume
  <2>2. CASE InProgress = {}
    <3>1. txn[r] \in [op : {"start"}, type : Types]
      BY <1>4 DEF start_or_resume, Doing, ValuesInv, AssessmentInv, UnderWay, Starts
    <3>. DEFINE new == [txn[r] EXCEPT !.op = "started"]
    <3>2. new.op = "started" /\ Go(r, new)
      BY <1>4, <2>2, <3>1 DEF start_or_resume
    <3>. HIDE DEF new
    <3>. QED
      BY <1>1, <1>2, <3>2, CarriesOn
  <2>. QED
    BY <2>1, <2>2
<1>5. CASE handle_assessment_narrative(r)
  BY <1>1, <1>2, <1>5, CarriesOn DEF handle_assessment_narrative
<1>6. CASE accept_recommendation(r) \/ dismiss_recommendation(r)
  <2>1. PICK k, target : Begin(r, [op |-> "resolve", key |-> k, status |-> target])
    BY <1>6 DEF accept_recommendation, dismiss_recommendation, resolve_recommendation
  <2>. QED
    BY <1>1, <1>2, <2>1, CarriesOn
<1>7. CASE handle_health_recommendations(r)
  BY <1>1, <1>2, <1>7, CarriesOn DEF handle_health_recommendations
<1>8. CASE CommitResolve(r) \/ CommitBodies(r)
  BY <1>1, <1>8, IdleCarries, CarriesOn DEF CommitResolve, CommitBodies
<1>. QED
  BY <1>3, <1>4, <1>5, <1>6, <1>7, <1>8

(* Rows and requests have values in their ranges throughout.                *)
LEMMA ValuesInductive == Spec => []ValuesInv
<1>1. Init => RowValues /\ \A r \in Requests : Carried(txn[r])
  <2> SUFFICES ASSUME Init PROVE RowValues /\ \A r \in Requests : Carried(txn[r])
    OBVIOUS
  <2>1. RowValues
    BY DEF Init, HealthInit, RowValues
  <2>2. ASSUME NEW r \in Requests PROVE Carried(txn[r])
    BY IdleCarries DEF Init, TransactionsInit
  <2>. QED
    BY <2>1, <2>2
<1>2. AssessmentInv /\ RowValues /\ (\A r \in Requests : Carried(txn[r])) /\ [Next]_vars
        => RowValues' /\ (\A r \in Requests : Carried(txn[r]))'
  <2> SUFFICES ASSUME ValuesInv, [Next]_vars
               PROVE  RowValues' /\ \A r \in Requests : Carried(txn'[r])
    BY DEF ValuesInv
  <2>1. ASSUME NEW r \in Requests,
               \/ start_assessment(r) \/ start_or_resume(r) \/ handle_assessment_narrative(r)
               \/ CommitStart(r) \/ submit_answer(r) \/ post_answer(r)
               \/ post_complete_assessment(r) \/ complete_assessment(r) \/ CommitComplete(r)
               \/ CommitNarrative(r)
        PROVE  RowValues' /\ \A q \in Requests : Carried(txn'[q])
    BY <2>1, OthersCarry, StartValues, AnswerCarried, AnswerValues, ScoresCarried,
       CompletionValues, NarrativeValues
  <2>2. ASSUME NEW r \in Requests, HealthStep(r), UNCHANGED assessmentVars
        PROVE  RowValues' /\ \A q \in Requests : Carried(txn'[q])
    BY <2>2, OthersCarry, ScoresCarried, ReaderValues DEF HealthStep
  <2>3. ASSUME NEW r \in Requests, Rollback(r), UNCHANGED <<assessmentVars, healthVars, week>>
        PROVE  RowValues' /\ \A q \in Requests : Carried(txn'[q])
    <3>1. UNCHANGED <<assessments, results, health, signals, history, week>>
      BY <2>3 DEF assessmentVars, healthVars
    <3>2. RowValues'
      BY <3>1 DEF ValuesInv, RowValues
    <3>3. txn'[r] = Idle /\ \A q \in Requests \ {r} : txn'[q] = txn[q]
      BY <2>3 DEF Rollback, ValuesInv, AssessmentInv, Table
    <3>. QED
      BY <3>2, <3>3, IdleCarries DEF ValuesInv
  <2>4. CASE SevenDays \/ UNCHANGED vars
    <3>1. week' \in 0..1 /\ UNCHANGED <<assessments, results, health, signals, history, txn>>
      BY <2>4 DEF SevenDays, vars, assessmentVars, healthVars, txnVars, ValuesInv, RowValues
    <3>. QED
      BY <3>1 DEF ValuesInv, RowValues
  <2>. QED
    BY <2>1, <2>2, <2>3, <2>4 DEF Next
<1>. QED
  BY <1>1, <1>2, AssessmentsInductive, PTL DEF Spec, ValuesInv

(* Every row has values in their ranges: an answer is one the question      *)
(* takes, a score, whole or of a dimension, is from 0 to 100, the band is   *)
(* one there is, and only the last assessment can be in progress.           *)
THEOREM AssessmentTypes == Spec => []TypeOK
<1>1. ValuesInv => TypeOK
  <2> SUFFICES ASSUME ValuesInv PROVE TypeOK
    OBVIOUS
  <2>1. /\ DOMAIN assessments = 1..Len(assessments) /\ Len(assessments) \in Nat
        /\ DOMAIN results = 1..Len(results) /\ Len(results) \in Nat
        /\ Len(assessments) \in {Len(results), Len(results) + 1}
    BY RowNumbers DEF ValuesInv, AssessmentInv, Lengths
  <2>2. ASSUME NEW a \in DOMAIN assessments
        PROVE  /\ [type |-> assessments[a].type, status |-> assessments[a].status] \in Assessment
               /\ Answers(assessments[a].answers)
               /\ assessments[a].status = "in_progress" => a = Len(assessments)
               /\ list_assessments[a].overall \in -1..100
    <3>. a \in 1..Len(assessments)
      BY <2>1, Zenon
    <3>1. Attempt(a) /\ Answers(assessments[a].answers)
      BY DEF ValuesInv, AssessmentInv, Attempts, RowValues
    <3>2. [type |-> assessments[a].type, status |-> assessments[a].status] \in Assessment
      BY <3>1 DEF Attempt, Assessment, Types
    <3>3. assessments[a].status = "in_progress" => a = Len(assessments)
      <4>1. assessments[a].status = "in_progress" => ~(a <= Len(results))
        BY <3>1 DEF Attempt
      <4>. PICK m, n : m = Len(assessments) /\ n = Len(results)
        OBVIOUS
      <4>2. n \in Nat /\ m \in {n, n + 1} /\ a \in 1..m
        BY <2>1, Zenon
      <4>. QED
        BY <4>1, <4>2
    <3>4. list_assessments[a].overall = IF a \in DOMAIN results THEN overall_provisional(results[a].scores) ELSE -1
      BY DEF list_assessments
    <3>5. ASSUME a \in DOMAIN results PROVE overall_provisional(results[a].scores) \in 0..100
      <4>1. a \in 1..Len(results)
        BY <2>1, <3>5, Zenon
      <4>2. results[a].scores \in Scores
        BY <4>1 DEF ValuesInv, RowValues
      <4>. QED
        BY <4>2, OverallInRange, Zenon
    <3>6. list_assessments[a].overall \in -1..100
      <4>. PICK n : n = overall_provisional(results[a].scores)
        OBVIOUS
      <4>. QED
        BY <3>4, <3>5
    <3>. QED
      BY <3>1, <3>2, <3>3, <3>6
  <2>3. ASSUME NEW i \in DOMAIN results PROVE results[i] \in Result
    <3>1. i \in 1..Len(results)
      BY <2>1, Zenon
    <3>2. results[i].scores \in Scores
      BY <3>1 DEF ValuesInv, RowValues
    <3>3. results[i] \in [scores : {results[i].scores}, narrative : {"template", "ai"}]
      BY <3>1 DEF ValuesInv, AssessmentInv, Attempts, HasResult
    <3>. QED
      BY <3>2, <3>3 DEF Result
  <2>4. \A i \in DOMAIN history : history[i] \in HealthScoreHistory
    BY DEF ValuesInv, RowValues
  <2>5. \A k \in DOMAIN recs : recs[k] \in HealthRecommendation
    BY DEF ValuesInv, AssessmentInv, Ranked
  <2>. QED
    BY <2>2, <2>3, <2>4, <2>5 DEF TypeOK, ValuesInv, RowValues
<1>. QED
  BY <1>1, ValuesInductive, PTL

(* The history grows by the one recomputation that commits.                 *)
LEMMA HistoryGrows ==
  ASSUME AssessmentInv, Next, history' # history
  PROVE  \E q \in Requests : Recomputed(q) /\ Commit(q)
<1>1. ASSUME NEW q \in Requests, CommitComplete(q) \/ CommitLazyRead(q)
      PROVE  Recomputed(q) /\ Commit(q)
  BY <1>1 DEF CommitComplete, CommitLazyRead
<1>2. ASSUME NEW q \in Requests,
             \/ start_assessment(q) \/ start_or_resume(q) \/ CommitStart(q)
             \/ submit_answer(q) \/ post_answer(q)
             \/ post_complete_assessment(q) \/ complete_assessment(q)
             \/ handle_assessment_narrative(q) \/ CommitNarrative(q)
      PROVE  FALSE
  BY <1>2 DEF start_assessment, start_or_resume, CommitStart, submit_answer, post_answer,
              post_complete_assessment, complete_assessment, handle_assessment_narrative,
              CommitNarrative, healthVars
<1>3. ASSUME NEW q \in Requests,
             \/ get_health_score(q) \/ recompute_health_score(q)
             \/ accept_recommendation(q) \/ dismiss_recommendation(q) \/ CommitResolve(q)
             \/ handle_health_recommendations(q) \/ CommitBodies(q)
      PROVE  FALSE
  BY <1>3 DEF get_health_score, recompute_health_score, accept_recommendation,
              dismiss_recommendation, resolve_recommendation, CommitResolve,
              handle_health_recommendations, CommitBodies, healthVars
<1>. QED
  BY <1>1, <1>2, <1>3 DEF Next, HealthStep, SevenDays, healthVars

(* The signals a recomputation leaves when those it deletes are all.        *)
LEMMA SignalsLeft ==
  ASSUME NEW r \in Requests, Recomputed(r), txn[r].deletes = signals,
         NEW d \in ToSet(Dimension)
  PROVE  \E row : /\ {x \in signals' : x.dim = d} = {row}
                  /\ row.value = txn[r].scores[d]
<1>. DEFINE n == Len(history) + 1
            Row(e) == [dim |-> e, value |-> txn[r].scores[e], by |-> n]
<1>1. signals' = {Row(e) : e \in ToSet(Dimension)}
  <2>1. signals' = (signals \ txn[r].deletes) \cup {Row(e) : e \in ToSet(Dimension)}
    BY Zenon DEF Recomputed
  <2>. QED
    BY <2>1
<1>2. \A e : Row(e).dim = e /\ Row(e).value = txn[r].scores[e]
  OBVIOUS
<1>. HIDE DEF Row
<1>3. {x \in signals' : x.dim = d} = {Row(d)}
  BY <1>1, <1>2
<1>. QED
  BY <1>2, <1>3

(* A recomputation that no other request commits into leaves each dimension *)
(* one signal, with the value that the score shown has there, whatever rows *)
(* racing ones had left before.                                             *)
THEOREM SignalsOfScore == Spec => SignalsMatchScore
<1>1. ValuesInv /\ [Next]_vars =>
        [\A r \in Requests :
           Doing(r, "scored") /\ alone[r] /\ history' # history /\ txn'[r] # txn[r] =>
             \A d \in ToSet(Dimension) :
               {s.value : s \in get_dimension(d)'.signals} = {get_dimension(d)'.score}
               /\ Cardinality(get_dimension(d)'.signals) = 1]_vars
  <2> SUFFICES ASSUME ValuesInv, Next, NEW r \in Requests,
                      Doing(r, "scored"), alone[r], history' # history, txn'[r] # txn[r],
                      NEW d \in ToSet(Dimension)
               PROVE  /\ {s.value : s \in get_dimension(d)'.signals} = {get_dimension(d)'.score}
                      /\ Cardinality(get_dimension(d)'.signals) = 1
    OBVIOUS
  <2>1. Recomputed(r)
    BY HistoryGrows, TableCommit DEF ValuesInv, AssessmentInv
  <2>2. txn[r].deletes = signals
    BY DEF ValuesInv, AssessmentInv, UnderWay, DeletesAll, Recomputing, Doing
  <2>3. PICK row : {x \in signals' : x.dim = d} = {row} /\ row.value = txn[r].scores[d]
    BY <2>1, <2>2, SignalsLeft
  <2>4. get_dimension(d)'.signals = {row}
    BY <2>3 DEF get_dimension
  <2>5. health' # NoScore /\ health'.scores = txn[r].scores
    <3>1. health' \in HealthScore
      BY <2>1, RecomputedValues DEF ValuesInv, Carried, Doing
    <3>2. health'.scores = txn[r].scores
      BY <2>1 DEF Recomputed
    <3>. QED
      BY <3>1, <3>2, NoScoreAssumption
  <2>6. get_dimension(d)'.score = txn[r].scores[d]
    BY <2>5 DEF get_dimension
  <2>7. {s.value : s \in {row}} = {row.value}
    OBVIOUS
  <2>8. Cardinality({row}) = 1
    BY FS_Singleton
  <2>9. PICK shown : shown = get_dimension(d)'
    OBVIOUS
  <2>10. /\ {s.value : s \in shown.signals} = {shown.score}
         /\ Cardinality(shown.signals) = 1
    BY <2>3, <2>4, <2>6, <2>7, <2>8, <2>9, Zenon
  <2>. QED
    BY <2>9, <2>10, Zenon
<1>. QED
  BY <1>1, ValuesInductive, PTL DEF Spec, SignalsMatchScore
=============================================================================
