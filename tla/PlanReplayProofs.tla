--------------------------- MODULE PlanReplayProofs ----------------------------
(***************************************************************************)
(* Proofs about PlanReplay: a price is read as it was written, a job        *)
(* reports what the shop offered, and it does not fail for nothing, for     *)
(* every price, style of price texts, request and history of the shop.      *)
(***************************************************************************)
EXTENDS PlanReplay, FiniteSetTheorems, SequenceTheorems, TLAPS

-------------------------------------------------------------------------------
(* Prices are read as they were written. *)

KnownStyle(s) ==
    /\ s.group \in {"none", "space"} \cup Points
    /\ s.point \in Points \ {s.group}
    /\ s.short \in BOOLEAN

(* The amounts that a shop can show have at most seven digits before the    *)
(* cents.                                                                    *)
Amount == {n \in Nat : n > 0 /\ n < 1000000000}

Runs == [val: Nat, len: 1..8]

LEMMA DigitsOf ==
    ASSUME NEW n \in Nat, n < 100000000
    PROVE  Digits(n) \in 1..8 /\ (n < 1000 => Digits(n) <= 3)
  <1>1. DOMAIN Tens = 1..8
    BY SMT DEF Tens
  <1>2. \E k \in 1..8 : n < Tens[k] /\ (k > 1 => n >= Tens[k - 1])
    <2>1. CASE n < 10
      BY <2>1, SMT DEF Tens
    <2>2. CASE n >= 10 /\ n < 100
      BY <2>2, SMT DEF Tens
    <2>3. CASE n >= 100 /\ n < 1000
      BY <2>3, SMT DEF Tens
    <2>4. CASE n >= 1000 /\ n < 10000
      BY <2>4, SMT DEF Tens
    <2>5. CASE n >= 10000 /\ n < 100000
      BY <2>5, SMT DEF Tens
    <2>6. CASE n >= 100000 /\ n < 1000000
      BY <2>6, SMT DEF Tens
    <2>7. CASE n >= 1000000 /\ n < 10000000
      BY <2>7, SMT DEF Tens
    <2>8. CASE n >= 10000000
      BY <2>8, SMT DEF Tens
    <2>9. QED
      BY <2>1, <2>2, <2>3, <2>4, <2>5, <2>6, <2>7, <2>8, SMT
  <1>3. PICK k \in 1..8 : k = Digits(n) /\ (k > 1 => n >= Tens[k - 1])
    BY <1>1, <1>2 DEF Digits
  <1>4. n < 1000 => k <= 3
    <2>1. Tens[3] = 1000 /\ Tens[4] = 10000 /\ Tens[5] = 100000 /\ Tens[6] = 1000000
          /\ Tens[7] = 10000000
      BY SMT DEF Tens
    <2>2. k \in 1..3 \/ k = 4 \/ k = 5 \/ k = 6 \/ k = 7 \/ k = 8
      BY SMT
    <2>3. QED
      BY <1>3, <2>1, <2>2, SMT
  <1>5. QED
    BY <1>3, <1>4

(* The value of one, two or three groups of digits. *)
GroupsValue(runs, k) ==
    IF k = 1 THEN runs[1].val
    ELSE IF k = 2 THEN runs[1].val * 1000 + runs[2].val
    ELSE (runs[1].val * 1000 + runs[2].val) * 1000 + runs[3].val

LEMMA JoinedGroups ==
    ASSUME NEW runs, NEW k \in 1..3, \A i \in 1..k : runs[i] \in Runs,
           \A i \in 2..k : runs[i].len = 3
    PROVE  Joined(runs, k) = GroupsValue(runs, k)
  <1> DEFINE next(f, i) == IF i = 0 THEN 0 ELSE f[i - 1] * Tens[runs[i].len] + runs[i].val
             value == CHOOSE f : f = [i \in 0..k |-> next(f, i)]
             g == [i \in 0..k |-> IF i = 0 THEN 0 ELSE GroupsValue(runs, i)]
  <1>1. \A i \in 1..k : Tens[runs[i].len] \in Nat /\ runs[i].val \in Nat
    BY SMT DEF Tens, Runs
  <1>2. \A i \in 2..k : Tens[runs[i].len] = 1000
    BY SMT DEF Tens
  <1>3. \A i \in 0..k : next(g, i) = g[i]
    <2>1. next(g, 0) = g[0]
      BY SMT
    <2>2. next(g, 1) = g[1]
      BY <1>1, SMT DEF GroupsValue
    <2>3. k >= 2 => next(g, 2) = g[2]
      BY <1>1, <1>2, SMT DEF GroupsValue
    <2>4. k >= 3 => next(g, 3) = g[3]
      BY <1>1, <1>2, SMT DEF GroupsValue
    <2>5. QED
      BY <2>1, <2>2, <2>3, <2>4, SMT
  <1>4. g = [i \in 0..k |-> next(g, i)]
    BY <1>3, Zenon
  <1>5. value = [i \in 0..k |-> next(value, i)]
    <2>1. \E f : f = [i \in 0..k |-> next(f, i)]
      BY <1>4, Zenon
    <2>2. QED
      BY <2>1, Zenon
  <1>6. Joined(runs, k) = value[k]
    BY Zenon DEF Joined
  <1>7. \A i \in 0..k : value[i] = next(value, i)
    BY <1>5, Zenon
  <1>8. value[0] = 0 /\ value[1] = runs[1].val
    BY <1>1, <1>7, SMT
  <1>9. (k >= 2 => value[2] = value[1] * 1000 + runs[2].val)
        /\ (k >= 3 => value[3] = value[2] * 1000 + runs[3].val)
    BY <1>2, <1>7, SMT
  <1>10. QED
    BY <1>6, <1>8, <1>9, SMT DEF GroupsValue

(* The digits before the cents. *)
Whole(units, s) == IF s.group = "none" THEN <<Run(units, Digits(units))>> ELSE Groups(units)

IsWhole(w, units) ==
    /\ w \in Seq(Runs) /\ Len(w) \in 1..3
    /\ Len(w) > 1 => w[1].len <= 3
    /\ \A i \in 2..Len(w) : w[i].len = 3
    /\ GroupsValue(w, Len(w)) = units

LEMMA WholeRuns ==
    ASSUME NEW units \in Nat, units < 10000000, NEW s
    PROVE  IsWhole(Whole(units, s), units) /\ (Len(Whole(units, s)) > 1 => s.group # "none")
  <1> DEFINE w == Whole(units, s)
  <1>1. Digits(units) \in 1..8
    BY DigitsOf, SMT
  <1>2. CASE s.group = "none" \/ units < 1000
    <2>1. w = <<Run(units, Digits(units))>>
      BY <1>2, SMT DEF Whole, Groups
    <2>2. Run(units, Digits(units)) \in Runs /\ Run(units, Digits(units)).val = units
      BY <1>1, SMT DEF Run, Runs
    <2>3. w \in Seq(Runs) /\ Len(w) = 1 /\ w[1].val = units
      BY <2>1, <2>2, SMT
    <2>4. QED
      BY <2>3, SMT DEF IsWhole, GroupsValue
  <1>3. CASE s.group # "none" /\ units >= 1000 /\ units < 1000000
    <2> DEFINE a == units \div 1000
               b == units % 1000
               x == Run(a, Digits(a))
               y == Run(b, 3)
    <2>1. a \in Nat /\ a < 1000 /\ b \in Nat /\ a * 1000 + b = units
      BY <1>3, SMT
    <2>2. Digits(a) \in 1..3
      BY <2>1, DigitsOf, SMT
    <2>3. w = <<x, y>>
      BY <1>3, SMT DEF Whole, Groups
    <2>4. x \in Runs /\ y \in Runs /\ x.val = a /\ y.val = b /\ x.len <= 3 /\ y.len = 3
      BY <2>1, <2>2, SMT DEF Run, Runs
    <2> HIDE DEF x, y, a, b, w
    <2>5. w \in Seq(Runs) /\ Len(w) = 2 /\ w[1] = x /\ w[2] = y
      BY <2>3, <2>4, SMT
    <2>6. IsWhole(w, units)
      BY <2>1, <2>4, <2>5, SMT DEF IsWhole, GroupsValue
    <2>7. QED
      BY <1>3, <2>6, SMT DEF w
  <1>4. CASE s.group # "none" /\ units >= 1000000
    <2> DEFINE a == units \div 1000000
               b == (units \div 1000) % 1000
               c == units % 1000
               x == Run(a, Digits(a))
               y == Run(b, 3)
               z == Run(c, 3)
    <2>1. a \in Nat /\ a < 1000 /\ b \in Nat /\ c \in Nat /\ (a * 1000 + b) * 1000 + c = units
      BY <1>4, SMT
    <2>2. Digits(a) \in 1..3
      BY <2>1, DigitsOf, SMT
    <2>3. w = <<x, y, z>>
      BY <1>4, SMT DEF Whole, Groups
    <2>4. /\ x \in Runs /\ y \in Runs /\ z \in Runs /\ x.val = a /\ y.val = b /\ z.val = c
          /\ x.len <= 3 /\ y.len = 3 /\ z.len = 3
      BY <2>1, <2>2, SMT DEF Run, Runs
    <2> HIDE DEF x, y, z, a, b, c, w
    <2>5. w \in Seq(Runs) /\ Len(w) = 3 /\ w[1] = x /\ w[2] = y /\ w[3] = z
      BY <2>3, <2>4, SMT
    <2>6. IsWhole(w, units)
      BY <2>1, <2>4, <2>5, SMT DEF IsWhole, GroupsValue
    <2>7. QED
      BY <1>4, <2>6, SMT DEF w
  <1>5. QED
    BY <1>2, <1>3, <1>4, SMT

(* What Numeral makes of an amount: the groups w and, unless they are left  *)
(* out, the cents.                                                           *)
IsNumeral(n, w, cents, minor, s) ==
    LET k == Len(w) IN
    /\ n.runs \in Seq(Runs) /\ Len(n.runs) = IF cents THEN k + 1 ELSE k
    /\ \A i \in 1..k : n.runs[i] = w[i]
    /\ cents => n.runs[k + 1] = Run(minor % 100, 2)
    /\ Len(n.seps) = Len(n.runs) - 1 /\ DOMAIN n.seps = 1..(Len(n.runs) - 1)
    /\ \A i \in 1..(k - 1) : n.seps[i] = s.group
    /\ cents => n.seps[k] = s.point

LEMMA AmountParts ==
    ASSUME NEW minor \in Amount
    PROVE  /\ minor \div 100 \in Nat /\ minor \div 100 < 10000000 /\ minor % 100 \in 0..99
           /\ (minor \div 100) * 100 + (minor % 100) = minor
  <1>1. minor \in Nat /\ minor < 1000000000
    BY SMT DEF Amount
  <1>2. (minor \div 100) * 100 + (minor % 100) = minor /\ minor \div 100 \in Nat /\ minor % 100 \in 0..99
    BY <1>1, SMT
  <1>3. QED
    BY <1>1, <1>2, SMT

LEMMA NumeralShape ==
    ASSUME NEW minor \in Amount, NEW s, KnownStyle(s)
    PROVE  \E w : \E cents \in BOOLEAN :
               /\ IsWhole(w, minor \div 100) /\ (Len(w) > 1 => s.group # "none")
               /\ ~cents => minor % 100 = 0
               /\ IsNumeral(Numeral(minor, s), w, cents, minor, s)
  <1> DEFINE units == minor \div 100
             w == Whole(units, s)
             cents == ~(s.short /\ minor % 100 = 0)
             c == Run(minor % 100, 2)
             runs == IF cents THEN Append(w, c) ELSE w
             n == Numeral(minor, s)
  <1>1. units \in Nat /\ units < 10000000 /\ minor % 100 \in Nat
    BY AmountParts, SMT
  <1>2. IsWhole(w, units) /\ (Len(w) > 1 => s.group # "none")
    BY <1>1, WholeRuns, SMT
  <1>3. c \in Runs
    BY <1>1, SMT DEF Run, Runs
  <1>4. n = [runs |-> runs, seps |-> [i \in 1..(Len(runs) - 1) |->
                                         IF i = Len(w) THEN s.point ELSE s.group]]
    BY Zenon DEF Numeral, Whole
  <1>5. w \in Seq(Runs) /\ Len(w) \in 1..3
    BY <1>2, Zenon DEF IsWhole
  <1> HIDE DEF w, c, units, n
  <1>6. /\ runs \in Seq(Runs) /\ Len(runs) = IF cents THEN Len(w) + 1 ELSE Len(w)
        /\ \A i \in 1..Len(w) : runs[i] = w[i]
        /\ cents => runs[Len(w) + 1] = c
    BY <1>3, <1>5, AppendProperties, SMT
  <1>7. /\ n.runs = runs /\ DOMAIN n.seps = 1..(Len(runs) - 1)
        /\ \A i \in 1..(Len(runs) - 1) : n.seps[i] = IF i = Len(w) THEN s.point ELSE s.group
    BY <1>4, Zenon
  <1> HIDE DEF runs, cents
  <1>8. Len(n.seps) = Len(runs) - 1
    <2> DEFINE m == Len(runs) - 1
    <2>1. m \in Nat
      BY <1>5, <1>6, SMT
    <2>2. n.seps = [i \in 1..m |-> IF i = Len(w) THEN s.point ELSE s.group]
      BY <1>4, <1>7, Zenon
    <2> HIDE DEF m
    <2>3. n.seps \in Seq({s.point, s.group})
      BY <2>1, <2>2, SMT
    <2>4. Len(n.seps) = m
      BY <2>1, <2>2, <2>3, SMT
    <2>5. QED
      BY <2>4 DEF m
  <1>9. IsNumeral(n, w, cents, minor, s)
    BY <1>5, <1>6, <1>7, <1>8, SMT DEF IsNumeral, c
  <1>10. cents \in BOOLEAN /\ (~cents => minor % 100 = 0)
    BY Zenon DEF cents
  <1>11. QED
    BY <1>2, <1>9, <1>10, Zenon DEF n, units

LEMMA NumeralIsOneMatch ==
    ASSUME NEW minor, NEW s, KnownStyle(s), NEW n, NEW w, NEW units, NEW cents \in BOOLEAN,
           IsWhole(w, units), Len(w) > 1 => s.group # "none", IsNumeral(n, w, cents, minor, s)
    PROVE  OneMatch(n)
  <1> DEFINE k == Len(w)
             Grouped(S, j) ==
                 j > 1 /\ n.runs[1].len <= 3
                   /\ \A i \in 2..j : n.runs[i].len = 3 /\ n.seps[i - 1] \in S
             WholeTo(j) == j = 1 \/ Grouped({"space"}, j) \/ Grouped(Points, j)
  <1>1. k \in 1..3 /\ (k > 1 => w[1].len <= 3) /\ \A i \in 2..k : w[i].len = 3
    BY SMT DEF IsWhole
  <1>2. \A i \in 1..k : n.runs[i] = w[i]
    BY SMT DEF IsNumeral
  <1>3. k > 1 => s.group = "space" \/ s.group \in Points
    BY SMT DEF KnownStyle, Points
  <1>4. \A i \in 1..(k - 1) : n.seps[i] = s.group
    BY SMT DEF IsNumeral
  <1>5. k > 1 => Grouped({"space"}, k) \/ Grouped(Points, k)
    BY <1>1, <1>2, <1>3, <1>4, SMT
  <1>6. WholeTo(k)
    BY <1>1, <1>5, SMT
  <1> HIDE DEF Grouped
  <1>7. CASE ~cents
    <2>1. Len(n.runs) = k
      BY <1>7, SMT DEF IsNumeral
    <2>2. QED
      BY <1>6, <2>1 DEF OneMatch, Grouped
  <1>8. CASE cents
    <2>1. Len(n.runs) = k + 1 /\ n.runs[k + 1].len = 2 /\ n.seps[k] \in Points
      BY <1>8, <1>1, SMT DEF IsNumeral, Run, KnownStyle
    <2>2. Len(n.runs) - 1 = k /\ Len(n.runs) > 1
      <3>1. k \in 1..3 /\ Len(n.runs) = k + 1
        BY <1>1, <2>1
      <3> HIDE DEF k
      <3>2. QED
        BY <3>1, SMT
    <2>3. n.runs[Len(n.runs)].len <= 2
      BY <2>1, SMT
    <2>4. QED
      BY <1>6, <2>1, <2>2, <2>3, Zenon DEF OneMatch, Grouped
  <1>9. QED
    BY <1>7, <1>8

LEMMA NumeralFraction ==
    ASSUME NEW minor, NEW s, KnownStyle(s), NEW n, NEW w, NEW units, NEW cents \in BOOLEAN,
           IsWhole(w, units), Len(w) > 1 => s.group # "none", IsNumeral(n, w, cents, minor, s)
    PROVE  (Fractional(n) <=> cents) /\ ~Malformed(n)
  <1> DEFINE k == Len(w)
             seps == {n.seps[i] : i \in DOMAIN n.seps}
  <1>1. k \in 1..3 /\ \A i \in 2..k : w[i].len = 3
    BY SMT DEF IsWhole
  <1>2. s.point \in Points /\ s.point # s.group
    BY SMT DEF KnownStyle
  <1>3. CASE cents
    <2>1. /\ DOMAIN n.seps = 1..k /\ Len(n.seps) = k /\ n.seps[k] = s.point
          /\ \A i \in 1..(k - 1) : n.seps[i] = s.group
      BY <1>1, <1>3, SMT DEF IsNumeral
    <2>2. Last(n.runs).len = 2
      BY <1>1, <1>3, SMT DEF IsNumeral, Last, Run
    <2>3. s.point \in seps
      <3>1. k \in 1..k
        BY <1>1, SMT
      <3>2. QED
        BY <2>1, <3>1, Zenon
    <2>4. Fractional(n)
      BY <1>2, <2>2, <2>3, SMT DEF Fractional
    <2>5. Last(n.seps) = s.point
      BY <2>1, Zenon DEF Last
    <2>6. ~Malformed(n)
      BY <1>2, <2>1, <2>5, Zenon DEF Malformed
    <2>7. QED
      BY <1>3, <2>4, <2>6
  <1>4. CASE ~cents
    <2>1. /\ DOMAIN n.seps = 1..(k - 1) /\ Len(n.runs) = k
          /\ \A i \in 1..(k - 1) : n.seps[i] = s.group
          /\ n.runs[k] = w[k]
      BY <1>1, <1>4, SMT DEF IsNumeral
    <2>2. seps \subseteq {s.group} /\ (k = 1 => seps = {})
      BY <1>1, <2>1, SMT
    <2> HIDE DEF seps
    <2>3. ~(Points \subseteq seps)
      <3>1. "comma" # "dot"
        OBVIOUS
      <3>2. QED
        BY <2>2, <3>1, Zenon DEF Points
    <2>4. ~Malformed(n)
      BY <2>3, Zenon DEF Malformed, seps
    <2>5. k > 1 => Last(n.runs).len = 3
      BY <1>1, <2>1, SMT DEF Last
    <2>6. seps \cap Points # Points /\ (k = 1 => seps \cap Points = {})
      <3>1. seps \cap Points # Points
        BY <2>3, Zenon
      <3>2. k = 1 => seps \cap Points = {}
        BY <2>2, Zenon
      <3>3. QED
        BY <3>1, <3>2
    <2>7. k = 1 \/ k > 1
      BY <1>1, SMT
    <2>8. ~Fractional(n)
      BY <2>5, <2>6, <2>7, Zenon DEF Fractional, seps
    <2>9. QED
      BY <1>4, <2>4, <2>8
  <1>5. QED
    BY <1>3, <1>4

LEMMA NumeralValue ==
    ASSUME NEW minor \in Amount, NEW n, NEW w, NEW s, NEW cents \in BOOLEAN,
           IsWhole(w, minor \div 100), IsNumeral(n, w, cents, minor, s),
           ~cents => minor % 100 = 0
    PROVE  minor = IF cents
                   THEN Joined(n.runs, Len(n.runs) - 1) * 100 + Hundredths(Last(n.runs))
                   ELSE Joined(n.runs, Len(n.runs)) * 100
  <1> DEFINE k == Len(w)
             units == minor \div 100
  <1>1. k \in 1..3 /\ w \in Seq(Runs) /\ (\A i \in 2..k : w[i].len = 3)
        /\ GroupsValue(w, k) = units
    BY Zenon DEF IsWhole
  <1>2. /\ n.runs \in Seq(Runs) /\ Len(n.runs) = IF cents THEN k + 1 ELSE k
        /\ \A i \in 1..k : n.runs[i] = w[i]
        /\ cents => n.runs[k + 1] = Run(minor % 100, 2)
    BY Zenon DEF IsNumeral
  <1>3. units * 100 + (minor % 100) = minor /\ units \in Nat
    BY AmountParts, SMT
  <1> HIDE DEF k, units
  <1>4. Joined(n.runs, k) = GroupsValue(n.runs, k)
    <2>1. \A i \in 1..k : n.runs[i] \in Runs
      BY <1>1, <1>2, SMT DEF k
    <2>2. \A i \in 2..k : n.runs[i].len = 3
      BY <1>1, <1>2, SMT
    <2>3. QED
      BY <1>1, <2>1, <2>2, JoinedGroups, Zenon
  <1>5. GroupsValue(n.runs, k) = units
    <2>1. k = 1 \/ k = 2 \/ k = 3
      BY <1>1, SMT
    <2>2. /\ n.runs[1] = w[1]
          /\ k >= 2 => n.runs[2] = w[2]
          /\ k >= 3 => n.runs[3] = w[3]
      BY <1>1, <1>2, SMT
    <2>3. QED
      BY <1>1, <2>1, <2>2, SMT DEF GroupsValue
  <1>6. CASE cents
    <2>1. Len(n.runs) = k + 1 /\ Len(n.runs) - 1 = k
      BY <1>1, <1>2, <1>6, SMT
    <2>2. Last(n.runs) = Run(minor % 100, 2)
      BY <1>2, <1>6, <2>1, Zenon DEF Last
    <2>3. Hundredths(Last(n.runs)) = minor % 100
      BY <2>2, SMT DEF Hundredths, Run
    <2>4. QED
      BY <1>3, <1>4, <1>5, <1>6, <2>1, <2>3, SMT
  <1>7. CASE ~cents
    <2>1. Len(n.runs) = k
      BY <1>2, <1>7, SMT
    <2>2. QED
      BY <1>3, <1>4, <1>5, <1>7, <2>1, SMT
  <1>8. QED
    BY <1>6, <1>7

(* What parsePrice makes of a single numeral. *)
LEMMA NumeralIsRead ==
    ASSUME NEW minor \in Amount, NEW s, KnownStyle(s), NEW text,
           Len(text.numerals) = 1, Head(text.numerals) = Numeral(minor, s), ~text.qualified,
           ~(Cardinality(text.currencies) > 1)
    PROVE  parsePrice(text) = minor
  <1> DEFINE n == Numeral(minor, s)
  <1>1. PICK w : \E cents \in BOOLEAN :
               /\ IsWhole(w, minor \div 100) /\ (Len(w) > 1 => s.group # "none")
               /\ ~cents => minor % 100 = 0
               /\ IsNumeral(n, w, cents, minor, s)
    BY NumeralShape, Zenon
  <1>2. PICK cents \in BOOLEAN :
               /\ IsWhole(w, minor \div 100) /\ (Len(w) > 1 => s.group # "none")
               /\ ~cents => minor % 100 = 0
               /\ IsNumeral(n, w, cents, minor, s)
    BY <1>1, Zenon
  <1> HIDE DEF n
  <1>3. OneMatch(n)
    BY <1>2, NumeralIsOneMatch, Zenon
  <1>4. (Fractional(n) <=> cents) /\ ~Malformed(n)
    BY <1>2, NumeralFraction, Zenon
  <1>5. minor = IF cents
                THEN Joined(n.runs, Len(n.runs) - 1) * 100 + Hundredths(Last(n.runs))
                ELSE Joined(n.runs, Len(n.runs)) * 100
    BY <1>2, NumeralValue, Zenon
  <1>6. Head(text.numerals) = n
    BY DEF n
  <1>7. parsePrice(text) = IF Fractional(n)
                THEN Joined(n.runs, Len(n.runs) - 1) * 100 + Hundredths(Last(n.runs))
                ELSE Joined(n.runs, Len(n.runs)) * 100
    BY <1>3, <1>4, <1>6, Zenon DEF parsePrice
  <1>8. QED
    BY <1>4, <1>5, <1>7, Zenon

(* parsePrice undoes the conversion to a text: it gives back the amount     *)
(* that the shop wrote, in whatever style, unless the element also shows    *)
(* another price, and then it refuses.                                       *)
THEOREM ParsesBack ==
    ASSUME NEW minor \in Amount, NEW s, KnownStyle(s)
    PROVE  /\ s.note \notin {"was", "from"} => parsePrice(money(minor, s)) = minor
           /\ s.note \in {"was", "from"} => parsePrice(money(minor, s)) = Refused
  <1> DEFINE text == money(minor, s)
  <1>1. text.currencies = {"USD"} /\ text.qualified = (s.note = "from")
        /\ text.numerals = IF s.note = "was"
                           THEN <<Numeral(minor + 1000, s), Numeral(minor, s)>>
                           ELSE <<Numeral(minor, s)>>
    BY Zenon DEF money
  <1>2. ~(Cardinality(text.currencies) > 1)
    <2>1. Cardinality({"USD"}) = 1
      BY FS_Singleton, Zenon
    <2>2. Cardinality(text.currencies) = 1
      BY <1>1, <2>1, Zenon
    <2> HIDE DEF text
    <2>3. QED
      BY <2>2, SMT
  <1>3. ASSUME s.note \notin {"was", "from"}
        PROVE  parsePrice(text) = minor
    <2> DEFINE n == Numeral(minor, s)
    <2>1. text.numerals = <<n>> /\ ~text.qualified
      BY <1>1, <1>3
    <2> HIDE DEF n, text
    <2>2. Len(text.numerals) = 1 /\ Head(text.numerals) = n
      BY <2>1, SMT
    <2>3. QED
      BY <1>2, <2>1, <2>2, NumeralIsRead, Zenon DEF n
  <1>4. ASSUME s.note \in {"was", "from"}
        PROVE  parsePrice(text) = Refused
    <2>1. CASE s.note = "from"
      BY <1>1, <2>1, Zenon DEF parsePrice
    <2>2. CASE s.note = "was"
      <3> DEFINE n == Numeral(minor, s)
                 m == Numeral(minor + 1000, s)
      <3>1. text.numerals = <<m, n>>
        BY <1>1, <2>2
      <3> HIDE DEF m, n, text
      <3>2. Len(text.numerals) # 1
        BY <3>1, SMT
      <3>3. QED
        BY <3>2, Zenon DEF parsePrice
    <2>3. QED
      BY <1>4, <2>1, <2>2
  <1>5. QED
    BY <1>3, <1>4

(* The price in the structured data, and the other number on a page.        *)
LEMMA JsonLdIsRead ==
    ASSUME NEW p, p.base \in Amount
    PROVE  parsePrice(JsonLdPrice(p)) = p.base
  <1> DEFINE s == [group |-> "none", point |-> "dot", short |-> FALSE, note |-> "none"]
             n == Numeral(p.base, s)
             text == JsonLdPrice(p)
  <1>1. KnownStyle(s)
    BY DEF KnownStyle, Points
  <1>2. text.numerals = <<n>> /\ ~text.qualified /\ text.currencies = {}
    BY DEF JsonLdPrice, money
  <1> HIDE DEF n, text
  <1>3. Len(text.numerals) = 1 /\ Head(text.numerals) = n
    BY <1>2, SMT
  <1>4. ~(Cardinality(text.currencies) > 1)
    BY <1>2, FS_EmptySet, SMT
  <1> HIDE DEF s
  <1>5. parsePrice(text) = p.base
    BY <1>1, <1>2, <1>3, <1>4, NumeralIsRead, Zenon DEF n
  <1>6. QED
    BY <1>5, Zenon DEF text

(* Minor units of the battery life, were it a price. *)
OtherNumber == 6000

LEMMA BatteryIsRead == parsePrice(BatteryNode) = OtherNumber
  <1> DEFINE n == [runs |-> <<Run(60, 2)>>, seps |-> <<>>]
             text == BatteryNode
  <1>1. text.numerals = <<n>> /\ ~text.qualified /\ text.currencies = {}
    BY DEF BatteryNode
  <1>2. n.runs = <<Run(60, 2)>> /\ n.seps = <<>>
    OBVIOUS
  <1> HIDE DEF n, text
  <1>3. Len(text.numerals) = 1 /\ Head(text.numerals) = n
    BY <1>1, SMT
  <1>4. ~(Cardinality(text.currencies) > 1)
    BY <1>1, FS_EmptySet, SMT
  <1>5. Len(n.runs) = 1 /\ n.runs[1] = Run(60, 2)
    BY <1>2, SMT
  <1>6. DOMAIN n.seps = {}
    BY <1>2, SMT
  <1>7. OneMatch(n)
    BY <1>5, SMT DEF OneMatch
  <1>8. {n.seps[i] : i \in DOMAIN n.seps} = {}
    BY <1>6, Zenon
  <1>9. ~Malformed(n) /\ ~Fractional(n)
    <2>1. "dot" \in Points /\ Points # {}
      BY Zenon DEF Points
    <2>2. QED
      BY <1>8, <2>1, Zenon DEF Malformed, Fractional
  <1>10. Joined(n.runs, 1) = 60
    <2>1. n.runs[1] \in Runs /\ n.runs[1].val = 60
      BY <1>5, SMT DEF Run, Runs
    <2>2. \A i \in 1..1 : n.runs[i] \in Runs
      BY <2>1, SMT
    <2>3. \A i \in 2..1 : n.runs[i].len = 3
      BY SMT
    <2>4. 1 \in 1..3
      BY SMT
    <2>5. Joined(n.runs, 1) = GroupsValue(n.runs, 1)
      BY <2>2, <2>3, <2>4, JoinedGroups, Zenon
    <2>6. QED
      BY <2>1, <2>5, SMT DEF GroupsValue
  <1>11. parsePrice(text) = Joined(n.runs, Len(n.runs)) * 100
    BY <1>1, <1>3, <1>4, <1>7, <1>9, Zenon DEF parsePrice
  <1>12. QED
    BY <1>5, <1>10, <1>11, SMT DEF text, OtherNumber

-------------------------------------------------------------------------------
(* The states of a shop, its pages, plans and jobs. *)

(* price of the fixture admits what AllowedPrice does; a reset brings back  *)
(* the first price.                                                          *)
BasePrices == {value \in Prices \cup {109900} : AllowedPrice(value)}

Stores == [version: {1, 2}, base: BasePrices, inStock: BOOLEAN, item: {"atlas", "other"}]

IsPlan(pl) ==
    /\ DOMAIN pl = {"layout", "steps", "price", "labels", "item"}
    /\ pl.layout \in {1, 2} /\ DOMAIN pl.steps = Requested

Monitors == [mode: {"scripted", "live"}, variant: Variants, currency: {"USD", "EUR"}]

(* The browser shows a page that was loaded, and the fixture's product is   *)
(* never another.                                                            *)
ShopOK ==
    /\ store \in Stores /\ origin \in Stores /\ style \in Styles /\ monitor \in Monitors
    /\ loads \subseteq Stores /\ IsFiniteSet(loads)
    /\ monitor.mode = "scripted" => \A s \in loads \cup {store} : s.item = "atlas"
    /\ page = NoPage \/ \E s \in loads : page = productPage(s)

(* Which jobs go through which phases, and which of them have a plan.       *)
JobOK ==
    /\ DOMAIN job = {"kind", "phase", "status", "reason", "plan", "obs"}
    /\ job.kind \in {"compile", "check", "repair"}
    /\ job.phase \in {"compile", "verify", "check", "repair", "fresh", "done"}
    /\ (job.kind = "check") => job.phase \in {"check", "done"}
    /\ (job.phase = "check") => job.kind = "check"
    /\ (job.phase \in {"repair", "fresh"}) => job.kind = "repair"
    /\ (job.phase \in {"check", "repair"}) => plan # NoPlan
    /\ (job.phase \in {"verify", "fresh"}) => IsPlan(job.plan)

(* The shape of the state. *)
ShapeInv ==
    /\ ShopOK /\ JobOK
    /\ plan = NoPlan \/ IsPlan(plan)
    /\ wrongs \in Nat

-------------------------------------------------------------------------------
(* What the job under way has found. *)

(* What options add to a price. *)
Surcharges == {0, 2000, 15000, 17000}

(* The price can only be told from the other number on the page if they are *)
(* not the same: the one cross-check that a compile makes, of the answer of *)
(* the model and the text of the element that it has chosen, passes for the *)
(* wrong element when both show the same amount.                            *)
NoCoincidence ==
    \A value \in Prices, more \in Surcharges : value + more # OtherNumber

StepsRight(pl) == \A a \in Requested : pl.steps[a].value = variant[a]

(* A plan that reports nothing false: the price is read from its element,   *)
(* and either a wrong option shows on its label, or the labels say nothing, *)
(* the one wrong answer was spent on them, and the options are right.       *)
Tells(pl) == pl.price = "price" /\ (pl.labels = "label" \/ StepsRight(pl))

PlanRight(pl) == Tells(pl) /\ (pl.labels = "label" \/ wrongs >= 1)

Genuine(obs, s) ==
    obs.price = Total(s.base, Wanted) /\ obs.inStock = s.inStock /\ obs.item = s.item

(* At most one answer of the model was wrong, and it cannot hide.           *)
Truthful == NoCoincidence /\ wrongs <= 1

(* A plan without a wrong answer in it, and the layouts that it works on.   *)
Asked(pl) == pl.price = "price" /\ pl.labels = "label" /\ StepsRight(pl)

Readable(pl, version) == pl.layout = version \/ Fields \subseteq JsonLdFields

Fits(pl, version) ==
    Readable(pl, version) /\ \A a \in Requested : pl.steps[a].version = version

(* What a job reports about a shop. *)
Report(s) ==
    [item |-> s.item, price |-> Total(s.base, Wanted), currency |-> "USD",
     inStock |-> s.inStock, chosen |-> [a \in Requested |-> variant[a]]]

(* The request can be met, and no answer was wrong. *)
Quiet == wrongs = 0 /\ Offered /\ monitor.currency = "USD" /\ style.note = "none"

PlanGood(pl) == (Truthful => PlanRight(pl)) /\ (Quiet => Asked(pl))

(* A plan and an observation of a job that come from a replay on s. *)
Good(pl, obs, s) ==
    /\ IsPlan(pl) /\ PlanGood(pl)
    /\ Truthful => Genuine(obs, s) /\ obs.item = pl.item
    /\ Quiet => Fits(pl, s.version) /\ pl.item = s.item /\ obs = Report(s)

(* The inductive invariant: the adopted plan, and the one under way, is as  *)
(* good as the answers of the model were, and the job's report stems from a *)
(* page that it has loaded.                                                  *)
ReplayInv ==
    /\ ShapeInv
    /\ plan # NoPlan => PlanGood(plan) /\ (Quiet => Fits(plan, origin.version))
    /\ job.phase \in {"verify", "fresh"} => \E s \in loads : Good(job.plan, job.obs, s)
    /\ Truthful => ObservationIsGenuine /\ RepairIsReproduced
    /\ QuietShopSucceeds

-------------------------------------------------------------------------------
(* What is read from a page. *)

LEMMA TotalIsAmount ==
    ASSUME NEW base \in BasePrices, NEW selected
    PROVE  /\ base \in Amount /\ Total(base, selected) \in Amount
           /\ Total(base, selected) # Refused
           /\ NoCoincidence => Total(base, selected) # OtherNumber
  <1> DEFINE extra == (IF selected.color = "silver" THEN 2000 ELSE 0)
                        + (IF selected.capacity = "2tb" THEN 15000 ELSE 0)
  <1>1. base \in Nat /\ base > 0 /\ base <= 100000000
    BY StorefrontAssumption, SMT DEF BasePrices, AllowedPrice
  <1>2. extra \in Surcharges
    BY SMT DEF Surcharges
  <1>3. Total(base, selected) = base + extra
    BY <1>1, SMT DEF Total
  <1> HIDE DEF extra
  <1>4. base \in Amount /\ Total(base, selected) \in Amount /\ Total(base, selected) # Refused
    BY <1>1, <1>2, <1>3, SMT DEF Amount, Refused, Surcharges
  <1>5. ASSUME NoCoincidence
        PROVE  base + extra # OtherNumber
    <2>1. CASE base \in Prices
      BY <1>2, <1>5, <2>1, Zenon DEF NoCoincidence
    <2>2. CASE base = 109900
      BY <1>2, <2>2, SMT DEF OtherNumber, Surcharges
    <2>3. QED
      BY <2>1, <2>2, SMT DEF BasePrices
  <1>6. QED
    BY <1>3, <1>4, <1>5

LEMMA StylesAreKnown ==
    ASSUME NEW st \in Styles, NEW plain, plain = [st EXCEPT !.note = "none"]
    PROVE  KnownStyle(st) /\ KnownStyle(plain) /\ plain.note = "none"
  <1>1. /\ st \in [group: {"none", "space"} \cup Points, point: Points,
                   short: BOOLEAN, note: {"none", "was", "from"}]
        /\ st.point # st.group
    BY StylesAssumption, Zenon
  <1>2. /\ plain.note = "none" /\ plain.group = st.group /\ plain.point = st.point
        /\ plain.short = st.short
    BY <1>1, SMT
  <1>3. QED
    BY <1>1, <1>2, SMT DEF KnownStyle

(* The price of a page in its three places, and in the answer of the model. *)
LEMMA PricesRead ==
    ASSUME style \in Styles, NEW base \in BasePrices, NEW p, p.base = base
    PROVE  /\ parsePrice(JsonLdPrice(p)) = base
           /\ parsePrice(PriceNode(p)) \in {Refused, Total(base, p.selected)}
           /\ style.note = "none" => parsePrice(PriceNode(p)) = Total(base, p.selected)
           /\ SemanticPrice(p, TRUE) = Total(base, p.selected)
           /\ SemanticPrice(p, FALSE) = OtherNumber
  <1> DEFINE sum == Total(base, p.selected)
  <1>1. sum \in Amount /\ base \in Amount
    BY TotalIsAmount, Zenon
  <1> HIDE DEF sum
  <1>2. PICK st \in Styles : st = style
    OBVIOUS
  <1> DEFINE plain == [st EXCEPT !.note = "none"]
  <1>3. KnownStyle(st) /\ KnownStyle(plain) /\ plain.note = "none"
    BY StylesAreKnown, Zenon
  <1> HIDE DEF plain
  <1>4. /\ parsePrice(money(sum, st)) \in {Refused, sum}
        /\ st.note = "none" => parsePrice(money(sum, st)) = sum
    <2>1. "none" \notin {"was", "from"}
      OBVIOUS
    <2>2. QED
      BY <1>1, <1>3, <2>1, ParsesBack, Zenon
  <1>5. parsePrice(money(sum, plain)) = sum
    <2>1. plain.note \notin {"was", "from"}
      BY <1>3
    <2>2. QED
      BY <1>1, <1>3, <2>1, ParsesBack, Zenon
  <1>6. parsePrice(JsonLdPrice(p)) = base
    BY <1>1, JsonLdIsRead, Zenon
  <1>7. PriceNode(p) = money(sum, st) /\ SemanticPrice(p, TRUE) = parsePrice(money(sum, plain))
    BY <1>2, Zenon DEF PriceNode, SemanticPrice, sum, plain
  <1>8. SemanticPrice(p, FALSE) = OtherNumber
    BY BatteryIsRead, Zenon DEF SemanticPrice
  <1>9. QED
    BY <1>2, <1>4, <1>5, <1>6, <1>7, <1>8, Zenon DEF sum

LEMMA RequestedAttributes ==
    ASSUME monitor \in Monitors
    PROVE  Requested \subseteq {"color", "capacity"}
  <1>1. monitor.variant \in Variants
    BY SMT DEF Monitors
  <1>2. DOMAIN monitor.variant \subseteq {"color", "capacity"}
    BY <1>1, VariantsAssumption, Zenon DEF Attributes
  <1>3. DOMAIN Preselected = {"color", "capacity"}
    BY SMT DEF Preselected
  <1>4. QED
    BY <1>2, <1>3, Zenon DEF Requested, variant, fixtureVariants

(* The options that are selected after the steps of a plan. *)
Chosen(pl) ==
    [a \in Attributes |-> IF a \in Requested THEN pl.steps[a].value ELSE Preselected[a]]

LEMMA PreparedPage ==
    ASSUME NEW s, NEW pl, DOMAIN pl.steps = Requested
    PROVE  LET p == Prepared(productPage(s), pl.steps) IN
           /\ p.version = s.version /\ p.base = s.base /\ p.inStock = s.inStock /\ p.item = s.item
           /\ p.selected = Chosen(pl)
  BY SMT DEF Prepared, productPage, Chosen

LEMMA ChosenIsWanted ==
    ASSUME NEW pl, StepsRight(pl)
    PROVE  Chosen(pl) = Wanted
  BY SMT DEF Chosen, Wanted, StepsRight

LEMMA Extracts ==
    ASSUME NEW p, NEW pl
    PROVE  LET read == extractObservation(p, pl) IN
           /\ read = [obs |-> read.obs, error |-> read.error] /\ read.obs = Reads(p, pl)
           /\ ~Readable(pl, p.version) => read.error = "stale"
           /\ Readable(pl, p.version) /\ read.obs.price = Refused => read.error = "ambiguous_value"
           /\ Readable(pl, p.version) /\ read.obs.price # Refused => read.error = "none"
  <1> DEFINE obs == Reads(p, pl)
             bad == pl.layout # p.version /\ ~(Fields \subseteq JsonLdFields)
             refused == obs.price = Refused
             error == IF bad THEN "stale" ELSE IF refused THEN "ambiguous_value" ELSE "none"
             read == extractObservation(p, pl)
  <1>1. Readable(pl, p.version) <=> ~bad
    BY Zenon DEF Readable
  <1>2. read = [obs |-> obs, error |-> error]
    BY Zenon DEF extractObservation
  <1> HIDE DEF obs, bad, refused, read
  <1>3. /\ bad => error = "stale"
        /\ ~bad /\ refused => error = "ambiguous_value"
        /\ ~bad /\ ~refused => error = "none"
    BY Zenon
  <1> HIDE DEF error
  <1>4. read.obs = obs /\ read.error = error
    BY <1>2, SMT
  <1>5. QED
    BY <1>1, <1>2, <1>3, <1>4, Zenon DEF obs, refused, read

LEMMA Validates ==
    ASSUME NEW obs, NEW pl
    PROVE  /\ validateObservation(obs, pl) = "none" =>
                  /\ obs.currency = monitor.currency /\ obs.item = pl.item
                  /\ \A a \in Requested : obs.chosen[a] = variant[a]
           /\ /\ obs.currency = monitor.currency /\ obs.item = pl.item
              /\ \A a \in Requested : obs.chosen[a] = variant[a]
              => validateObservation(obs, pl) = "none"
  BY SMT DEF validateObservation

IsReading(obs, p, pl) ==
    /\ obs.item = p.item /\ obs.inStock = p.inStock /\ obs.currency = "USD"
    /\ obs.price = parsePrice(ReadsFrom(p, pl))
    /\ obs.chosen = [a \in Requested |->
                        IF pl.labels = "label" THEN p.selected[a] ELSE variant[a]]
    /\ obs = [item |-> obs.item, price |-> obs.price, currency |-> obs.currency,
              inStock |-> obs.inStock, chosen |-> obs.chosen]

LEMMA Reports ==
    ASSUME NEW p, NEW pl
    PROVE  IsReading(Reads(p, pl), p, pl)
  BY Zenon DEF Reads, IsReading

(* How a replay ends, by what it meets on the page. *)
LEMMA Replays ==
    ASSUME NEW s, NEW pl, DOMAIN pl.steps = Requested,
           NEW done, done = executeAndVerify(productPage(s), pl)
    PROVE  LET obs == Reads(Prepared(productPage(s), pl.steps), pl) IN
           /\ (\E a \in Requested : ~Clickable(productPage(s), pl.steps[a], a)) =>
                 done.error = "stale"
           /\ (\A a \in Requested : Clickable(productPage(s), pl.steps[a], a)) =>
                 /\ ~Readable(pl, s.version) => done.error = "stale"
                 /\ Readable(pl, s.version) /\ obs.price = Refused =>
                       done.error = "ambiguous_value"
                 /\ Readable(pl, s.version) /\ obs.price # Refused =>
                       done = [obs |-> obs, error |-> validateObservation(obs, pl)]
  <1> DEFINE page0 == productPage(s)
             p == Prepared(page0, pl.steps)
             read == extractObservation(p, pl)
             obs == Reads(p, pl)
             error == validateObservation(obs, pl)
  <1>1. p.version = s.version
    BY PreparedPage, Zenon
  <1>2. /\ read = [obs |-> read.obs, error |-> read.error] /\ read.obs = obs
        /\ ~Readable(pl, s.version) => read.error = "stale"
        /\ Readable(pl, s.version) /\ obs.price = Refused => read.error = "ambiguous_value"
        /\ Readable(pl, s.version) /\ obs.price # Refused => read.error = "none"
    BY <1>1, Extracts, Zenon
  <1>3. done = IF \E a \in Requested : ~Clickable(page0, pl.steps[a], a)
               THEN [error |-> "stale", obs |-> NoObservation]
               ELSE IF read.error # "none" THEN read
                    ELSE [read EXCEPT !.error = validateObservation(read.obs, pl)]
    BY Zenon DEF executeAndVerify
  <1> HIDE DEF page0, p, read, obs, error
  <1>4. ASSUME \E a \in Requested : ~Clickable(page0, pl.steps[a], a)
        PROVE  done.error = "stale"
    <2>1. done = [error |-> "stale", obs |-> NoObservation]
      BY <1>3, <1>4, Zenon
    <2>2. QED
      BY <2>1, SMT
  <1>5. ASSUME \A a \in Requested : Clickable(page0, pl.steps[a], a)
        PROVE  /\ ~Readable(pl, s.version) => done.error = "stale"
               /\ Readable(pl, s.version) /\ obs.price = Refused => done.error = "ambiguous_value"
               /\ Readable(pl, s.version) /\ obs.price # Refused =>
                     done = [obs |-> obs, error |-> error]
    <2>1. done = IF read.error # "none" THEN read ELSE [read EXCEPT !.error = error]
      BY <1>2, <1>3, <1>5, Zenon DEF error
    <2>2. read.error # "none" => done = read
      BY <2>1, Zenon
    <2>3. read.error = "none" => done = [obs |-> obs, error |-> error]
      BY <1>2, <2>1, SMT
    <2>4. QED
      BY <1>2, <2>2, <2>3
  <1>6. QED
    BY <1>4, <1>5, Zenon DEF page0, p, obs, error

(* Structured data stands in for everything only if no variant is asked for, *)
(* and then its price is the right one.                                      *)
LEMMA JsonLdIsEnough ==
    ASSUME monitor \in Monitors, Fields \subseteq JsonLdFields
    PROVE  Requested = {} /\ \A base \in BasePrices : Total(base, Wanted) = base
  <1>1. "sku" \in JsonLdFields
    BY Zenon DEF Fields
  <1>2. Requested = {}
    <2>1. CASE monitor.mode = "scripted"
      BY <1>1, <2>1, SMT DEF JsonLdFields
    <2>2. CASE monitor.mode = "live" /\ Requested # {}
      <3>1. JsonLdFields = {"title", "currency"}
        BY <2>2, SMT DEF JsonLdFields
      <3>2. QED
        BY <1>1, <3>1, SMT
    <2>3. CASE monitor.mode # "scripted" /\ ~(monitor.mode = "live" /\ Requested # {})
      <3>1. monitor.mode \in {"scripted", "live"}
        BY SMT DEF Monitors
      <3>2. QED
        BY <2>3, <3>1, Zenon
    <2>4. QED
      BY <2>1, <2>2, <2>3
  <1>3. Wanted = [a \in Attributes |-> Preselected[a]]
    BY <1>2, Zenon DEF Wanted
  <1>4. Wanted.color = "black" /\ Wanted.capacity = "1tb"
    BY <1>3, SMT DEF Attributes, Preselected
  <1>5. \A base \in BasePrices : base \in Nat
    BY StorefrontAssumption, SMT DEF BasePrices
  <1> HIDE DEF BasePrices
  <1>6. QED
    BY <1>2, <1>4, <1>5, SMT DEF Total

LEMMA StoreFields ==
    ASSUME NEW s \in Stores
    PROVE  s.base \in BasePrices /\ s.version \in {1, 2} /\ s.inStock \in BOOLEAN
           /\ s.item \in {"atlas", "other"}
  BY SMT DEF Stores

(* The price that a replay reads when the variant is selected.              *)
LEMMA PriceOfVariant ==
    ASSUME style \in Styles, monitor \in Monitors, NEW s \in Stores, NEW pl, DOMAIN pl.steps = Requested,
           pl.price = "price", StepsRight(pl), Readable(pl, s.version)
    PROVE  LET obs == Reads(Prepared(productPage(s), pl.steps), pl) IN
           /\ obs.price \in {Refused, Total(s.base, Wanted)}
           /\ style.note = "none" => obs.price = Total(s.base, Wanted)
  <1> DEFINE p == Prepared(productPage(s), pl.steps)
             obs == Reads(p, pl)
  <1>1. p.version = s.version /\ p.base = s.base /\ p.selected = Chosen(pl)
    BY PreparedPage, Zenon
  <1>2. s.base \in BasePrices
    BY StoreFields, Zenon
  <1>3. p.selected = Wanted
    BY <1>1, ChosenIsWanted, Zenon
  <1>4. obs.price = parsePrice(ReadsFrom(p, pl))
    <2>1. IsReading(obs, p, pl)
      BY Reports, Zenon
    <2>2. QED
      BY <2>1 DEF IsReading
  <1> HIDE DEF p, obs
  <1>5. CASE pl.layout = s.version
    <2>1. ReadsFrom(p, pl) = PriceNode(p)
      BY <1>1, <1>5, Zenon DEF ReadsFrom
    <2>2. QED
      BY <1>1, <1>2, <1>3, <1>4, <2>1, PricesRead, Zenon DEF p, obs
  <1>6. CASE pl.layout # s.version
    <2>1. ReadsFrom(p, pl) = JsonLdPrice(p)
      BY <1>1, <1>6, Zenon DEF ReadsFrom
    <2>2. Fields \subseteq JsonLdFields
      BY <1>6, Zenon DEF Readable
    <2>3. Total(s.base, Wanted) = s.base
      BY <1>2, <2>2, JsonLdIsEnough, Zenon
    <2>4. QED
      BY <1>1, <1>2, <1>4, <2>1, <2>3, PricesRead, Zenon DEF p, obs
  <1>7. QED
    BY <1>5, <1>6

(* A replay that succeeds reports the price, the stock and the product of   *)
(* the page.                                                                 *)
LEMMA ReplayIsGenuine ==
    ASSUME style \in Styles, monitor \in Monitors, NEW s \in Stores, NEW pl, IsPlan(pl), Tells(pl),
           NEW done, done = executeAndVerify(productPage(s), pl), done.error = "none"
    PROVE  Genuine(done.obs, s) /\ done.obs.item = pl.item
  <1> DEFINE p == Prepared(productPage(s), pl.steps)
             obs == Reads(p, pl)
             error == validateObservation(obs, pl)
  <1>1. DOMAIN pl.steps = Requested
    BY Zenon DEF IsPlan
  <1>2. Readable(pl, s.version) /\ obs.price # Refused /\ done = [obs |-> obs, error |-> error]
    <2>1. "none" # "stale" /\ "none" # "ambiguous_value"
      OBVIOUS
    <2>2. QED
      BY <1>1, <2>1, Replays, Zenon
  <1>3. p.inStock = s.inStock /\ p.item = s.item /\ p.selected = Chosen(pl)
    BY <1>1, PreparedPage, Zenon
  <1>4. /\ obs.item = p.item /\ obs.inStock = p.inStock
        /\ obs.chosen = [a \in Requested |->
                            IF pl.labels = "label" THEN p.selected[a] ELSE variant[a]]
    <2>1. IsReading(obs, p, pl)
      BY Reports, Zenon
    <2> HIDE DEF p, obs
    <2>2. QED
      BY <2>1, Zenon DEF IsReading
  <1> HIDE DEF p, obs, error
  <1>5. done.obs = obs /\ error = "none"
    BY <1>2, SMT
  <1>6. obs.item = pl.item /\ \A a \in Requested : obs.chosen[a] = variant[a]
    BY <1>5, Validates, Zenon DEF error
  <1>7. StepsRight(pl)
    <2>1. CASE pl.labels = "label"
      <3>1. \A a \in Requested : Chosen(pl)[a] = pl.steps[a].value
        BY RequestedAttributes, Zenon DEF Chosen, Attributes
      <3>2. \A a \in Requested : obs.chosen[a] = Chosen(pl)[a]
        BY <1>3, <1>4, <2>1, Zenon
      <3>3. QED
        BY <1>6, <3>1, <3>2, Zenon DEF StepsRight
    <2>2. QED
      BY <2>1, Zenon DEF Tells
  <1>8. obs.price = Total(s.base, Wanted)
    BY <1>1, <1>2, <1>7, PriceOfVariant, Zenon DEF Tells, p, obs
  <1>9. QED
    BY <1>3, <1>4, <1>5, <1>6, <1>8, Zenon DEF Genuine

(* On a page that it fits the plan that was asked for succeeds; on another  *)
(* layout it is stale.                                                       *)
LEMMA QuietReplay ==
    ASSUME style \in Styles, monitor \in Monitors, NEW s \in Stores, NEW pl, IsPlan(pl), Asked(pl),
           Offered, monitor.currency = "USD", style.note = "none", pl.item = s.item,
           \A a \in Requested : pl.steps[a].version = s.version,
           NEW done, done = executeAndVerify(productPage(s), pl)
    PROVE  /\ Readable(pl, s.version) => done.error = "none" /\ done.obs = Report(s)
           /\ ~Readable(pl, s.version) => done.error = "stale"
  <1> DEFINE p == Prepared(productPage(s), pl.steps)
             obs == Reads(p, pl)
             error == validateObservation(obs, pl)
  <1>1. DOMAIN pl.steps = Requested
    BY Zenon DEF IsPlan
  <1>2. \A a \in Requested : Clickable(productPage(s), pl.steps[a], a)
    <2>1. productPage(s).version = s.version
      BY SMT DEF productPage
    <2>2. QED
      BY <2>1, Zenon DEF Clickable, Asked, StepsRight, Offered
  <1>3. /\ ~Readable(pl, s.version) => done.error = "stale"
        /\ Readable(pl, s.version) /\ obs.price # Refused => done = [obs |-> obs, error |-> error]
    BY <1>1, <1>2, Replays, Zenon
  <1>4. p.inStock = s.inStock /\ p.item = s.item /\ p.selected = Chosen(pl)
    BY <1>1, PreparedPage, Zenon
  <1>5. /\ obs.item = p.item /\ obs.inStock = p.inStock /\ obs.currency = "USD"
        /\ obs.chosen = [a \in Requested |->
                            IF pl.labels = "label" THEN p.selected[a] ELSE variant[a]]
        /\ obs = [item |-> obs.item, price |-> obs.price, currency |-> obs.currency,
                  inStock |-> obs.inStock, chosen |-> obs.chosen]
    <2>1. IsReading(obs, p, pl)
      BY Reports, Zenon
    <2> HIDE DEF p, obs
    <2>2. QED
      BY <2>1, Zenon DEF IsReading
  <1>6. ASSUME Readable(pl, s.version)
        PROVE  obs.price = Total(s.base, Wanted) /\ obs.price # Refused
    <2>1. obs.price = Total(s.base, Wanted)
      BY <1>1, <1>6, PriceOfVariant, Zenon DEF Asked
    <2>2. QED
      BY <2>1, StoreFields, TotalIsAmount, Zenon
  <1> HIDE DEF p, obs, error
  <1>7. obs.chosen = [a \in Requested |-> variant[a]]
    <2>1. \A a \in Requested : p.selected[a] = pl.steps[a].value
      BY <1>4, RequestedAttributes, Zenon DEF Chosen, Attributes
    <2>2. \A a \in Requested : p.selected[a] = variant[a]
      BY <2>1, Zenon DEF Asked, StepsRight
    <2>3. QED
      BY <1>5, <2>2, Zenon DEF Asked
  <1>8. error = "none"
    <2>1. \A a \in Requested : obs.chosen[a] = variant[a]
      BY <1>7, Zenon
    <2>2. obs.currency = monitor.currency /\ obs.item = pl.item
      BY <1>4, <1>5
    <2>3. QED
      BY <2>1, <2>2, Validates, Zenon DEF error
  <1>9. ASSUME Readable(pl, s.version)
        PROVE  obs = Report(s)
    <2>1. obs.price = Total(s.base, Wanted)
      BY <1>6, <1>9
    <2>2. QED
      BY <1>4, <1>5, <1>7, <2>1, Zenon DEF Report
  <1>10. QED
    BY <1>3, <1>6, <1>8, <1>9, SMT

(* A replay that succeeds shows which layout the plan works on.             *)
LEMMA ReplayFits ==
    ASSUME NEW s, NEW pl, IsPlan(pl),
           NEW done, done = executeAndVerify(productPage(s), pl), done.error = "none"
    PROVE  Fits(pl, s.version)
  <1>1. DOMAIN pl.steps = Requested /\ "none" # "stale"
    BY Zenon DEF IsPlan
  <1>2. \A a \in Requested : Clickable(productPage(s), pl.steps[a], a)
    BY <1>1, Replays, Zenon
  <1>3. Readable(pl, s.version)
    BY <1>1, <1>2, Replays, Zenon
  <1>4. productPage(s).version = s.version
    BY SMT DEF productPage
  <1>5. QED
    BY <1>2, <1>3, <1>4, Zenon DEF Fits, Clickable

-------------------------------------------------------------------------------
(* The steps of a job.  What the request and the style make true stays so,  *)
(* and what a plan or a report promises is not lost by later wrong answers. *)

Fixed == monitor' = monitor /\ style' = style /\ wrongs' \in Nat /\ wrongs' >= wrongs

LEMMA RequestKept ==
    ASSUME monitor' = monitor
    PROVE  /\ variant' = variant /\ Requested' = Requested /\ Wanted' = Wanted
           /\ Offered' = Offered /\ JsonLdFields' = JsonLdFields
           /\ \A pl : IsPlan(pl)' <=> IsPlan(pl)
           /\ \A pl : StepsRight(pl)' <=> StepsRight(pl)
           /\ \A pl, v : Fits(pl, v)' <=> Fits(pl, v)
           /\ \A s : Report(s)' = Report(s)
           /\ \A obs, s : Genuine(obs, s)' <=> Genuine(obs, s)
  <1>1. variant' = variant /\ Requested' = Requested
    BY Zenon DEF variant, Requested
  <1>2. Wanted' = Wanted /\ Offered' = Offered
    BY <1>1, Zenon DEF Wanted, Offered
  <1>3. JsonLdFields' = JsonLdFields
    BY <1>1, Zenon DEF JsonLdFields
  <1>4. \A pl : IsPlan(pl)' <=> IsPlan(pl)
    BY <1>1, Zenon DEF IsPlan
  <1>5. \A pl : StepsRight(pl)' <=> StepsRight(pl)
    BY <1>1, Zenon DEF StepsRight
  <1>6. \A pl, v : Fits(pl, v)' <=> Fits(pl, v)
    BY <1>1, <1>3, Zenon DEF Fits, Readable
  <1>7. (\A s : Report(s)' = Report(s)) /\ \A obs, s : Genuine(obs, s)' <=> Genuine(obs, s)
    BY <1>1, <1>2, Zenon DEF Report, Genuine
  <1>8. QED
    BY <1>1, <1>2, <1>3, <1>4, <1>5, <1>6, <1>7

LEMMA PromisesKept ==
    ASSUME Fixed, wrongs \in Nat
    PROVE  /\ Truthful' => Truthful
           /\ Quiet' => Quiet
           /\ \A pl : PlanGood(pl) => PlanGood(pl)'
           /\ \A pl, obs, s : Good(pl, obs, s) => Good(pl, obs, s)'
  <1>1. Truthful' => Truthful
    BY SMT DEF Fixed, Truthful
  <1>2. Quiet' => Quiet
    <2>1. wrongs' = 0 => wrongs = 0
      BY SMT DEF Fixed
    <2>2. QED
      BY <2>1, RequestKept, Zenon DEF Fixed, Quiet
  <1>3. \A pl : PlanRight(pl) => PlanRight(pl)'
    <2>1. wrongs >= 1 => wrongs' >= 1
      BY SMT DEF Fixed
    <2>2. QED
      BY <2>1, RequestKept, Zenon DEF Fixed, PlanRight, Tells
  <1>4. \A pl : Asked(pl) => Asked(pl)'
    BY RequestKept, Zenon DEF Fixed, Asked
  <1>5. \A pl : PlanGood(pl) => PlanGood(pl)'
    BY <1>1, <1>2, <1>3, <1>4, Zenon DEF PlanGood
  <1>6. \A pl, obs, s : Good(pl, obs, s) => Good(pl, obs, s)'
    BY <1>1, <1>2, <1>5, RequestKept, Zenon DEF Fixed, Good
  <1>7. QED
    BY <1>1, <1>2, <1>5, <1>6

LEMMA FailsJob ==
    ASSUME JobOK, NEW error, Fails(error)
    PROVE  /\ DOMAIN job' = DOMAIN job /\ job'.kind = job.kind /\ job'.phase = "done"
           /\ job'.status # "succeeded" /\ plan' = plan /\ origin' = origin /\ page' = page
  BY SMT DEF JobOK, Fails

LEMMA MovesOnJob ==
    ASSUME JobOK, NEW phase, NEW pl, NEW obs, MovesOn(phase, pl, obs)
    PROVE  /\ DOMAIN job' = DOMAIN job /\ job'.kind = job.kind /\ job'.phase = phase
           /\ job'.plan = pl /\ job'.obs = obs
           /\ plan' = plan /\ origin' = origin /\ page' = NoPage
  BY SMT DEF JobOK, MovesOn

LEMMA SucceedsJob ==
    ASSUME JobOK, NEW pl, NEW obs, Succeeds(pl, obs), NEW s \in Stores, store \in Stores,
           page = productPage(s)
    PROVE  /\ DOMAIN job' = DOMAIN job /\ job'.kind = job.kind /\ job'.phase = "done"
           /\ job'.status = "succeeded" /\ job'.plan = pl /\ job'.obs = obs /\ page' = page
           /\ job.kind = "check" => plan' = plan /\ origin' = origin
           /\ job.kind # "check" => plan' = pl /\ origin' = s
  <1>1. /\ DOMAIN job' = DOMAIN job /\ job'.kind = job.kind /\ job'.phase = "done"
        /\ job'.status = "succeeded" /\ job'.plan = pl /\ job'.obs = obs /\ page' = page
    BY SMT DEF JobOK, Succeeds
  <1>2. [f \in DOMAIN store |-> page[f]] = s
    <2>1. DOMAIN store = {"version", "base", "inStock", "item"}
      BY SMT DEF Stores
    <2>2. /\ s = [version |-> s.version, base |-> s.base, inStock |-> s.inStock, item |-> s.item]
          /\ page.version = s.version /\ page.base = s.base /\ page.inStock = s.inStock
          /\ page.item = s.item
      BY SMT DEF Stores, productPage
    <2>3. [f \in DOMAIN store |-> page[f]]
            = [version |-> page.version, base |-> page.base, inStock |-> page.inStock, item |-> page.item]
      BY <2>1, SMT
    <2>4. QED
      BY <2>2, <2>3
  <1>3. QED
    BY <1>1, <1>2, Zenon DEF Succeeds

(* Why a job may fail on the page of s. *)
Excused(s) ==
    \/ Cardinality(loads) > 1 \/ ~Quiet
    \/ plan # NoPlan /\ s.item # plan.item
    \/ job.kind = "check" /\ s.version # origin.version

(* What a step of a job comes to that has the page of s in its browser: a   *)
(* failure that has an excuse, a further replay of a plan that has stood    *)
(* one, a compile instead of a repair, or a result.                         *)
FailsOutcome(s) == (\E error : Fails(error)) /\ Excused(s)'

ReplaysAgain(phase) ==
    \E pl, obs : MovesOn(phase, pl, obs) /\ \E t \in loads : Good(pl, obs, t)'

CompilesAnew == job.kind = "repair" /\ \E pl, obs : MovesOn("compile", pl, obs)

Checked(s) ==
    /\ job.kind = "check"
    /\ \E obs : Succeeds(plan, obs) /\ (Truthful => Genuine(obs, s) /\ obs.item = plan.item)

Adopted(s) ==
    /\ job.kind # "check"
    /\ \E pl, obs :
          /\ Succeeds(pl, obs) /\ Fits(pl, s.version)
          /\ \E t \in loads : Good(pl, obs, t)
          /\ Truthful /\ job.kind = "repair" => Genuine(obs, s)

Outcome(s) ==
    /\ Fixed /\ store' = store /\ loads' = loads
    /\ \/ FailsOutcome(s)
       \/ job.kind # "check" /\ ReplaysAgain("verify")
       \/ job.kind = "repair" /\ ReplaysAgain("fresh")
       \/ CompilesAnew
       \/ Checked(s) \/ Adopted(s)

(* What an outcome leaves as it was. *)
LEMMA ShopKept ==
    ASSUME ShopOK, monitor' = monitor, style' = style, store' = store, loads' = loads,
           origin' \in Stores, page' \in {page, NoPage}
    PROVE  ShopOK'
  BY SMT DEF ShopOK

LEMMA PlanKept ==
    ASSUME ReplayInv, Fixed, plan' = plan, origin' = origin
    PROVE  /\ plan' = NoPlan \/ IsPlan(plan)'
           /\ (plan # NoPlan => PlanGood(plan) /\ (Quiet => Fits(plan, origin.version)))'
  <1>1. ShapeInv /\ wrongs \in Nat /\ monitor' = monitor
    BY DEF ReplayInv, ShapeInv, Fixed
  <1>2. /\ plan = NoPlan \/ IsPlan(plan)
        /\ plan # NoPlan => PlanGood(plan) /\ (Quiet => Fits(plan, origin.version))
    BY <1>1, Zenon DEF ReplayInv, ShapeInv
  <1>3. PICK pl : pl = plan
    OBVIOUS
  <1>4. PICK v : v = origin.version
    OBVIOUS
  <1>5. PlanGood(pl) => PlanGood(pl)'
    BY <1>1, PromisesKept, Zenon
  <1>6. (IsPlan(pl)' <=> IsPlan(pl)) /\ (Fits(pl, v)' <=> Fits(pl, v)) /\ (Quiet' => Quiet)
    BY <1>1, PromisesKept, RequestKept, Zenon
  <1>7. plan' = pl /\ (origin.version)' = v
    BY <1>3, <1>4
  <1>8. PlanGood(plan) => PlanGood(plan)'
    BY <1>3, <1>5, <1>7, Zenon
  <1>9. IsPlan(plan)' <=> IsPlan(plan)
    BY <1>3, <1>6, <1>7, Zenon
  <1>10. Fits(plan, origin.version)' <=> Fits(plan, origin.version)
    BY <1>3, <1>4, <1>6, <1>7, Zenon
  <1>11. QED
    BY <1>2, <1>6, <1>8, <1>9, <1>10, Zenon

LEMMA FailureKeeps ==
    ASSUME ReplayInv, NEW s \in loads, page = productPage(s), Fixed, store' = store,
           loads' = loads, FailsOutcome(s)
    PROVE  ReplayInv'
  <1>1. ShopOK /\ JobOK /\ wrongs \in Nat /\ s \in Stores
    BY DEF ReplayInv, ShapeInv, ShopOK
  <1>2. PICK error : Fails(error)
    BY DEF FailsOutcome
  <1>3. /\ DOMAIN job' = DOMAIN job /\ job'.kind = job.kind /\ job'.phase = "done"
        /\ job'.status # "succeeded" /\ plan' = plan /\ origin' = origin /\ page' = page
    BY <1>1, <1>2, FailsJob, Zenon
  <1>4. ShopOK'
    BY <1>1, <1>3, ShopKept, SMT DEF Fixed, ShopOK
  <1>5. JobOK'
    BY <1>1, <1>3, SMT DEF JobOK
  <1>6. /\ plan' = NoPlan \/ IsPlan(plan)'
        /\ (plan # NoPlan => PlanGood(plan) /\ (Quiet => Fits(plan, origin.version)))'
    BY <1>3, PlanKept, Zenon
  <1>7. ObservationIsGenuine' /\ RepairIsReproduced'
    BY <1>3, Zenon DEF ObservationIsGenuine, RepairIsReproduced
  <1>8. QuietShopSucceeds'
    <2>1. page'.item = s.item /\ page'.version = s.version
      BY <1>3, SMT DEF productPage
    <2>2. CASE wrongs' = 0
      BY <1>3, <2>1, <2>2, Zenon DEF FailsOutcome, Excused, Quiet, QuietShopSucceeds
    <2>3. CASE wrongs' # 0
      <3>1. wrongs' > 0
        BY <2>3, SMT DEF Fixed
      <3>2. QED
        BY <3>1, Zenon DEF QuietShopSucceeds
    <2>4. QED
      BY <2>2, <2>3
  <1>9. QED
    <2>1. job'.phase \notin {"verify", "fresh"} /\ wrongs' \in Nat
      BY <1>3 DEF Fixed
    <2>2. QED
      BY <1>4, <1>5, <1>6, <1>7, <1>8, <2>1, Zenon DEF ReplayInv, ShapeInv

LEMMA MoveKeeps ==
    ASSUME ReplayInv, Fixed, store' = store, loads' = loads,
           \/ job.kind # "check" /\ ReplaysAgain("verify")
           \/ job.kind = "repair" /\ ReplaysAgain("fresh")
           \/ CompilesAnew
    PROVE  ReplayInv'
  <1>1. ShopOK /\ JobOK /\ wrongs \in Nat
    BY DEF ReplayInv, ShapeInv
  <1>2. PICK phase, pl, obs :
            /\ MovesOn(phase, pl, obs) /\ phase \in {"verify", "fresh", "compile"}
            /\ job.kind # "check" /\ (phase = "fresh" => job.kind = "repair")
            /\ phase \in {"verify", "fresh"} => \E t \in loads : Good(pl, obs, t)'
    <2>1. CASE job.kind # "check" /\ ReplaysAgain("verify")
      <3>1. "verify" # "fresh"
        OBVIOUS
      <3>2. QED
        BY <2>1, <3>1, Zenon DEF ReplaysAgain
    <2>2. CASE job.kind = "repair" /\ ReplaysAgain("fresh")
      <3>1. "repair" # "check"
        OBVIOUS
      <3>2. QED
        BY <2>2, <3>1, Zenon DEF ReplaysAgain
    <2>3. CASE CompilesAnew
      <3>1. "repair" # "check" /\ "compile" \notin {"verify", "fresh"}
        OBVIOUS
      <3>2. QED
        BY <2>3, <3>1, Zenon DEF CompilesAnew
    <2>4. QED
      BY <2>1, <2>2, <2>3
  <1>3. /\ DOMAIN job' = DOMAIN job /\ job'.kind = job.kind /\ job'.phase = phase
        /\ job'.plan = pl /\ job'.obs = obs
        /\ plan' = plan /\ origin' = origin /\ page' = NoPage
    BY <1>1, <1>2, MovesOnJob, Zenon
  <1>4. ShopOK'
    BY <1>1, <1>3, ShopKept, SMT DEF Fixed, ShopOK
  <1>5. job'.phase \in {"verify", "fresh"} =>
            IsPlan(job.plan)' /\ (\E t \in loads : Good(job.plan, job.obs, t))'
    <2>1. \A t : Good(pl, obs, t)' => IsPlan(pl)'
      BY Zenon DEF Good
    <2>2. QED
      BY <1>2, <1>3, <2>1, Zenon
  <1>6. JobOK'
    BY <1>1, <1>2, <1>3, <1>5, SMT DEF JobOK
  <1>7. /\ plan' = NoPlan \/ IsPlan(plan)'
        /\ (plan # NoPlan => PlanGood(plan) /\ (Quiet => Fits(plan, origin.version)))'
    BY <1>3, PlanKept, Zenon
  <1>8. ObservationIsGenuine' /\ RepairIsReproduced' /\ QuietShopSucceeds'
    <2>1. job'.phase # "done"
      BY <1>2, <1>3
    <2>2. QED
      BY <2>1, Zenon DEF ObservationIsGenuine, RepairIsReproduced, QuietShopSucceeds
  <1>9. QED
    <2>1. wrongs' \in Nat
      BY DEF Fixed
    <2>2. QED
      BY <1>4, <1>5, <1>6, <1>7, <1>8, <2>1, Zenon DEF ReplayInv, ShapeInv

LEMMA SuccessKeeps ==
    ASSUME ReplayInv, NEW s \in loads, page = productPage(s), Fixed, store' = store,
           loads' = loads, Checked(s) \/ Adopted(s)
    PROVE  ReplayInv'
  <1>1. ShopOK /\ JobOK /\ wrongs \in Nat /\ s \in Stores /\ store \in Stores
    BY DEF ReplayInv, ShapeInv, ShopOK
  <1>2. PICK pl, obs :
            /\ Succeeds(pl, obs)
            /\ \/ /\ job.kind = "check" /\ pl = plan
                  /\ Truthful => Genuine(obs, s) /\ obs.item = pl.item
               \/ /\ job.kind # "check" /\ Fits(pl, s.version)
                  /\ \E t \in loads : Good(pl, obs, t)
                  /\ Truthful /\ job.kind = "repair" => Genuine(obs, s)
    BY Zenon DEF Checked, Adopted
  <1>3. /\ DOMAIN job' = DOMAIN job /\ job'.kind = job.kind /\ job'.phase = "done"
        /\ job'.status = "succeeded" /\ job'.plan = pl /\ job'.obs = obs /\ page' = page
        /\ job.kind = "check" => plan' = plan /\ origin' = origin
        /\ job.kind # "check" => plan' = pl /\ origin' = s
    BY <1>1, <1>2, SucceedsJob, Zenon
  <1>4. ShopOK'
    <2>1. origin' \in Stores
      BY <1>1, <1>3, Zenon DEF ShopOK
    <2>2. QED
      BY <1>1, <1>3, <2>1, ShopKept, SMT DEF Fixed
  <1>5. JobOK'
    BY <1>1, <1>3, SMT DEF JobOK
  <1>6. QuietShopSucceeds'
    BY <1>3, Zenon DEF QuietShopSucceeds
  <1>7. Truthful' => Truthful
    BY <1>1, PromisesKept, Zenon
  <1>8. ASSUME NEW t \in loads, Genuine(obs, t), obs.item = pl.item
        PROVE  ObservationIsGenuine'
    <2>1. Genuine(obs, t)'
      BY <1>8, RequestKept, Zenon DEF Fixed
    <2>2. QED
      BY <1>3, <1>8, <2>1, Zenon DEF Genuine, ObservationIsGenuine
  <1>9. CASE job.kind = "check"
    <2>1. /\ plan' = NoPlan \/ IsPlan(plan)'
          /\ (plan # NoPlan => PlanGood(plan) /\ (Quiet => Fits(plan, origin.version)))'
      BY <1>3, <1>9, PlanKept, Zenon
    <2>2. Truthful' => ObservationIsGenuine'
      BY <1>2, <1>7, <1>8, <1>9, Zenon
    <2>3. RepairIsReproduced'
      <3>1. "check" # "repair"
        OBVIOUS
      <3>2. QED
        BY <1>3, <1>9, <3>1, Zenon DEF RepairIsReproduced
    <2>4. job'.phase \notin {"verify", "fresh"} /\ wrongs' \in Nat
      BY <1>3 DEF Fixed
    <2>5. QED
      BY <1>4, <1>5, <1>6, <2>1, <2>2, <2>3, <2>4, Zenon DEF ReplayInv, ShapeInv
  <1>10. CASE job.kind # "check"
    <2>1. PICK t \in loads : Good(pl, obs, t)
      BY <1>2, <1>10, Zenon
    <2>2. Good(pl, obs, t)'
      BY <1>1, <2>1, PromisesKept, Zenon
    <2>3. Fits(pl, s.version)'
      BY <1>2, <1>10, RequestKept, Zenon DEF Fixed
    <2>4. /\ plan' = NoPlan \/ IsPlan(plan)'
          /\ (plan # NoPlan => PlanGood(plan) /\ (Quiet => Fits(plan, origin.version)))'
      <3>1. plan' = pl /\ (origin.version)' = s.version
        BY <1>3, <1>10
      <3>2. IsPlan(pl)' /\ PlanGood(pl)'
        BY <2>2, Zenon DEF Good
      <3>3. QED
        BY <2>3, <3>1, <3>2, Zenon
    <2>5. Truthful' => ObservationIsGenuine'
      BY <1>7, <1>8, <2>1, Zenon DEF Good
    <2>6. Truthful' => RepairIsReproduced'
      <3>1. ASSUME Truthful, job.kind = "repair"
            PROVE  RepairIsReproduced'
        <4>1. Genuine(obs, s)
          BY <1>2, <1>10, <3>1, Zenon
        <4>2. Genuine(obs, s)'
          BY <4>1, RequestKept, Zenon DEF Fixed
        <4>3. QED
          BY <1>3, <1>10, <4>2, Zenon DEF Genuine, RepairIsReproduced
      <3>2. job.kind # "repair" => RepairIsReproduced'
        BY <1>3, Zenon DEF RepairIsReproduced
      <3>3. QED
        BY <1>7, <3>1, <3>2, Zenon
    <2>7. job'.phase \notin {"verify", "fresh"} /\ wrongs' \in Nat
      BY <1>3 DEF Fixed
    <2>8. QED
      BY <1>4, <1>5, <1>6, <2>4, <2>5, <2>6, <2>7, Zenon DEF ReplayInv, ShapeInv
  <1>11. QED
    BY <1>9, <1>10

LEMMA OutcomeKeeps ==
    ASSUME ReplayInv, NEW s \in loads, page = productPage(s), Outcome(s)
    PROVE  ReplayInv'
  BY FailureKeeps, MoveKeeps, SuccessKeeps, Zenon DEF Outcome

-------------------------------------------------------------------------------
(* The actions of a job have these outcomes. *)

LEMMA LoadedPage ==
    ASSUME ReplayInv, NEW phase, Loaded(phase)
    PROVE  \E s \in loads : s \in Stores /\ page = productPage(s)
  BY Zenon DEF ReplayInv, ShapeInv, ShopOK, Loaded

LEMMA OneLoad ==
    ASSUME ShopOK, NEW s \in loads, NEW t \in loads, ~(Cardinality(loads) > 1)
    PROVE  s = t
  <1>1. Cardinality(loads) \in Nat /\ IsFiniteSet(loads)
    BY FS_CardinalityType, Zenon DEF ShopOK
  <1>2. Cardinality(loads) # 0
    BY <1>1, FS_EmptySet, Zenon
  <1>3. Cardinality(loads) = 1
    BY <1>1, <1>2, SMT
  <1>4. PICK x : loads = {x}
    BY <1>1, <1>3, FS_Singleton, Zenon
  <1>5. s = x /\ t = x
    BY <1>4
  <1>6. QED
    BY <1>5

LEMMA WrongAnswers ==
    ASSUME NEW S, IsFiniteSet(S), wrongs \in Nat, Wrong(S)
    PROVE  /\ wrongs' \in Nat /\ wrongs' >= wrongs
           /\ wrongs' = 0 => S = {}
           /\ S # {} => wrongs' >= 1
           /\ wrongs' <= 1 => \A x, y \in S : x = y
           /\ wrongs' <= 1 /\ wrongs >= 1 => S = {}
  <1>1. Cardinality(S) \in Nat /\ wrongs' = wrongs + Cardinality(S)
    BY FS_CardinalityType, Zenon DEF Wrong
  <1>2. Cardinality(S) = 0 <=> S = {}
    BY FS_EmptySet, Zenon
  <1>3. Cardinality(S) = 1 <=> \E x : S = {x}
    BY FS_Singleton, Zenon
  <1>4. wrongs' <= 1 => Cardinality(S) = 0 \/ Cardinality(S) = 1
    BY <1>1, SMT
  <1>5. wrongs' <= 1 => \A x, y \in S : x = y
    BY <1>2, <1>3, <1>4, Zenon
  <1>6. /\ wrongs' \in Nat /\ wrongs' >= wrongs
        /\ wrongs' = 0 => Cardinality(S) = 0
        /\ Cardinality(S) # 0 => wrongs' >= 1
        /\ wrongs' <= 1 /\ wrongs >= 1 => Cardinality(S) = 0
    BY <1>1, SMT
  <1>7. QED
    BY <1>2, <1>5, <1>6

(* A plan without false reports that stands a replay. *)
LEMMA ReplayIsGood ==
    ASSUME ShopOK, Fixed, wrongs \in Nat, NEW s \in Stores, NEW pl, IsPlan(pl), PlanGood(pl)',
           NEW done, done = executeAndVerify(productPage(s), pl), done.error = "none"
    PROVE  Good(pl, done.obs, s)'
  <1>1. style \in Styles /\ monitor \in Monitors /\ monitor' = monitor /\ style' = style
    BY DEF ShopOK, Fixed
  <1>2. Fits(pl, s.version)
    BY ReplayFits, Zenon
  <1>3. Tells(pl) => Genuine(done.obs, s) /\ done.obs.item = pl.item
    BY <1>1, ReplayIsGenuine, Zenon
  <1>4. Truthful' => Tells(pl)
    BY <1>1, RequestKept, Zenon DEF PlanGood, PlanRight, Tells
  <1>5. Quiet' => Asked(pl) /\ Offered /\ monitor.currency = "USD" /\ style.note = "none"
    BY <1>1, RequestKept, Zenon DEF PlanGood, Asked, Quiet
  <1>6. Asked(pl) => Tells(pl)
    BY Zenon DEF Asked, Tells
  <1>7. Quiet' => pl.item = s.item /\ done.obs = Report(s)
    <2>1. Quiet' => pl.item = s.item
      BY <1>3, <1>5, <1>6, Zenon DEF Genuine
    <2>2. QED
      BY <1>1, <1>2, <1>5, <2>1, QuietReplay, Zenon DEF Fits
  <1>8. QED
    BY <1>1, <1>2, <1>3, <1>4, <1>7, RequestKept, Zenon DEF Good

LEMMA ExcuseKept ==
    ASSUME Fixed, wrongs \in Nat, JobOK, loads' = loads, NEW error, Fails(error), NEW s,
           Quiet' /\ ~(Cardinality(loads) > 1) => Excused(s)
    PROVE  FailsOutcome(s)
  <1>1. plan' = plan /\ origin' = origin /\ job'.kind = job.kind
    BY FailsJob, Zenon
  <1>2. Quiet' => Quiet
    BY PromisesKept, Zenon
  <1>3. Excused(s)'
    BY <1>1, <1>2, Zenon DEF Excused
  <1>4. QED
    BY <1>3 DEF FailsOutcome

LEMMA CheckOutcome ==
    ASSUME ReplayInv, Check
    PROVE  \E s \in loads : page = productPage(s) /\ Outcome(s)
  <1>1. PICK s \in loads : s \in Stores /\ page = productPage(s)
    BY LoadedPage, Zenon DEF Check
  <1>2. PICK pl : pl = plan
    OBVIOUS
  <1>3. PICK done : done = executeAndVerify(page, pl)
    OBVIOUS
  <1>4. /\ UNCHANGED <<shop, monitor, loads, wrongs>>
        /\ done.error = "none" => Succeeds(pl, done.obs)
        /\ done.error # "none" => Fails(done.error)
    BY <1>2, <1>3, Zenon DEF Check
  <1>5. ShopOK /\ JobOK /\ wrongs \in Nat /\ job.phase = "check" /\ style \in Styles /\ monitor \in Monitors
    BY DEF Check, Loaded, ReplayInv, ShapeInv, ShopOK
  <1>6. Fixed /\ store' = store /\ loads' = loads
    BY <1>4, <1>5, SMT DEF Fixed, shop
  <1>7. /\ IsPlan(pl) /\ PlanGood(pl) /\ (Quiet => Fits(pl, origin.version)) /\ pl # NoPlan
        /\ job.kind = "check"
    <2>1. plan # NoPlan /\ job.kind = "check"
      BY <1>5, SMT DEF JobOK
    <2>2. QED
      BY <1>2, <2>1, Zenon DEF ReplayInv, ShapeInv
  <1>8. CASE done.error = "none"
    <2>1. Truthful => Genuine(done.obs, s) /\ done.obs.item = pl.item
      BY <1>1, <1>3, <1>5, <1>7, <1>8, ReplayIsGenuine, Zenon DEF PlanGood, PlanRight
    <2>2. Checked(s)
      BY <1>2, <1>4, <1>7, <1>8, <2>1, Zenon DEF Checked
    <2>3. QED
      BY <1>1, <1>6, <2>2, Zenon DEF Outcome
  <1>9. CASE done.error # "none"
    <2>1. ASSUME Quiet, s.item = pl.item, s.version = origin.version
          PROVE  FALSE
      BY <1>1, <1>3, <1>5, <1>7, <1>9, <2>1, QuietReplay, Zenon DEF PlanGood, Quiet, Fits
    <2>2. Excused(s)
      BY <1>2, <1>7, <2>1, Zenon DEF Excused
    <2>3. FailsOutcome(s)
      BY <1>4, <1>5, <1>6, <1>9, <2>2, ExcuseKept, Zenon
    <2>4. QED
      BY <1>1, <1>6, <2>3, Zenon DEF Outcome
  <1>10. QED
    BY <1>8, <1>9

LEMMA CompileFixtureOutcome ==
    ASSUME ReplayInv, compileFixture
    PROVE  \E s \in loads : page = productPage(s) /\ Outcome(s)
  <1>1. PICK s \in loads : s \in Stores /\ page = productPage(s)
    BY LoadedPage, Zenon DEF compileFixture
  <1> DEFINE made == [layout |-> page.version,
                   steps |-> [a \in Requested |-> [version |-> page.version, value |-> variant[a]]],
                   price |-> "price", labels |-> "label", item |-> "atlas"]
  <1>2. PICK pl : pl = made
    OBVIOUS
  <1>3. PICK done : done = executeAndVerify(page, pl)
    OBVIOUS
  <1>4. /\ UNCHANGED <<shop, monitor, loads, wrongs>>
        /\ done.error = "none" => MovesOn("verify", pl, done.obs)
        /\ done.error # "none" => Fails(done.error)
    BY <1>2, <1>3, Zenon DEF compileFixture
  <1>5. /\ ShopOK /\ JobOK /\ wrongs \in Nat /\ job.phase = "compile" /\ style \in Styles
        /\ monitor \in Monitors /\ monitor.mode = "scripted"
    BY DEF compileFixture, Loaded, ReplayInv, ShapeInv, ShopOK
  <1>6. Fixed /\ store' = store /\ loads' = loads
    BY <1>4, <1>5, SMT DEF Fixed, shop
  <1>7. job.kind # "check"
    BY <1>5, SMT DEF JobOK
  <1>8. /\ DOMAIN pl = {"layout", "steps", "price", "labels", "item"} /\ pl.layout = page.version
        /\ pl.steps = [a \in Requested |-> [version |-> page.version, value |-> variant[a]]]
        /\ pl.price = "price" /\ pl.labels = "label" /\ pl.item = "atlas"
    BY <1>2, SMT
  <1>9. page.version = s.version /\ s.version \in {1, 2} /\ s.item = "atlas"
    <2>1. page.version = s.version
      BY <1>1, SMT DEF productPage
    <2>2. QED
      BY <1>1, <1>5, <2>1, StoreFields, Zenon DEF ShopOK
  <1> HIDE DEF made
  <1>10. \A a \in Requested : pl.steps[a].version = s.version /\ pl.steps[a].value = variant[a]
    BY <1>8, <1>9, SMT
  <1>11. IsPlan(pl) /\ Asked(pl) /\ Readable(pl, s.version)
    BY <1>8, <1>9, <1>10, SMT DEF IsPlan, Asked, StepsRight, Readable
  <1>12. CASE done.error = "none"
    <2>1. PlanGood(pl)
      BY <1>11, Zenon DEF PlanGood, PlanRight, Tells, Asked
    <2>2. PlanGood(pl)'
      BY <1>5, <1>6, <2>1, PromisesKept, Zenon
    <2>3. Good(pl, done.obs, s)'
      BY <1>1, <1>3, <1>5, <1>6, <1>11, <1>12, <2>2, ReplayIsGood, Zenon
    <2>4. ReplaysAgain("verify")
      BY <1>4, <1>12, <2>3, Zenon DEF ReplaysAgain
    <2>5. QED
      BY <1>1, <1>6, <1>7, <2>4, Zenon DEF Outcome
  <1>13. CASE done.error # "none"
    <2>1. ASSUME Quiet
          PROVE  FALSE
      <3>1. pl.item = s.item /\ \A a \in Requested : pl.steps[a].version = s.version
        BY <1>8, <1>9, <1>10
      <3>2. QED
        BY <1>1, <1>3, <1>5, <1>11, <1>13, <2>1, <3>1, QuietReplay, Zenon DEF Quiet
    <2>2. FailsOutcome(s)
      BY <1>4, <1>5, <1>6, <1>13, <2>1, ExcuseKept, Zenon DEF Excused
    <2>3. QED
      BY <1>1, <1>6, <2>2, Zenon DEF Outcome
  <1>14. QED
    BY <1>12, <1>13

(* The last replays of a job: the page has the plan replayed that another   *)
(* page, or the same one, has promised a report for.                        *)
LEMMA LastReplay ==
    ASSUME ReplayInv, NEW phase \in {"verify", "fresh"}, Loaded(phase),
           NEW pl, pl = job.plan, NEW obs, obs = job.obs,
           NEW s \in loads, s \in Stores, page = productPage(s),
           NEW done, done = executeAndVerify(page, pl)
    PROVE  /\ \E t \in loads : Good(pl, obs, t)
           /\ IsPlan(pl) /\ (Truthful => PlanRight(pl))
           /\ done.error = "none" => Fits(pl, s.version)
           /\ Quiet /\ ~(Cardinality(loads) > 1) => done.error = "none" /\ done.obs = obs
  <1>1. ShopOK /\ job.phase \in {"verify", "fresh"} /\ style \in Styles /\ monitor \in Monitors
    BY DEF Loaded, ReplayInv, ShapeInv, ShopOK
  <1>2. PICK t \in loads : Good(pl, obs, t)
    BY <1>1, Zenon DEF ReplayInv
  <1>3. IsPlan(pl) /\ (Truthful => PlanRight(pl))
    BY <1>2, Zenon DEF Good, PlanGood
  <1>4. done.error = "none" => Fits(pl, s.version)
    BY <1>3, ReplayFits, Zenon
  <1>5. ASSUME Quiet, ~(Cardinality(loads) > 1)
        PROVE  done.error = "none" /\ done.obs = obs
    <2>1. s = t
      BY <1>1, <1>5, OneLoad, Zenon
    <2>2. Asked(pl) /\ Fits(pl, s.version) /\ pl.item = s.item /\ obs = Report(s)
      BY <1>2, <1>5, <2>1, Zenon DEF Good, PlanGood
    <2>3. QED
      BY <1>1, <1>3, <1>5, <2>2, QuietReplay, Zenon DEF Quiet, Fits
  <1>6. QED
    BY <1>2, <1>3, <1>4, <1>5

LEMMA VerifyFreshOutcome ==
    ASSUME ReplayInv, verifyFresh
    PROVE  \E s \in loads : page = productPage(s) /\ Outcome(s)
  <1>1. PICK s \in loads : s \in Stores /\ page = productPage(s)
    BY LoadedPage, Zenon DEF verifyFresh
  <1>2. PICK pl, obs : pl = job.plan /\ obs = job.obs
    OBVIOUS
  <1>3. PICK done : done = executeAndVerify(page, pl)
    OBVIOUS
  <1>4. /\ UNCHANGED <<shop, monitor, loads, wrongs>>
        /\ done.error # "none" => Fails(done.error)
        /\ done.error = "none" /\ job.kind = "repair" => MovesOn("fresh", pl, obs)
        /\ done.error = "none" /\ job.kind # "repair" => Succeeds(pl, obs)
    BY <1>2, <1>3, Zenon DEF verifyFresh
  <1>5. ShopOK /\ JobOK /\ wrongs \in Nat /\ job.phase = "verify" /\ Loaded("verify")
    BY DEF verifyFresh, Loaded, ReplayInv, ShapeInv
  <1>6. Fixed /\ store' = store /\ loads' = loads
    BY <1>4, <1>5, SMT DEF Fixed, shop, ShopOK
  <1>7. job.kind # "check"
    BY <1>5, SMT DEF JobOK
  <1>8. /\ \E t \in loads : Good(pl, obs, t)
        /\ done.error = "none" => Fits(pl, s.version)
        /\ Quiet /\ ~(Cardinality(loads) > 1) => done.error = "none"
    BY <1>1, <1>2, <1>3, <1>5, LastReplay, Zenon
  <1>9. CASE done.error # "none"
    <2>1. FailsOutcome(s)
      BY <1>4, <1>5, <1>6, <1>8, <1>9, PromisesKept, ExcuseKept, Zenon
    <2>2. QED
      BY <1>1, <1>6, <2>1, Zenon DEF Outcome
  <1>10. CASE done.error = "none" /\ job.kind = "repair"
    <2>1. \E t \in loads : Good(pl, obs, t)'
      BY <1>5, <1>6, <1>8, PromisesKept, Zenon
    <2>2. ReplaysAgain("fresh")
      BY <1>4, <1>10, <2>1, Zenon DEF ReplaysAgain
    <2>3. QED
      BY <1>1, <1>6, <1>10, <2>2, Zenon DEF Outcome
  <1>11. CASE done.error = "none" /\ job.kind # "repair"
    <2>1. Adopted(s)
      BY <1>4, <1>7, <1>8, <1>11, Zenon DEF Adopted
    <2>2. QED
      BY <1>1, <1>6, <2>1, Zenon DEF Outcome
  <1>12. QED
    BY <1>9, <1>10, <1>11

LEMMA ValidateRepairFreshOutcome ==
    ASSUME ReplayInv, validateRepairFresh
    PROVE  \E s \in loads : page = productPage(s) /\ Outcome(s)
  <1>1. PICK s \in loads : s \in Stores /\ page = productPage(s)
    BY LoadedPage, Zenon DEF validateRepairFresh
  <1>2. PICK pl, obs : pl = job.plan /\ obs = job.obs
    OBVIOUS
  <1>3. PICK done : done = executeAndVerify(page, pl)
    OBVIOUS
  <1>4. /\ UNCHANGED <<shop, monitor, loads, wrongs>>
        /\ \/ (\E error : Fails(error)) /\ ~(done.error = "none" /\ done.obs = obs)
           \/ Succeeds(pl, obs) /\ done.error = "none" /\ done.obs = obs
    BY <1>2, <1>3, Zenon DEF validateRepairFresh, assertObservationsAgree
  <1>5. /\ ShopOK /\ JobOK /\ wrongs \in Nat /\ job.phase = "fresh" /\ Loaded("fresh")
        /\ style \in Styles /\ monitor \in Monitors
    BY DEF validateRepairFresh, Loaded, ReplayInv, ShapeInv, ShopOK
  <1>6. Fixed /\ store' = store /\ loads' = loads
    BY <1>4, <1>5, SMT DEF Fixed, shop
  <1>7. job.kind # "check"
    BY <1>5, SMT DEF JobOK
  <1>8. /\ \E t \in loads : Good(pl, obs, t)
        /\ IsPlan(pl) /\ (Truthful => PlanRight(pl))
        /\ done.error = "none" => Fits(pl, s.version)
        /\ Quiet /\ ~(Cardinality(loads) > 1) => done.error = "none" /\ done.obs = obs
    <2>1. "fresh" \in {"verify", "fresh"}
      OBVIOUS
    <2>2. QED
      BY <1>1, <1>2, <1>3, <1>5, <2>1, LastReplay, SMT
  <1>9. CASE (\E error : Fails(error)) /\ ~(done.error = "none" /\ done.obs = obs)
    <2>1. PICK error : Fails(error)
      BY <1>9
    <2>2. FailsOutcome(s)
      BY <1>5, <1>6, <1>8, <1>9, <2>1, PromisesKept, ExcuseKept, Zenon
    <2>3. QED
      BY <1>1, <1>6, <2>2, Zenon DEF Outcome
  <1>10. CASE Succeeds(pl, obs) /\ done.error = "none" /\ done.obs = obs
    <2>1. Truthful => Genuine(obs, s)
      BY <1>1, <1>3, <1>5, <1>8, <1>10, ReplayIsGenuine, Zenon DEF PlanRight
    <2>2. Adopted(s)
      BY <1>7, <1>8, <1>10, <2>1, Zenon DEF Adopted
    <2>3. QED
      BY <1>1, <1>6, <2>2, Zenon DEF Outcome
  <1>11. QED
    BY <1>4, <1>9, <1>10

LEMMA NoSafeActionOutcome ==
    ASSUME ReplayInv, NoSafeAction
    PROVE  \E s \in loads : page = productPage(s) /\ Outcome(s)
  <1>1. PICK s \in loads : s \in Stores /\ page = productPage(s)
    BY LoadedPage, Zenon DEF NoSafeAction
  <1>2. /\ UNCHANGED <<shop, monitor, loads>> /\ Fails("failed")
        /\ (~Offered /\ wrongs' = wrongs) \/ Wrong({"none found"})
    BY Zenon DEF NoSafeAction, Offered
  <1>3. ShopOK /\ JobOK /\ wrongs \in Nat
    BY DEF ReplayInv, ShapeInv
  <1>4. wrongs' \in Nat /\ wrongs' >= wrongs /\ (~Offered \/ wrongs' # 0)
    <2>1. CASE ~Offered /\ wrongs' = wrongs
      BY <1>3, <2>1, SMT
    <2>2. CASE Wrong({"none found"})
      <3>1. IsFiniteSet({"none found"}) /\ {"none found"} # {}
        BY FS_Singleton, Zenon
      <3>2. QED
        BY <1>3, <2>2, <3>1, WrongAnswers, Zenon
    <2>3. QED
      BY <1>2, <2>1, <2>2
  <1>5. Fixed /\ store' = store /\ loads' = loads
    BY <1>2, <1>4, Zenon DEF Fixed, shop
  <1>6. ~Quiet'
    BY <1>4, <1>5, RequestKept, Zenon DEF Quiet, Fixed
  <1>7. FailsOutcome(s)
    BY <1>2, <1>3, <1>5, <1>6, ExcuseKept, Zenon
  <1>8. QED
    BY <1>1, <1>5, <1>7, Zenon DEF Outcome

LEMMA HealingFailsOutcome ==
    ASSUME ReplayInv, HealingFails
    PROVE  \E s \in loads : page = productPage(s) /\ Outcome(s)
  <1>1. PICK s \in loads : s \in Stores /\ page = productPage(s)
    BY LoadedPage, Zenon DEF HealingFails
  <1>2. /\ UNCHANGED <<shop, monitor, loads, wrongs>> /\ job.phase = "repair"
        /\ MovesOn("compile", NoPlan, NoObservation)
    BY Zenon DEF HealingFails, Loaded
  <1>3. ShopOK /\ JobOK /\ wrongs \in Nat
    BY DEF ReplayInv, ShapeInv
  <1>4. Fixed /\ store' = store /\ loads' = loads
    BY <1>2, <1>3, SMT DEF Fixed, shop
  <1>5. job.kind = "repair"
    BY <1>2, <1>3, SMT DEF JobOK
  <1>6. CompilesAnew
    BY <1>2, <1>5, Zenon DEF CompilesAnew
  <1>7. QED
    BY <1>1, <1>4, <1>6, Zenon DEF Outcome

LEMMA RepairLiveOutcome ==
    ASSUME ReplayInv, repairLive
    PROVE  \E s \in loads : page = productPage(s) /\ Outcome(s)
  <1>1. PICK s \in loads : s \in Stores /\ page = productPage(s)
    BY LoadedPage, Zenon DEF repairLive
  <1> DEFINE Lost == {a \in Requested : ~Clickable(page, plan.steps[a], a)}
             new(h) == [plan EXCEPT !.steps = [a \in Requested |->
                           IF a \in Lost THEN [version |-> page.version, value |-> h[a]] ELSE @[a]]]
  <1>2. PICK healed :
            /\ Wrong({a \in Lost : healed[a] # variant[a]})
            /\ \E pl \in {new(healed)} : \E done \in {executeAndVerify(page, pl)} :
                  IF done.error = "none" THEN MovesOn("fresh", pl, done.obs)
                  ELSE IF done.error = "stale" THEN MovesOn("compile", NoPlan, NoObservation)
                  ELSE Fails(done.error)
    BY Zenon DEF repairLive
  <1>3. PICK old, lost, v : old = plan /\ v = page.version /\ lost = Lost
    BY Zenon
  <1> DEFINE wrong(h) == {a \in lost : h[a] # variant[a]}
  <1>4. PICK pl, done : /\ pl = new(healed) /\ done = executeAndVerify(page, pl)
                        /\ \/ done.error = "none" /\ MovesOn("fresh", pl, done.obs)
                           \/ done.error = "stale" /\ MovesOn("compile", NoPlan, NoObservation)
                           \/ done.error \notin {"none", "stale"} /\ Fails(done.error)
    <2> HIDE DEF new
    <2>1. QED
      BY <1>2
  <1>5. /\ ShopOK /\ JobOK /\ wrongs \in Nat /\ job.phase = "repair" /\ style \in Styles
        /\ monitor \in Monitors /\ UNCHANGED <<shop, monitor, loads>>
    BY DEF repairLive, Loaded, ReplayInv, ShapeInv, ShopOK
  <1>6. IsPlan(old) /\ PlanGood(old) /\ job.kind = "repair"
    <2>1. plan # NoPlan /\ job.kind = "repair"
      BY <1>5, SMT DEF JobOK
    <2>2. QED
      BY <1>3, <2>1, Zenon DEF ReplayInv, ShapeInv
  <1>7. /\ pl.layout = old.layout /\ pl.price = old.price /\ pl.labels = old.labels
        /\ pl.item = old.item /\ DOMAIN pl = DOMAIN old
        /\ pl.steps = [a \in Requested |->
                          IF a \in lost THEN [version |-> v, value |-> healed[a]] ELSE old.steps[a]]
    BY <1>3, <1>4, <1>6, SMT DEF IsPlan
  <1>8. IsPlan(pl)
    BY <1>6, <1>7, SMT DEF IsPlan
  <1>9. IsFiniteSet(wrong(healed))
    <2>1. wrong(healed) \subseteq {"color"} \cup {"capacity"}
      BY <1>3, <1>5, RequestedAttributes, Zenon
    <2>2. IsFiniteSet({"color"} \cup {"capacity"})
      BY FS_Singleton, FS_Union, Zenon
    <2>3. QED
      BY <2>1, <2>2, FS_Subset, Zenon
  <1>10. /\ wrongs' \in Nat /\ wrongs' >= wrongs
         /\ wrongs' = 0 => wrong(healed) = {}
         /\ wrongs' <= 1 /\ wrongs >= 1 => wrong(healed) = {}
    BY <1>2, <1>3, <1>5, <1>9, WrongAnswers, Zenon
  <1>11. Fixed /\ store' = store /\ loads' = loads
    BY <1>5, <1>10, Zenon DEF Fixed, shop
  <1>12. ASSUME StepsRight(old), wrong(healed) = {}
         PROVE  StepsRight(pl)
    <2>1. \A a \in lost : healed[a] = variant[a]
      BY <1>12, Zenon
    <2>2. \A a \in Requested : pl.steps[a].value = variant[a]
      <3> SUFFICES ASSUME NEW a \in Requested
                   PROVE  pl.steps[a].value = variant[a]
        OBVIOUS
      <3>1. CASE a \in lost
        BY <1>7, <2>1, <3>1, SMT
      <3>2. CASE a \notin lost
        BY <1>7, <1>12, <3>2, Zenon DEF StepsRight
      <3>3. QED
        BY <3>1, <3>2
    <2>3. QED
      BY <2>2 DEF StepsRight
  <1> HIDE DEF wrong, new, Lost
  <1>13. PlanGood(pl)'
    <2>1. ASSUME Truthful'
          PROVE  PlanRight(pl)
      <3>1. Truthful /\ PlanRight(old)
        BY <1>5, <1>6, <1>11, <2>1, PromisesKept, Zenon DEF PlanGood
      <3>2. wrongs' <= 1
        BY <2>1, Zenon DEF Truthful
      <3>3. CASE old.labels = "label"
        BY <1>7, <3>1, <3>3, Zenon DEF PlanRight, Tells
      <3>4. CASE old.labels # "label"
        <4>1. wrongs >= 1 /\ StepsRight(old)
          BY <3>1, <3>4, Zenon DEF PlanRight, Tells
        <4>2. StepsRight(pl)
          BY <1>10, <1>12, <3>2, <4>1, Zenon
        <4>3. QED
          BY <1>7, <3>1, <4>1, <4>2, Zenon DEF PlanRight, Tells
      <3>5. QED
        BY <3>3, <3>4
    <2>2. ASSUME Quiet'
          PROVE  Asked(pl)
      <3>1. Asked(old)
        BY <1>5, <1>6, <1>11, <2>2, PromisesKept, Zenon DEF PlanGood
      <3>2. wrong(healed) = {}
        BY <1>10, <2>2, Zenon DEF Quiet
      <3>3. QED
        BY <1>7, <1>12, <3>1, <3>2, Zenon DEF Asked
    <2>3. (PlanRight(pl) => PlanRight(pl)') /\ (Asked(pl) => Asked(pl)')
      <3>1. wrongs >= 1 => wrongs' >= 1
        BY <1>5, <1>10, SMT
      <3>2. QED
        BY <1>11, <3>1, RequestKept, Zenon DEF Fixed, PlanRight, Tells, Asked
    <2>4. QED
      BY <2>1, <2>2, <2>3, Zenon DEF PlanGood
  <1>14. CASE done.error = "none" /\ MovesOn("fresh", pl, done.obs)
    <2>1. Good(pl, done.obs, s)'
      BY <1>1, <1>4, <1>5, <1>8, <1>11, <1>13, <1>14, ReplayIsGood, Zenon
    <2>2. ReplaysAgain("fresh")
      BY <1>14, <2>1, Zenon DEF ReplaysAgain
    <2>3. QED
      BY <1>1, <1>6, <1>11, <2>2, Zenon DEF Outcome
  <1>15. CASE done.error = "stale" /\ MovesOn("compile", NoPlan, NoObservation)
    <2>1. CompilesAnew
      BY <1>6, <1>15, Zenon DEF CompilesAnew
    <2>2. QED
      BY <1>1, <1>11, <2>1, Zenon DEF Outcome
  <1>16. CASE done.error \notin {"none", "stale"} /\ Fails(done.error)
    <2>1. ASSUME Quiet', s.item = old.item
          PROVE  FALSE
      <3>1. Quiet
        BY <1>5, <1>11, <2>1, PromisesKept, Zenon
      <3>2. Asked(pl)
        BY <1>11, <1>13, <2>1, RequestKept, Zenon DEF PlanGood, Asked, Fixed
      <3>3. v = s.version
        BY <1>1, <1>3, SMT DEF productPage
      <3>4. \A a \in Requested : pl.steps[a].version = s.version
        <4> SUFFICES ASSUME NEW a \in Requested
                     PROVE  pl.steps[a].version = s.version
          OBVIOUS
        <4>1. CASE a \in lost
          BY <1>7, <3>3, <4>1, SMT
        <4>2. CASE a \notin lost
          <5>1. Clickable(page, old.steps[a], a)
            BY <1>3, <4>2, Zenon DEF Lost
          <5>2. QED
            BY <1>3, <1>7, <3>3, <4>2, <5>1, Zenon DEF Clickable
        <4>3. QED
          BY <4>1, <4>2
      <3>5. pl.item = s.item
        BY <1>7, <2>1
      <3>6. done.error = "none" \/ done.error = "stale"
        BY <1>1, <1>4, <1>5, <1>8, <3>1, <3>2, <3>4, <3>5, QuietReplay, Zenon DEF Quiet
      <3>7. QED
        BY <1>16, <3>6
    <2>2. old # NoPlan
      BY <1>6, SMT DEF IsPlan, NoPlan
    <2>3. Quiet' => Excused(s)
      BY <1>3, <2>1, <2>2, Zenon DEF Excused
    <2>4. FailsOutcome(s)
      BY <1>5, <1>11, <1>16, <2>3, ExcuseKept, Zenon
    <2>5. QED
      BY <1>1, <1>11, <2>4, Zenon DEF Outcome
  <1>17. QED
    BY <1>4, <1>14, <1>15, <1>16

LEMMA CompileLiveOutcome ==
    ASSUME ReplayInv, compileLive
    PROVE  \E s \in loads : page = productPage(s) /\ Outcome(s)
  <1>1. PICK s \in loads : s \in Stores /\ page = productPage(s)
    BY LoadedPage, Zenon DEF compileLive
  <1> DEFINE steps(options) ==
                 [a \in Requested |-> [version |-> page.version, value |-> options[a]]]
             made(options, node, labels) ==
                 [layout |-> page.version, steps |-> steps(options),
                  price |-> node, labels |-> labels, item |-> page.item]
             slips(options, node, labels, right) ==
                 Misses(options) \cup {c \in {"price"} : node # "price"}
                   \cup {c \in {"labels"} : labels = "static"} \cup {c \in {"semantic"} : ~right}
             check(read, p, pl, right) ==
                 IF read.error # "none" THEN read.error
                 ELSE IF SemanticPrice(p, right) # read.obs.price THEN "conflict"
                 ELSE validateObservation(read.obs, pl)
  <1>2. PICK options \in [Requested -> Offers["color"] \cup Offers["capacity"]],
             node \in {"price", "battery"}, labels \in {"label", "static"}, right \in BOOLEAN :
          /\ \A a \in Requested : options[a] \in Offers[a]
          /\ Wrong(slips(options, node, labels, right))
          /\ \E pl \in {made(options, node, labels)} :
             \E p \in {Prepared(page, pl.steps)} :
             \E read \in {extractObservation(p, pl)} :
             \E error \in {check(read, p, pl, right)} :
                IF error = "none" THEN MovesOn("verify", pl, read.obs) ELSE Fails(error)
    BY Zenon DEF compileLive
  <1>3. PICK pl, p, read, error :
          /\ pl = made(options, node, labels) /\ p = Prepared(page, pl.steps)
          /\ read = extractObservation(p, pl) /\ error = check(read, p, pl, right)
          /\ error = "none" => MovesOn("verify", pl, read.obs)
          /\ error # "none" => Fails(error)
    BY <1>2, Zenon
  <1> DEFINE S == slips(options, node, labels, right)
  <1>4. PICK done : done = executeAndVerify(page, pl)
    OBVIOUS
  <1>5. /\ ShopOK /\ JobOK /\ wrongs \in Nat /\ job.phase = "compile" /\ style \in Styles
        /\ monitor \in Monitors /\ UNCHANGED <<shop, monitor, loads>>
    BY DEF compileLive, Loaded, ReplayInv, ShapeInv, ShopOK
  <1>6. job.kind # "check"
    BY <1>5, SMT DEF JobOK
  <1>7. page.version = s.version /\ page.item = s.item /\ s.version \in {1, 2} /\ s.base \in BasePrices
    <2>1. page.version = s.version /\ page.item = s.item
      BY <1>1, SMT DEF productPage
    <2>2. QED
      BY <1>1, <2>1, StoreFields, Zenon
  <1>8. /\ DOMAIN pl = {"layout", "steps", "price", "labels", "item"} /\ pl.layout = s.version
        /\ pl.steps = steps(options) /\ pl.price = node /\ pl.labels = labels /\ pl.item = s.item
    BY <1>3, <1>7, SMT
  <1>9. \A a \in Requested : pl.steps[a].version = s.version /\ pl.steps[a].value = options[a]
    BY <1>7, <1>8, SMT
  <1> HIDE DEF steps, made
  <1>10. IsPlan(pl) /\ DOMAIN pl.steps = Requested
    BY <1>7, <1>8, SMT DEF IsPlan, steps
  <1>11. IsFiniteSet(S)
    <2> DEFINE T == {"color"} \cup {"capacity"} \cup {"price"} \cup {"labels"} \cup {"semantic"}
    <2>1. S \subseteq T
      BY <1>5, RequestedAttributes, Zenon DEF Misses
    <2>2. IsFiniteSet(T)
      BY FS_Singleton, FS_Union, Zenon
    <2>3. QED
      BY <2>1, <2>2, FS_Subset, Zenon
  <1>12. /\ wrongs' \in Nat /\ wrongs' >= wrongs
         /\ wrongs' = 0 => S = {}
         /\ S # {} => wrongs' >= 1
         /\ wrongs' <= 1 => \A x, y \in S : x = y
    BY <1>2, <1>5, <1>11, WrongAnswers, Zenon
  <1>13. Fixed /\ store' = store /\ loads' = loads
    BY <1>5, <1>12, Zenon DEF Fixed, shop
  <1>14. /\ node # "price" => "price" \in S
         /\ labels # "label" => "labels" \in S
         /\ right # TRUE => "semantic" \in S
         /\ \A a \in Requested : options[a] # variant[a] => a \in S
    <2>1. labels # "label" => labels = "static"
      BY <1>2
    <2>2. QED
      BY <2>1, Zenon DEF Misses
  <1> HIDE DEF S, slips
  <1>15. S = {} => Asked(pl) /\ right = TRUE
    BY <1>8, <1>9, <1>14, Zenon DEF Asked, StepsRight
  <1>16. Quiet' => Quiet /\ Asked(pl) /\ right = TRUE
    BY <1>5, <1>12, <1>13, <1>15, PromisesKept, Zenon DEF Quiet
  (* The cross-check sees more than the replay, which clicks the same steps. *)
  <1>17. /\ p.version = s.version /\ p.base = s.base /\ p.selected = Chosen(pl)
         /\ read.obs = Reads(p, pl) /\ Readable(pl, p.version)
         /\ read.obs.price = Refused => read.error = "ambiguous_value"
         /\ read.obs.price # Refused => read.error = "none"
    <2>1. p.version = s.version /\ p.base = s.base /\ p.selected = Chosen(pl)
      BY <1>1, <1>3, <1>10, PreparedPage, Zenon
    <2>2. Readable(pl, p.version)
      BY <1>8, <2>1, Zenon DEF Readable
    <2>3. QED
      BY <1>3, <2>1, <2>2, Extracts, Zenon
  <1>18. \A a \in Requested : Clickable(page, pl.steps[a], a)
    BY <1>2, <1>7, <1>9, Zenon DEF Clickable
  <1>19. read.obs.price # Refused =>
             done = [obs |-> read.obs, error |-> validateObservation(read.obs, pl)]
    <2>1. read.obs = Reads(Prepared(productPage(s), pl.steps), pl)
      BY <1>1, <1>3, <1>17
    <2>2. Readable(pl, s.version)
      BY <1>17
    <2>3. done = executeAndVerify(productPage(s), pl)
          /\ \A a \in Requested : Clickable(productPage(s), pl.steps[a], a)
      BY <1>1, <1>4, <1>18, Zenon
    <2>4. QED
      BY <1>10, <2>1, <2>2, <2>3, Replays, Zenon
  <1>20. CASE error = "none"
    <2>1. /\ read.error = "none" /\ SemanticPrice(p, right) = read.obs.price
          /\ validateObservation(read.obs, pl) = "none"
      <3>1. "conflict" # "none"
        OBVIOUS
      <3>2. QED
        BY <1>3, <1>20, <3>1, Zenon
    <2> HIDE DEF check
    <2>2. read.obs.price # Refused
      BY <1>17, <2>1
    <2>3. done.error = "none" /\ done.obs = read.obs
      BY <1>19, <2>1, <2>2, SMT
    <2>4. ASSUME Truthful'
          PROVE  PlanRight(pl)'
      <3>1. NoCoincidence /\ wrongs' <= 1
        BY <2>4, Zenon DEF Truthful, NoCoincidence
      <3>2. node = "price"
        <4>1. SUFFICES ASSUME node # "price"
                       PROVE  FALSE
          OBVIOUS
        <4>2. "price" \in S /\ right = TRUE
          <5>1. "price" # "semantic"
            OBVIOUS
          <5>2. QED
            BY <1>12, <1>14, <3>1, <4>1, <5>1, Zenon
        <4>3. ReadsFrom(p, pl) = BatteryNode
          BY <1>8, <1>17, <4>1, Zenon DEF ReadsFrom
        <4>4. read.obs.price = OtherNumber
          <5>1. IsReading(read.obs, p, pl)
            BY <1>17, Reports, Zenon
          <5>2. QED
            BY <4>3, <5>1, BatteryIsRead, Zenon DEF IsReading
        <4>5. SemanticPrice(p, TRUE) = Total(s.base, p.selected)
          BY <1>5, <1>7, <1>17, PricesRead, Zenon
        <4>6. Total(s.base, p.selected) # OtherNumber
          BY <1>7, <3>1, TotalIsAmount, Zenon
        <4>7. QED
          BY <2>1, <4>2, <4>4, <4>5, <4>6, Zenon
      <3>3. labels = "label" \/ (wrongs' >= 1 /\ StepsRight(pl))
        <4>1. SUFFICES ASSUME labels # "label"
                       PROVE  wrongs' >= 1 /\ StepsRight(pl)
          OBVIOUS
        <4>2. "labels" \in S
          BY <1>14, <4>1, Zenon
        <4>3. \A a \in Requested : a # "labels"
          BY <1>5, RequestedAttributes, SMT
        <4>4. \A a \in Requested : options[a] = variant[a]
          BY <1>12, <1>14, <3>1, <4>2, <4>3, Zenon
        <4>5. QED
          BY <1>9, <1>12, <4>2, <4>4, Zenon DEF StepsRight
      <3>4. QED
        BY <1>8, <1>13, <3>2, <3>3, RequestKept, Zenon DEF PlanRight, Tells, Fixed
    <2>5. PlanGood(pl)'
      BY <1>13, <1>16, <2>4, RequestKept, Zenon DEF PlanGood, Asked, Fixed
    <2>6. Good(pl, done.obs, s)'
      BY <1>1, <1>4, <1>5, <1>10, <1>13, <2>3, <2>5, ReplayIsGood, Zenon
    <2>7. ReplaysAgain("verify")
      BY <1>3, <1>20, <2>3, <2>6, Zenon DEF ReplaysAgain
    <2>8. QED
      BY <1>1, <1>6, <1>13, <2>7, Zenon DEF Outcome
  <1>21. CASE error # "none"
    <2>1. ASSUME Quiet'
          PROVE  FALSE
      <3>1. Quiet /\ Asked(pl) /\ right = TRUE
        BY <1>16, <2>1
      <3>2. p.selected = Wanted
        BY <1>17, <3>1, ChosenIsWanted, Zenon DEF Asked
      <3>3. done.error = "none" /\ done.obs = Report(s)
        <4>1. \A a \in Requested : pl.steps[a].version = s.version
          BY <1>9
        <4>2. Readable(pl, s.version) /\ pl.item = s.item
          BY <1>8, <1>17
        <4>3. QED
          BY <1>1, <1>4, <1>5, <1>10, <3>1, <4>1, <4>2, QuietReplay, Zenon DEF Quiet
      <3>4. read.obs.price = Total(s.base, Wanted)
        <4>1. Readable(pl, s.version)
          BY <1>17
        <4>2. QED
          BY <1>1, <1>3, <1>5, <1>10, <1>17, <3>1, <4>1, PriceOfVariant, Zenon DEF Asked, Quiet
      <3>5. SemanticPrice(p, right) = read.obs.price
        BY <1>5, <1>7, <1>17, <3>1, <3>2, <3>4, PricesRead, Zenon
      <3>6. read.obs.price # Refused
        BY <1>7, <3>4, TotalIsAmount, Zenon
      <3>7. read.error = "none"
        BY <1>17, <3>6
      <3>8. validateObservation(read.obs, pl) = "none"
        BY <1>19, <3>3, <3>6, SMT
      <3>9. error = "none"
        BY <1>3, <3>5, <3>7, <3>8, Zenon
      <3>10. QED
        BY <1>21, <3>9
    <2>2. FailsOutcome(s)
      BY <1>3, <1>5, <1>13, <1>21, <2>1, ExcuseKept, Zenon
    <2>3. QED
      BY <1>1, <1>13, <2>2, Zenon DEF Outcome
  <1>22. QED
    BY <1>20, <1>21

-------------------------------------------------------------------------------
(* The other steps, and the theorems. *)

LEMMA FirstBase == 109900 \in BasePrices
  BY SMT DEF BasePrices, AllowedPrice

LEMMA InitReplay == Init => ReplayInv
  <1> SUFFICES ASSUME Init
               PROVE  ReplayInv
    OBVIOUS
  <1>1. initialState \in Stores /\ initialState.item = "atlas"
    BY FirstBase, SMT DEF initialState, Stores
  <1>2. ShopOK
    <2>1. loads = {} /\ IsFiniteSet(loads) /\ page = NoPage
      BY FS_EmptySet, Zenon DEF Init
    <2>2. monitor \in Monitors /\ style \in Styles /\ store = initialState /\ origin = initialState
      BY Zenon DEF Init, Monitors
    <2>3. QED
      BY <1>1, <2>1, <2>2, Zenon DEF ShopOK
  <1>3. job.phase = "done" /\ JobOK
    BY SMT DEF Init, Idle, JobOK
  <1>4. plan = NoPlan /\ wrongs \in Nat /\ loads = {}
    BY SMT DEF Init
  <1>5. job.status # "succeeded"
    BY SMT DEF Init, Idle
  <1>6. QED
    BY <1>2, <1>3, <1>4, <1>5, SMT
       DEF ReplayInv, ShapeInv, ObservationIsGenuine, RepairIsReproduced, QuietShopSucceeds

LEMMA StartKeeps ==
    ASSUME ReplayInv, NEW kind \in {"compile", "check", "repair"}, Start(kind)
    PROVE  ReplayInv'
  <1>1. ShopOK /\ JobOK /\ wrongs \in Nat
    BY DEF ReplayInv, ShapeInv
  <1>2. PICK phase : phase = IF kind = "repair" /\ monitor.mode = "scripted" THEN "compile" ELSE kind
    OBVIOUS
  <1>3. /\ (kind = "compile") <=> (plan = NoPlan)
        /\ job' = [Idle EXCEPT !.kind = kind, !.phase = phase]
        /\ page' = NoPage /\ loads' = {} /\ UNCHANGED <<shop, monitor, plan, origin, wrongs>>
    BY <1>2, Zenon DEF Start
  <1>4. Fixed /\ store' = store
    BY <1>1, <1>3, SMT DEF Fixed, shop
  <1>5. job'.kind = kind /\ job'.phase = phase /\ DOMAIN job' = {"kind", "phase", "status", "reason", "plan", "obs"}
    BY <1>3, SMT DEF Idle
  <1>6. phase \in {"compile", "check", "repair"} /\ (phase = "check" <=> kind = "check")
        /\ (phase = "repair" => kind = "repair")
    BY <1>2, SMT
  <1>7. ShopOK'
    <2>1. IsFiniteSet(loads')
      BY <1>3, FS_EmptySet, Zenon
    <2>2. QED
      BY <1>1, <1>3, <1>4, <2>1, SMT DEF ShopOK, Fixed
  <1>8. JobOK'
    BY <1>3, <1>5, <1>6, SMT DEF JobOK
  <1>9. /\ plan' = NoPlan \/ IsPlan(plan)'
        /\ (plan # NoPlan => PlanGood(plan) /\ (Quiet => Fits(plan, origin.version)))'
    BY <1>3, <1>4, PlanKept, Zenon
  <1>10. job'.phase \notin {"verify", "fresh", "done"} /\ wrongs' \in Nat
    BY <1>4, <1>5, <1>6, SMT DEF Fixed
  <1>11. QED
    BY <1>7, <1>8, <1>9, <1>10, SMT
       DEF ReplayInv, ShapeInv, ObservationIsGenuine, RepairIsReproduced, QuietShopSucceeds

(* What a page and a change of the shop leave of a promise. *)
LEMMA PromiseKept ==
    ASSUME ReplayInv, Fixed, job' = job, loads \subseteq loads'
    PROVE  (job.phase \in {"verify", "fresh"} => \E s \in loads : Good(job.plan, job.obs, s))'
  <1>1. wrongs \in Nat
    BY DEF ReplayInv, ShapeInv
  <1>2. PICK pl, obs : pl = job.plan /\ obs = job.obs
    OBVIOUS
  <1>3. job.phase \in {"verify", "fresh"} => \E s \in loads : Good(pl, obs, s)
    BY <1>2, Zenon DEF ReplayInv
  <1>4. \A s : Good(pl, obs, s) => Good(pl, obs, s)'
    BY <1>1, PromisesKept, Zenon
  <1>5. (job.plan)' = pl /\ (job.obs)' = obs
    BY <1>2
  <1>6. job.phase \in {"verify", "fresh"} => \E s \in loads' : Good(pl, obs, s)'
    BY <1>3, <1>4, Zenon
  <1>7. QED
    BY <1>5, <1>6, Zenon

LEMMA JobKept ==
    ASSUME JobOK, job' = job, plan' = plan, monitor' = monitor
    PROVE  JobOK'
  <1>1. PICK pl : pl = job.plan
    OBVIOUS
  <1>2. IsPlan(pl)' <=> IsPlan(pl)
    BY RequestKept, Zenon
  <1>3. (job.plan)' = pl
    BY <1>1
  <1>4. IsPlan(job.plan)' <=> IsPlan(job.plan)
    BY <1>1, <1>2, <1>3, Zenon
  <1>5. QED
    BY <1>4, Zenon DEF JobOK

LEMMA GotoKeeps ==
    ASSUME ReplayInv, Goto
    PROVE  ReplayInv'
  <1>1. ShopOK /\ JobOK /\ wrongs \in Nat
    BY DEF ReplayInv, ShapeInv
  <1>2. /\ job.phase # "done" /\ page' = productPage(store) /\ loads' = loads \cup {store}
        /\ UNCHANGED <<shop, monitor, plan, origin, job, wrongs>>
    BY Zenon DEF Goto
  <1>3. Fixed /\ store' = store
    BY <1>1, <1>2, SMT DEF Fixed, shop
  <1>4. ShopOK'
    <2>1. IsFiniteSet(loads')
      BY <1>1, <1>2, FS_AddElement, Zenon DEF ShopOK
    <2>2. \E s \in loads' : page' = productPage(s)
      BY <1>2, Zenon
    <2>3. loads' \subseteq Stores /\ loads' \cup {store'} = loads \cup {store}
      BY <1>1, <1>2, <1>3, Zenon DEF ShopOK
    <2>4. (page = NoPage \/ \E s \in loads : page = productPage(s))'
      BY <2>2, Zenon DEF productPage
    <2>5. QED
      BY <1>1, <1>2, <1>3, <2>1, <2>3, <2>4, Zenon DEF ShopOK, Fixed
  <1>5. JobOK'
    BY <1>1, <1>2, JobKept, Zenon
  <1>6. /\ plan' = NoPlan \/ IsPlan(plan)'
        /\ (plan # NoPlan => PlanGood(plan) /\ (Quiet => Fits(plan, origin.version)))'
    BY <1>2, <1>3, PlanKept, Zenon
  <1>7. (job.phase \in {"verify", "fresh"} => \E s \in loads : Good(job.plan, job.obs, s))'
    BY <1>2, <1>3, PromiseKept, Zenon
  <1>8. job'.phase # "done" /\ wrongs' \in Nat
    BY <1>2, <1>3 DEF Fixed
  <1>9. QED
    BY <1>4, <1>5, <1>6, <1>7, <1>8, Zenon
       DEF ReplayInv, ShapeInv, ObservationIsGenuine, RepairIsReproduced, QuietShopSucceeds

LEMMA StockField ==
    ASSUME NEW B, NEW x \in B, NEW s \in [version: {1, 2}, base: BasePrices, inStock: B, item: {"atlas", "other"}]
    PROVE  /\ [s EXCEPT !.inStock = x] \in [version: {1, 2}, base: BasePrices, inStock: B, item: {"atlas", "other"}]
           /\ [s EXCEPT !.inStock = x].item = s.item
  BY SMT

LEMMA ShopChangesShop ==
    ASSUME store \in Stores, ShopChanges
    PROVE  store' \in Stores /\ style' = style
           /\ (monitor.mode = "scripted" => store'.item \in {store.item, "atlas"})
  <1>1. CASE deploy
    BY <1>1, SMT DEF deploy, Control, Stores
  <1>2. CASE reset
    BY <1>2, FirstBase, SMT DEF reset, Control, initialState, Stores
  <1>3. CASE price
    <2>1. PICK value \in Prices : AllowedPrice(value) /\ Control([store EXCEPT !.base = value])
      BY <1>3 DEF price
    <2>2. value \in BasePrices
      BY <2>1, SMT DEF BasePrices
    <2>3. QED
      BY <2>1, <2>2, SMT DEF Control, Stores
  <1>4. CASE stock
    <2>1. PICK other \in BOOLEAN : other = ~store.inStock
      BY Zenon
    <2>2. store' = [store EXCEPT !.inStock = other] /\ style' = style
      BY <1>4, <2>1, Zenon DEF stock, Control
    <2>3. store' \in Stores /\ store'.item = store.item
      BY <2>1, <2>2, StockField, Zenon DEF Stores
    <2>4. QED
      BY <2>2, <2>3
  <1>5. CASE monitor.mode = "live" /\ relist
    BY <1>5, SMT DEF relist, Control, Stores
  <1>6. QED
    BY <1>1, <1>2, <1>3, <1>4, <1>5, Zenon DEF ShopChanges

(* A step that touches the shop only, or nothing. *)
LEMMA ShopStepKeeps ==
    ASSUME ReplayInv, ShopChanges \/ UNCHANGED vars
    PROVE  ReplayInv'
  <1>1. ShopOK /\ JobOK /\ wrongs \in Nat /\ store \in Stores
    BY DEF ReplayInv, ShapeInv, ShopOK
  <1>2. /\ store' \in Stores /\ style' = style
        /\ monitor.mode = "scripted" => store'.item \in {store.item, "atlas"}
        /\ UNCHANGED <<monitor, plan, origin, job, page, loads, wrongs>>
    <2>1. CASE ShopChanges
      BY <1>1, <2>1, ShopChangesShop, Zenon DEF ShopChanges
    <2>2. CASE UNCHANGED vars
      BY <1>1, <2>2, Zenon DEF vars, shop
    <2>3. QED
      BY <2>1, <2>2
  <1>3. Fixed
    BY <1>1, <1>2, SMT DEF Fixed
  <1>4. ShopOK'
    BY <1>1, <1>2, SMT DEF ShopOK
  <1>5. JobOK'
    BY <1>1, <1>2, JobKept, Zenon
  <1>6. /\ plan' = NoPlan \/ IsPlan(plan)'
        /\ (plan # NoPlan => PlanGood(plan) /\ (Quiet => Fits(plan, origin.version)))'
    BY <1>2, <1>3, PlanKept, Zenon
  <1>7. (job.phase \in {"verify", "fresh"} => \E s \in loads : Good(job.plan, job.obs, s))'
    BY <1>2, <1>3, PromiseKept, Zenon
  <1>8. wrongs' = wrongs /\ (Truthful' => Truthful)
    BY <1>1, <1>2, <1>3, PromisesKept, Zenon
  <1>9. /\ ObservationIsGenuine => ObservationIsGenuine'
        /\ RepairIsReproduced => RepairIsReproduced'
    <2>1. Wanted' = Wanted
      BY <1>2, RequestKept, Zenon
    <2>2. QED
      BY <1>2, <2>1, Zenon DEF ObservationIsGenuine, RepairIsReproduced
  <1>10. QuietShopSucceeds => QuietShopSucceeds'
    <2>1. Offered' = Offered
      BY <1>2, RequestKept, Zenon
    <2>2. QED
      BY <1>2, <2>1, Zenon DEF QuietShopSucceeds
  <1>11. QED
    BY <1>1, <1>4, <1>5, <1>6, <1>7, <1>8, <1>9, <1>10, Zenon DEF ReplayInv, ShapeInv

LEMMA NextReplay ==
    ASSUME ReplayInv, [Next]_vars
    PROVE  ReplayInv'
  <1>1. ASSUME NEW kind \in {"compile", "check", "repair"}, Start(kind)
        PROVE  ReplayInv'
    BY <1>1, StartKeeps
  <1>2. CASE Goto
    BY <1>2, GotoKeeps
  <1>3. CASE Check
    BY <1>3, CheckOutcome, OutcomeKeeps, Zenon
  <1>4. CASE compileFixture
    BY <1>4, CompileFixtureOutcome, OutcomeKeeps, Zenon
  <1>5. CASE compileLive
    BY <1>5, CompileLiveOutcome, OutcomeKeeps, Zenon
  <1>6. CASE NoSafeAction
    BY <1>6, NoSafeActionOutcome, OutcomeKeeps, Zenon
  <1>7. CASE verifyFresh
    BY <1>7, VerifyFreshOutcome, OutcomeKeeps, Zenon
  <1>8. CASE repairLive
    BY <1>8, RepairLiveOutcome, OutcomeKeeps, Zenon
  <1>9. CASE HealingFails
    BY <1>9, HealingFailsOutcome, OutcomeKeeps, Zenon
  <1>10. CASE validateRepairFresh
    BY <1>10, ValidateRepairFreshOutcome, OutcomeKeeps, Zenon
  <1>11. CASE ShopChanges \/ UNCHANGED vars
    BY <1>11, ShopStepKeeps
  <1>12. QED
    BY <1>1, <1>2, <1>3, <1>4, <1>5, <1>6, <1>7, <1>8, <1>9, <1>10, <1>11, Zenon DEF Next

(* What a plan that has stood a replay promises, and what a job with an     *)
(* answer may report, in every reachable state.                              *)
THEOREM ReplayInvariant == Spec => []ReplayInv
  <1>1. Init => ReplayInv
    BY InitReplay
  <1>2. ReplayInv /\ [Next]_vars => ReplayInv'
    BY NextReplay
  <1>3. QED
    BY <1>1, <1>2, PTL DEF Spec

(* With at most one wrong answer of the model so far, a job that succeeds   *)
(* reports what the shop offered at a moment when it was loaded             *)
(* (executeAndVerify, validateObservation and the cross-check of            *)
(* compileLive).                                                             *)
THEOREM ObservationsAreGenuine ==
    ASSUME NoCoincidence
    PROVE  Spec => [](wrongs <= 1 => ObservationIsGenuine)
  <1>1. ReplayInv => (wrongs <= 1 => ObservationIsGenuine)
    BY Zenon DEF ReplayInv, Truthful
  <1>2. QED
    BY <1>1, ReplayInvariant, PTL

(* As long, a repair is adopted only if its plan shows on the last page     *)
(* what it was adopted with (validateRepairFresh, assertObservationsAgree). *)
THEOREM RepairsAreReproduced ==
    ASSUME NoCoincidence
    PROVE  Spec => [](wrongs <= 1 => RepairIsReproduced)
  <1>1. ReplayInv => (wrongs <= 1 => RepairIsReproduced)
    BY Zenon DEF ReplayInv, Truthful
  <1>2. QED
    BY <1>1, ReplayInvariant, PTL

(* A job does not fail for nothing, whatever the prices and the style in    *)
(* which the shop writes them (parsePrice, verifyFresh, repairLive).        *)
THEOREM QuietShopsSucceed == Spec => []QuietShopSucceeds
  <1>1. ReplayInv => QuietShopSucceeds
    BY DEF ReplayInv
  <1>2. QED
    BY <1>1, ReplayInvariant, PTL
===============================================================================
