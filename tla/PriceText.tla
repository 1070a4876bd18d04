------------------------------- MODULE PriceText -------------------------------
(***************************************************************************)
(* Price texts and how the worker reads them: parsePrice in                 *)
(* worker/src/validation.ts, and the conversion it has to undo, the money   *)
(* formats of retailers (Intl.NumberFormat and toFixed in                   *)
(* fixture/src/server.ts).                                                  *)
(*                                                                          *)
(* A numeral is a sequence of runs of digits with separators in between, a  *)
(* text the numerals in it, the currencies it names and whether it has a    *)
(* word such as "from" or "monthly".  Amounts are in minor units.           *)
(***************************************************************************)
EXTENDS Integers, Sequences, FiniteSets, SequencesExt

Run(val, len) == [val |-> val, len |-> len]

(* Powers of ten: Tens[k] = 10^k. *)
Tens == <<10, 100, 1000, 10000, 100000, 1000000, 10000000, 100000000>>

Digits(n) == CHOOSE k \in DOMAIN Tens : n < Tens[k] /\ (k > 1 => n >= Tens[k - 1])

Groups(units) ==
    IF units < 1000 THEN <<Run(units, Digits(units))>>
    ELSE IF units < 1000000
    THEN <<Run(units \div 1000, Digits(units \div 1000)), Run(units % 1000, 3)>>
    ELSE <<Run(units \div 1000000, Digits(units \div 1000000)),
           Run((units \div 1000) % 1000, 3), Run(units % 1000, 3)>>

(* A style names the separators of thousands, if any, and of cents, whether *)
(* cents that are zero are left out, and what else the element that holds   *)
(* the price says: nothing, the former price, or "from".                     *)
Numeral(minor, style) ==
    LET units == minor \div 100
        whole == IF style.group = "none" THEN <<Run(units, Digits(units))>> ELSE Groups(units)
        cents == ~(style.short /\ minor % 100 = 0)
        runs == IF cents THEN Append(whole, Run(minor % 100, 2)) ELSE whole
    IN [runs |-> runs,
        seps |-> [i \in 1..(Len(runs) - 1) |->
                    IF i = Len(whole) THEN style.point ELSE style.group]]

money(minor, style) ==
    [numerals |-> IF style.note = "was"
                  THEN <<Numeral(minor + 1000, style), Numeral(minor, style)>>
                  ELSE <<Numeral(minor, style)>>,
     currencies |-> {"USD"}, qualified |-> style.note = "from"]

-------------------------------------------------------------------------------
Points == {"comma", "dot"}

(* Faulty variant: groups after spaces are taken for further prices. *)
OneMatchWithoutSpaces(n) ==
    LET k == Len(n.runs) IN
    \A i \in DOMAIN n.seps : n.seps[i] \in Points /\ (i < k - 1 => n.runs[i + 1].len = 3)

(* The numeral is one match of the expression, and not several: groups of   *)
(* three digits after spaces, or after commas and dots, or one run, and at  *)
(* most two digits behind a last comma or dot.                              *)
OneMatch(n) ==
    LET k == Len(n.runs)
        Decimals == k > 1 /\ n.seps[k - 1] \in Points /\ n.runs[k].len <= 2
        Grouped(S, j) ==
            j > 1 /\ n.runs[1].len <= 3
              /\ \A i \in 2..j : n.runs[i].len = 3 /\ n.seps[i - 1] \in S
        Whole(j) == j = 1 \/ Grouped({"space"}, j) \/ Grouped(Points, j)
    IN Whole(k) \/ (Decimals /\ Whole(k - 1))

(* The number that the digits of the first k runs make. *)
Joined(runs, k) ==
    LET value[i \in 0..k] ==
          IF i = 0 THEN 0 ELSE value[i - 1] * Tens[runs[i].len] + runs[i].val
    IN value[k]

(* Math.round(value * 100) of a fraction. *)
Hundredths(r) ==
    CASE r.len = 1 -> r.val * 10
      [] r.len = 2 -> r.val
      [] r.len = 3 -> (r.val + 5) \div 10

Refused == 0

(* Whether the last run is a fraction: always when commas and dots are      *)
(* mixed, otherwise unless it has three digits.                             *)
Fractional(n) ==
    LET Used == {n.seps[i] : i \in DOMAIN n.seps} \cap Points
    IN Used = Points \/ (Used # {} /\ Last(n.runs).len # 3)

(* With commas and dots mixed, the kind that comes last may occur once.     *)
Malformed(n) ==
    /\ Points \subseteq {n.seps[i] : i \in DOMAIN n.seps}
    /\ \E i \in 1..(Len(n.seps) - 1) : n.seps[i] = Last(n.seps)

(* parsePrice: the amount, or Refused for a ValidationError. *)
parsePrice(text) ==
    LET n == Head(text.numerals) IN
    IF \/ text.qualified
       \/ Cardinality(text.currencies) > 1
       \/ Len(text.numerals) # 1
       \/ ~OneMatch(n) \/ Malformed(n)
    THEN Refused
    ELSE IF Fractional(n)
    THEN Joined(n.runs, Len(n.runs) - 1) * 100 + Hundredths(Last(n.runs))
    ELSE Joined(n.runs, Len(n.runs)) * 100
===============================================================================
