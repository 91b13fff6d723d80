------------------------------ MODULE Rounding ------------------------------
(* Sums, averages and percentages as the program rounds them.               *)
EXTENDS Integers, Sequences

(* Python's round(a / b): to the nearest, halves to the even.               *)
Round(a, b) ==
    LET q == a \div b
        twice == 2 * (a % b)
    IN  IF twice < b \/ (twice = b /\ q % 2 = 0) THEN q ELSE q + 1

(* Python's sum of a list of numbers.                                      *)
Total(s) ==
    LET upTo[n \in 0..Len(s)] == IF n = 0 THEN 0 ELSE upTo[n - 1] + s[n]
    IN  upTo[Len(s)]

Pct(a, b) == Round(100 * a, b)
=============================================================================
