------------------------------- MODULE LsdSort -------------------------------
(***************************************************************************)
(* What the parallel radix sort promises: one array that is sorted stably  *)
(* by one digit after the other, the least significant first.              *)
(***************************************************************************)
EXTENDS Integers, Sequences, FiniteSets

CONSTANTS Base, Passes, Inputs

VARIABLES whole, pass

\* What a digit counts for.
Weight[k \in 0 .. Passes] == IF k = 0 THEN 1 ELSE Base * Weight[k - 1]

Digit(v, k) == (v \div Weight[k]) % Base

\* The elements with digit 0, then those with 1, and so on, each as they were: an
\* element stands behind as many as come before it.
StableByDigit(s, k) ==
    LET Before(i, j) == \/ Digit(s[i], k) < Digit(s[j], k)
                        \/ Digit(s[i], k) = Digit(s[j], k) /\ i < j
    IN  [m \in DOMAIN s |->
            s[CHOOSE i \in DOMAIN s : Cardinality({j \in DOMAIN s : Before(j, i)}) = m - 1]]

Init == whole \in Inputs /\ pass = 0

SortByDigit ==
    /\ pass < Passes
    /\ whole' = StableByDigit(whole, pass)
    /\ pass' = pass + 1

Spec == Init /\ [][SortByDigit]_<<whole, pass>>
=============================================================================
