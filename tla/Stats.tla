---------------------------------- MODULE Stats ----------------------------------
(***************************************************************************)
(* packages/core/src/stats.ts on whole numbers: a mean is a sum and a      *)
(* count, a half is a numerator, so that nothing is rounded twice.         *)
(***************************************************************************)
EXTENDS Integers, Sequences, FiniteSets, SequencesExt, FiniteSetsExt, Functions

Abs(n) == IF n < 0 THEN -n ELSE n

\* roundMoneyCents of n/d, half up, for n >= 0.
Rounded(n, d) == (2 * n + d) \div (2 * d)

SumSeq(s) ==
  LET sum[i \in 0..Len(s)] == IF i = 0 THEN 0 ELSE sum[i - 1] + s[i]
  IN sum[Len(s)]

\* The k-th smallest value.
Ranked(s, k) ==
  CHOOSE v \in Range(s) : /\ Cardinality({i \in DOMAIN s : s[i] < v}) < k
                          /\ k <= Cardinality({i \in DOMAIN s : s[i] <= v})

\* Twice the median, which is whole.
TwiceMedian(s) ==
  LET mid == Len(s) \div 2
  IN IF Len(s) % 2 = 1 THEN 2 * Ranked(s, mid + 1) ELSE Ranked(s, mid) + Ranked(s, mid + 1)

\* n^2 times the population variance of n values.
Spread(s) == Len(s) * SumSeq([i \in DOMAIN s |-> s[i] * s[i]]) - SumSeq(s) * SumSeq(s)

\* The most frequent value, the smallest of them.
Mode(s) ==
  LET count(v) == Cardinality({i \in DOMAIN s : s[i] = v})
  IN Min({v \in Range(s) : \A w \in Range(s) : count(w) <= count(v)})
================================================================================
