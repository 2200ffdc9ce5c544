------------------------------ MODULE Statistics ------------------------------
(***************************************************************************)
(* Statistics in common/src/lib.rs: mean, variance, minimum and maximum,   *)
(* updated sample by sample.  A float is an exact rational here, a pair of *)
(* numerator and denominator, or NaN; rounding is left out.                *)
(***************************************************************************)
EXTENDS Integers, Sequences

NaN == << 0, 0 >>

Whole(n) == << n, 1 >>
Plus(a, b) == << a[1] * b[2] + b[1] * a[2], a[2] * b[2] >>
Minus(a, b) == << a[1] * b[2] - b[1] * a[2], a[2] * b[2] >>
Times(a, b) == << a[1] * b[1], a[2] * b[2] >>
Over(a, n) == << a[1], a[2] * n >>

\* Two rationals are the same number; NaN is the same as nothing else.
Same(a, b) == (a[2] = 0 <=> b[2] = 0) /\ a[1] * b[2] = b[1] * a[2]

\* No sample yet.
New == [samples |-> 0, mean |-> NaN, variance |-> NaN, min |-> NaN, max |-> NaN]

First(v) == [samples |-> 1, mean |-> Whole(v), variance |-> Whole(0),
             min |-> Whole(v), max |-> Whole(v)]

Smaller(a, v) == IF v * a[2] < a[1] THEN Whole(v) ELSE a
Larger(a, v) == IF v * a[2] > a[1] THEN Whole(v) ELSE a

\* Mutant: both factors are taken from the new mean.
UpdateNewMeanOnly(st, v) ==
    IF st.samples = 0 THEN First(v)
    ELSE LET n == st.samples + 1
             mean == Plus(st.mean, Over(Minus(Whole(v), st.mean), n))
             off == Minus(Whole(v), mean)
         IN  [samples |-> n, mean |-> mean,
              variance |-> Plus(st.variance, Times(off, off)),
              min |-> Smaller(st.min, v), max |-> Larger(st.max, v)]

\* A further sample.  The field variance is the sum of squared deviations.
Update(st, v) ==
    IF st.samples = 0 THEN First(v)
    ELSE LET n == st.samples + 1
             mean == Plus(st.mean, Over(Minus(Whole(v), st.mean), n))
         IN  [samples |-> n, mean |-> mean,
              variance |-> Plus(st.variance,
                                Times(Minus(Whole(v), st.mean),
                                      Minus(Whole(v), mean))),
              min |-> Smaller(st.min, v), max |-> Larger(st.max, v)]

\* The getter variance() divides by the number of samples.
Variance(st) == Over(st.variance, st.samples)

-----------------------------------------------------------------------------
(* The definitions, over the sequence of all samples. *)

\* The sum of the elements of s, from its first to its last.
Sum(s) ==
    LET sum[n \in 0 .. Len(s)] == IF n = 0 THEN 0 ELSE sum[n - 1] + s[n]
    IN  sum[Len(s)]

Total(s) == Sum(s)
SquareTotal(s) == Sum([i \in DOMAIN s |-> s[i] * s[i]])

\* st is what mean, variance, minimum and maximum of the samples s are.
Describes(st, s) ==
    /\ st.samples = Len(s)
    /\ IF s = << >>
       THEN st = New
       ELSE /\ Same(st.mean, << Total(s), Len(s) >>)
            /\ Same(Variance(st),
                    << Len(s) * SquareTotal(s) - Total(s) * Total(s),
                       Len(s) * Len(s) >>)
            /\ \E i \in DOMAIN s : Same(st.min, Whole(s[i]))
            /\ \E i \in DOMAIN s : Same(st.max, Whole(s[i]))
            /\ \A i \in DOMAIN s : /\ st.min[1] <= s[i] * st.min[2]
                                   /\ s[i] * st.max[2] <= st.max[1]
=============================================================================
