----------------------------- MODULE Percentile ------------------------------
(***************************************************************************)
(* The latency histogram of utils/percentile.c: buckets whose bounds grow  *)
(* by the square root of two, filled by the receiver thread and read for   *)
(* the report.                                                             *)
(*                                                                         *)
(* A latency is a whole number of microseconds, so that the bucket, which  *)
(* the code computes with log in floating point, has an exact definition   *)
(* with squares.  Bounds and percentiles are in thousandths; a fraction    *)
(* (the argument of get_percentile) is a pair <<numerator, denominator>>.  *)
(***************************************************************************)
EXTENDS Integers, FiniteSetsExt, Functions

CONSTANTS
  MaxLatency,                \* MAX_EXPECTED_LATENCY
  Latencies,                 \* the latencies that are measured
  Fractions,                 \* the percentiles of the report
  MaxValues                  \* bound: latencies recorded in a run

ASSUME PercentileAssumption ==
  /\ MaxLatency \in Nat \ {0, 1}
  /\ Latencies \subseteq Nat /\ IsFiniteSet(Latencies)    \* of a float
  /\ Fractions \subseteq Nat \X Nat
  /\ \A y \in Fractions : y[1] > 0 /\ y[1] < y[2]
  /\ MaxValues \in Nat

Pow2[i \in Nat] == IF i = 0 THEN 1 ELSE 2 * Pow2[i - 1]

\* (int)(log(v) * inv_log_r2): twice the logarithm to the base 2, rounded down
LogIndex(v) == CHOOSE i \in 0..(2 * v) : Pow2[i] <= v * v /\ v * v < Pow2[i + 1]

\* new_p_hist_from_max_value
count_bucket == LogIndex(MaxLatency) + 1
BucketIds == 0..(count_bucket - 1)

\* max_value is a float, below 2^128, so that there are at most 257 buckets
ASSUME BucketsAssumption == count_bucket <= 5000

VARIABLES
  buckets, count_values,
  recorded                   \* how often each latency was recorded

histVars == <<buckets, count_values, recorded>>

HistInit ==
  /\ buckets = [i \in BucketIds |-> 0]
  /\ count_values = 0
  /\ recorded = [v \in Latencies |-> 0]

\* value < r2 goes to the first bucket, everything too large to the last one
Index(v) == IF v < 2 THEN 0 ELSE Min({LogIndex(v), count_bucket - 1})

AddNumber(v) ==
  /\ count_values < MaxValues
  /\ buckets' = [buckets EXCEPT ![Index(v)] = @ + 1]
  /\ count_values' = count_values + 1
  /\ recorded' = [recorded EXCEPT ![v] = @ + 1]

HistNext == \E v \in Latencies : AddNumber(v)

HistSpec == HistInit /\ [][HistNext]_histVars

-----------------------------------------------------------------------------
(* get_percentile                                                           *)

\* tmp after bucket i, and y1 >= y in whole numbers
Cumulative(i) == SumFunction([j \in BucketIds |-> IF j <= i THEN buckets[j] ELSE 0])
ReachesStrictly(i, y) == Cumulative(i) * y[2] > y[1] * count_values
Reaches(i, y) == Cumulative(i) * y[2] >= y[1] * count_values

\* where the loop breaks
Stop(y) == Min({i \in BucketIds : Reaches(i, y)})

\* pow(r2, i) with r2 = 1.4142, in thousandths
Bound[i \in 0..count_bucket] ==
  IF i = 0 THEN 1000 ELSE (Bound[i - 1] * 14142) \div 10000

LowerOneDown(i) == IF i = 0 THEN 0 ELSE Bound[i - 1]
Lower(i) == IF i = 0 THEN 0 ELSE Bound[i]
Upper(i) == Min({Bound[i + 1], count_values * 1000})

\* linear interpolation between y0, the share below the bucket, and y1
get_percentile(y) ==
  LET i  == Stop(y)
      below  == IF i = 0 THEN 0 ELSE Cumulative(i - 1)
  IN Lower(i) + ((Upper(i) - Lower(i)) * (y[1] * count_values - below * y[2]))
                  \div (y[2] * buckets[i])

-----------------------------------------------------------------------------
(* Properties                                                               *)

\* Reference: the smallest latency such that the fraction y of all latencies
\* recorded is not larger.
NotLarger(v) ==
  SumFunction([u \in Latencies |-> IF u <= v THEN recorded[u] ELSE 0])
Sample(y) ==
  Min({v \in Latencies : NotLarger(v) * y[2] >= y[1] * count_values})

\* get_percentile stops at the bucket of the sample it is asked for, although
\* it knows only how many latencies are in each bucket.
RightBucket ==
  count_values > 0 => \A y \in Fractions : Stop(y) = Index(Sample(y))

\* The percentile reported is the sample up to a factor of 3/2 (a bucket is a
\* factor of 1.414 wide), unless the sample is beyond the last bucket, below
\* 2 us, or so few latencies were recorded that the bound of the bucket is cut
\* off at their number.
PercentileNear ==
  \A y \in Fractions :
    count_values > 0 =>
      LET v == Sample(y)
          p == get_percentile(y)
      IN \/ v < 2 \/ v > MaxLatency
         \/ Bound[Stop(y) + 1] > count_values * 1000
         \/ 2 * p <= 3 * 1000 * v /\ 2 * 1000 * v <= 3 * p
==============================================================================
