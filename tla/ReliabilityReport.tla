-------------------------- MODULE ReliabilityReport --------------------------
(***************************************************************************)
(* The report about a reliability run: src/reliabilitySummaryUtils.ts,     *)
(* src/reliabilityArtifact.ts and the verdicts of src/reliabilityHttp.ts.  *)
(* Results are [operation, ok, latency] by their numbers; ratios are pairs *)
(* <<a, b>> that stand for a / b and are compared by cross-multiplication, *)
(* thresholds are in percent and milliseconds.                             *)
(***************************************************************************)
EXTENDS Integers, FiniteSets, FiniteSetsExt

\* ReliabilityProbeResult[]
IsResults(results) ==
  /\ IsFiniteSet(DOMAIN results)
  /\ \A i \in DOMAIN results : results[i].ok \in BOOLEAN /\ results[i].latency \in Nat

\* Faulty variant: operations that failed count as taking no time.
OkLatencies(results) ==
  [i \in DOMAIN results |-> IF results[i].ok THEN results[i].latency ELSE 0]

Latencies(results) == [i \in DOMAIN results |-> results[i].latency]

\* Faulty variant: nothing is sorted.
AsMeasured(values, index) ==
  values[CHOOSE i \in DOMAIN values : Cardinality({j \in DOMAIN values : j < i}) = index]

\* sorted[index], counted from zero
InOrder(values, index) ==
  CHOOSE v \in {values[i] : i \in DOMAIN values} :
    /\ Cardinality({i \in DOMAIN values : values[i] < v}) <= index
    /\ index < Cardinality({i \in DOMAIN values : values[i] <= v})

Count(values) == Cardinality(DOMAIN values)

AtLeast(n, least) == IF n < least THEN least ELSE n

\* Faulty variant: the index is rounded down.
PercentileDown(values, percent) ==
  IF DOMAIN values = {} THEN 0
  ELSE InOrder(values, AtLeast((Count(values) * percent) \div 100 - 1, 0))

\* percentile
Percentile(values, percent) ==
  IF DOMAIN values = {} THEN 0
  ELSE InOrder(values, AtLeast((Count(values) * percent + 99) \div 100 - 1, 0))

SumOf(values) == MapThenSumSet(LAMBDA i : values[i], DOMAIN values)

\* summarizeOperation, and the same figures of summarizeReliabilityResults
Summary(results) ==
  LET values == Latencies(results)
      set    == {values[i] : i \in DOMAIN values}
  IN [attempts |-> Count(results),
      failed   |-> Cardinality({i \in DOMAIN results : ~results[i].ok}),
      min      |-> IF DOMAIN results = {} THEN 0 ELSE Min(set),
      max      |-> IF DOMAIN results = {} THEN 0 ELSE Max(set),
      total    |-> SumOf(values),
      p50      |-> Percentile(values, 50),
      p95      |-> Percentile(values, 95),
      p99      |-> Percentile(values, 99)]

OfOperation(results, operation) ==
  [i \in {j \in DOMAIN results : results[j].operation = operation} |-> results[i]]

\* summarizeReliabilityOperations
Operations(results) ==
  [o \in {results[i].operation : i \in DOMAIN results} |-> Summary(OfOperation(results, o))]

\* createFailureGroups; messages are left out.
FailureGroups(results) ==
  [o \in {results[i].operation : i \in {j \in DOMAIN results : ~results[j].ok}} |->
     Cardinality({i \in DOMAIN results : ~results[i].ok /\ results[i].operation = o})]

\* The rate of errors as a ratio; no attempts make no errors.
ErrorRate(results) ==
  LET s == Summary(results)
  IN IF s.attempts = 0 THEN <<0, 1>> ELSE <<s.failed, s.attempts>>

RateAtMost(rate, percent) == 100 * rate[1] <= percent * rate[2]

\* createReliabilityArtifact with the thresholds of the smoke profile; the rate may
\* be given on the command line.
SmokeThresholds == [errorPercent |-> 0, p95 |-> 250, p99 |-> 500]

ArtifactPasses(results, errorPercent) ==
  LET s == Summary(results) IN
  /\ RateAtMost(ErrorRate(results), errorPercent)
  /\ s.p95 <= SmokeThresholds.p95
  /\ s.p99 <= SmokeThresholds.p99

Tolerances == [errorPercent |-> 5, p95 |-> 250, p99 |-> 250]

RequiredReductionPercent == 20

\* compareReliabilityArtifacts: the operations of the current run have to be faster
\* on average by a fifth (getRequiredLatencyReductions).
Improved(baseline, current) ==
  LET before == Operations(baseline)
      after  == Operations(current)
  IN \A o \in DOMAIN after :
       /\ o \in DOMAIN before
       /\ before[o].total > 0
       /\ 100 * after[o].total * before[o].attempts
            <= (100 - RequiredReductionPercent) * before[o].total * after[o].attempts

\* The increase of the error rate is within its tolerance.
NoMoreErrors(baseline, current) ==
  LET b == ErrorRate(baseline)
      c == ErrorRate(current)
  IN 100 * (c[1] * b[2] - b[1] * c[2]) <= Tolerances.errorPercent * b[2] * c[2]

ComparisonPasses(baseline, current) ==
  LET b == Summary(baseline)
      c == Summary(current)
  IN /\ NoMoreErrors(baseline, current)
     /\ c.p95 - b.p95 <= Tolerances.p95
     /\ c.p99 - b.p99 <= Tolerances.p99
     /\ Improved(baseline, current)

\* executeReliabilityHttpCli: baseline are other results, or NoBaseline.
ExitCode(results, errorPercent, baseline, NoBaseline) ==
  IF /\ ArtifactPasses(results, errorPercent)
     /\ baseline = NoBaseline \/ ComparisonPasses(baseline, results)
  THEN 0 ELSE 1
=============================================================================
