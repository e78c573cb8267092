-------------------------- MODULE StreamingStatistics --------------------------
(***************************************************************************)
(* The diagnostics of one activation point: every graph stage that runs    *)
(* the module keeps fixed-memory statistics of the tensors it saw, and a   *)
(* snapshot merges the stages.  Means and squared deviations are carried   *)
(* as exact fractions <<n, d>>; a magnitude's histogram bin is its power   *)
(* of two, the bins above the last one clamped into it.                    *)
(***************************************************************************)
EXTENDS Integers, Sequences, FiniteSets

CONSTANTS
  Stages,      \* graph stages that run the module
  Tensors,     \* what a call may show: sequences of numbers and NaN
  Clipping,    \* fixed clipping range, or NoRange
  LastBin,     \* magnitudes of 2^(LastBin + 1) and above are clamped
  MaxUpdates   \* bound: tensors seen

NaN == 1000
NoRange == -1

VARIABLES
  statistics, \* of every stage that has run
  order,      \* the stages in the order they first ran
  seen        \* the tensors every stage was shown

vars == <<statistics, order, seen>>

-----------------------------------------------------------------------------
Low(a, b) == IF a < b THEN a ELSE b
High(a, b) == IF a < b THEN b ELSE a
Magnitude(x) == IF x < 0 THEN 0 - x ELSE x
Least(S) == CHOOSE x \in S : \A y \in S : x <= y
Most(S) == CHOOSE x \in S : \A y \in S : x >= y

RECURSIVE Gcd(_, _)
Gcd(a, b) == IF b = 0 THEN a ELSE Gcd(b, a % b)
Fraction(n, d) ==
  LET g == High(1, Gcd(Magnitude(n), d)) IN <<n \div g, d \div g>>
Plus(a, b) == Fraction(a[1] * b[2] + b[1] * a[2], a[2] * b[2])
Minus(a, b) == Plus(a, <<0 - b[1], b[2]>>)
Times(a, b) == Fraction(a[1] * b[1], a[2] * b[2])

SumOf(s, f(_)) ==
  LET sum[k \in 0 .. Len(s)] == IF k = 0 THEN 0 ELSE sum[k - 1] + f(s[k])
  IN sum[Len(s)]
Count(s, p(_)) == Len(SelectSeq(s, p))
ValuesIn(s) == {s[k] : k \in DOMAIN s}

\* Mean and squared deviations of a sequence, by definition.
MeanOf(s) == Fraction(SumOf(s, LAMBDA x : x), Len(s))
DeviationsOf(s) ==
  Minus(<<SumOf(s, LAMBDA x : x * x), 1>>,
        Times(MeanOf(s), <<SumOf(s, LAMBDA x : x), 1>>))

BinOf(m) == CHOOSE b \in 0 .. LastBin :
  (2 ^ b <= m /\ m < 2 ^ (b + 1)) \/ (b = LastBin /\ m >= 2 ^ b)

-----------------------------------------------------------------------------
Empty == [executions |-> 0, observed |-> 0, finite |-> 0, nonfinite |-> 0,
          minimum |-> 0, maximum |-> 0, absmax |-> 0, hits |-> 0,
          mean |-> <<0, 1>>, m2 |-> <<0, 1>>, zeros |-> 0,
          histogram |-> [b \in 0 .. LastBin |-> 0],
          range |-> NoRange, clipped |-> 0]

\* Elements that equal the absolute maximum of two streams.
Hits(a, b) ==
  IF a.absmax = b.absmax THEN a.hits + b.hits
  ELSE IF a.absmax > b.absmax THEN a.hits ELSE b.hits

\* Mutant: the deviation between the two means is left out.
CombinedDeviationsWithin(a, b) == Plus(a.m2, b.m2)

\* Chan's update of the squared deviations.
CombinedDeviations(a, b) ==
  LET delta == Minus(b.mean, a.mean) IN
  Plus(Plus(a.m2, b.m2),
       Times(Times(delta, delta),
             Fraction(a.finite * b.finite, a.finite + b.finite)))

\* The numbers of two non-empty streams as those of one.
Combined(a, b) ==
  [a EXCEPT
    !.finite = a.finite + b.finite,
    !.minimum = Low(@, b.minimum), !.maximum = High(@, b.maximum),
    !.absmax = High(@, b.absmax), !.hits = Hits(a, b),
    !.mean = Plus(@, Times(Minus(b.mean, @),
                           Fraction(b.finite, a.finite + b.finite))),
    !.m2 = CombinedDeviations(a, b),
    !.zeros = @ + b.zeros,
    !.histogram = [i \in DOMAIN @ |-> @[i] + b.histogram[i]]]

Histogram(magnitudes) ==
  [b \in 0 .. LastBin |-> Count(magnitudes, LAMBDA v : v > 0 /\ BinOf(v) = b)]

\* The statistics of the finite elements of one tensor.
Batch(finite) ==
  LET magnitudes == [k \in DOMAIN finite |-> Magnitude(finite[k])]
      top == Most(ValuesIn(magnitudes))
  IN [Empty EXCEPT
       !.finite = Len(finite),
       !.minimum = Least(ValuesIn(finite)), !.maximum = Most(ValuesIn(finite)),
       !.absmax = top, !.hits = Count(magnitudes, LAMBDA v : v = top),
       !.mean = MeanOf(finite), !.m2 = DeviationsOf(finite),
       !.zeros = Count(magnitudes, LAMBDA v : v = 0),
       !.histogram = Histogram(magnitudes)]

\* record_execution and update.
Update(state, tensor) ==
  LET finite == SelectSeq(tensor, LAMBDA x : x # NaN)
      counted == [state EXCEPT
        !.executions = @ + 1, !.observed = @ + Len(tensor),
        !.nonfinite = @ + Len(tensor) - Len(finite)]
      clip(s) == IF Clipping = NoRange THEN s
        ELSE [s EXCEPT !.range = Clipping,
               !.clipped = @ + Count(finite, LAMBDA x : Magnitude(x) > Clipping)]
      numbers(s) == IF s.finite = 0
        THEN [Batch(finite) EXCEPT !.executions = s.executions,
               !.observed = s.observed, !.nonfinite = s.nonfinite]
        ELSE Combined(s, Batch(finite))
  IN IF finite = <<>> THEN counted ELSE clip(numbers(counted))

Merge(state, other) ==
  LET counted == [state EXCEPT
        !.executions = @ + other.executions, !.observed = @ + other.observed,
        !.nonfinite = @ + other.nonfinite]
  IN IF other.finite = 0 THEN counted
     ELSE IF state.finite = 0
     THEN [other EXCEPT !.executions = counted.executions,
            !.observed = counted.observed, !.nonfinite = counted.nonfinite]
     ELSE [Combined(counted, other) EXCEPT
            !.range = IF @ = NoRange THEN other.range ELSE @,
            !.clipped = @ + other.clipped]

\* _aggregate
Aggregate ==
  LET merged[k \in 0 .. Len(order)] ==
        IF k = 0 THEN Empty ELSE Merge(merged[k - 1], statistics[order[k]])
  IN merged[Len(order)]

\* The upper edge of a bin.
BinEdge(b) == 2 ^ (b + 1)

\* approximate_abs_quantile, of percent hundredths.
Quantile(s, percent) ==
  LET rank == High(1, (percent * s.finite + 99) \div 100)
      upTo[b \in -1 .. LastBin] ==
        IF b = -1 THEN s.zeros ELSE upTo[b - 1] + s.histogram[b]
  IN IF rank <= s.zeros THEN 0
     ELSE Low(BinEdge(Least({b \in 0 .. LastBin : upTo[b] >= rank})), s.absmax)

-----------------------------------------------------------------------------
Init == statistics = <<>> /\ order = <<>> /\ seen = <<>>

Updates == SumOf(order, LAMBDA stage : Len(seen[stage]))

\* The tracker's hook: a stage gets its statistics when it first runs.
Show(stage, tensor) ==
  /\ Updates < MaxUpdates
  /\ LET known == stage \in DOMAIN statistics
         state == IF known THEN statistics[stage] ELSE Empty
     IN /\ order' = IF known THEN order ELSE Append(order, stage)
        /\ statistics' = [s \in DOMAIN statistics \cup {stage} |->
             IF s = stage THEN Update(state, tensor) ELSE statistics[s]]
        /\ seen' = [s \in DOMAIN seen \cup {stage} |->
             IF s # stage THEN seen[s]
             ELSE IF known THEN Append(seen[s], tensor) ELSE <<tensor>>]

Next == \E stage \in Stages, tensor \in Tensors : Show(stage, tensor)

Spec == Init /\ [][Next]_vars

-----------------------------------------------------------------------------
Joined(tensors) ==
  LET upTo[k \in 0 .. Len(tensors)] ==
        IF k = 0 THEN <<>> ELSE upTo[k - 1] \o tensors[k]
  IN upTo[Len(tensors)]

Everything == Joined([k \in DOMAIN order |-> Joined(seen[order[k]])])
FiniteSeen == SelectSeq(Everything, LAMBDA x : x # NaN)
MagnitudesSeen == [k \in DOMAIN FiniteSeen |-> Magnitude(FiniteSeen[k])]

(* Statistics exist for the stages that ran, and their counts add up.        *)
TypeOK ==
  /\ DOMAIN statistics = DOMAIN seen /\ ValuesIn(order) = DOMAIN seen
  /\ DOMAIN seen \subseteq Stages
  /\ \A stage \in DOMAIN statistics :
       LET s == statistics[stage] IN
       /\ s.finite + s.nonfinite = s.observed
       /\ s.zeros + SumOf([b \in 1 .. LastBin + 1 |-> b - 1],
                          LAMBDA b : s.histogram[b]) = s.finite
       /\ s.hits <= s.finite /\ s.m2[1] >= 0

(* However the tensors were spread over the stages, and in whatever order,   *)
(* the merged statistics are those of all elements taken together.           *)
AggregateIsWhole ==
  LET s == Aggregate IN
  /\ s.executions = Updates
  /\ s.observed = Len(Everything)
  /\ s.finite = Len(FiniteSeen)
  /\ s.nonfinite = Len(Everything) - Len(FiniteSeen)
  /\ FiniteSeen # <<>> =>
       /\ s.minimum = Least(ValuesIn(FiniteSeen))
       /\ s.maximum = Most(ValuesIn(FiniteSeen))
       /\ s.absmax = Most(ValuesIn(MagnitudesSeen))
       /\ s.hits = Count(MagnitudesSeen, LAMBDA v : v = s.absmax)
       /\ s.zeros = Count(MagnitudesSeen, LAMBDA v : v = 0)
       /\ s.mean = MeanOf(FiniteSeen)
       /\ s.m2 = DeviationsOf(FiniteSeen)
       /\ Clipping # NoRange =>
            s.clipped = Count(MagnitudesSeen, LAMBDA v : v > Clipping)

(* The estimated percentile is never below the true one, nor above the       *)
(* maximum, as long as no magnitude lies beyond the histogram.               *)
QuantileBounds ==
  LET s == Aggregate
      rank(percent) == High(1, (percent * s.finite + 99) \div 100)
      true(percent) == Least({v \in ValuesIn(MagnitudesSeen) :
        Count(MagnitudesSeen, LAMBDA w : w <= v) >= rank(percent)})
  IN s.finite > 0 /\ s.absmax < BinEdge(LastBin) =>
       \A percent \in {50, 75, 99} :
         /\ true(percent) <= Quantile(s, percent)
         /\ Quantile(s, percent) <= s.absmax

(* The diagnostics can be read as those of one stream.                       *)
DiagnosticsSound == TypeOK /\ AggregateIsWhole /\ QuantileBounds
=============================================================================
