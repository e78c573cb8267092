--------------------------- MODULE CalibrationProofs ---------------------------
(***************************************************************************)
(* Calibration jobs over any samples, modules, settings and checkpoints,   *)
(* ended at any point and followed by others: the scales that are left are *)
(* those of a whole replay, a job on record as succeeded was audited, and  *)
(* a build restores what its own profile was measured for.  And numerical  *)
(* audits of a model with those scales: what is compared with what.        *)
(*                                                                         *)
(* The invariant of a job follows a replay sample by sample: what every    *)
(* tracked module holds is the peak of what it was shown so far, and a     *)
(* snapshot keeps the peak of the samples before it.  It then follows the  *)
(* files the run puts in place one after the other, and says of the scales *)
(* on disk that they are of one whole replay, by whichever run.  That of   *)
(* an audit says who has the model, which passes follow each other, and of *)
(* which pass each reference, boundary and row is.                         *)
(***************************************************************************)
EXTENDS Calibration, AuditSession, TLAPS, WellFoundedInduction, FiniteSetTheorems

\* A set of numbers has a least one.
LEMMA LeastNatural ==
  ASSUME NEW T \in SUBSET Nat, T # {}
  PROVE  \E x \in T : \A y \in T : x <= y
  <1> DEFINE R == OpToRel(<, Nat)
  <1>1. \A x, y \in Nat : <<y, x>> \in R <=> y < x
    BY DEF OpToRel
  <1>2. IsWellFoundedOn(R, Nat)
    BY NatLessThanWellFounded
  <1> HIDE DEF R
  <1>3. PICK x \in T : \A y \in T : ~ (<<y, x>> \in R)
    BY <1>2, WFMin
  <1>4. \A y \in T : ~(y < x)
    BY <1>1, <1>3
  <1>5. \A y \in T : x <= y
    BY <1>4, SMT
  <1> QED BY <1>5

\* Induction, over a set of numbers.
LEMMA Induction ==
  ASSUME NEW N \in Nat, NEW P, 0 \in P, \A i \in 1 .. N : i - 1 \in P => i \in P
  PROVE  \A i \in 0 .. N : i \in P
  <1> DEFINE T == {n \in 0 .. N : n \notin P}
  <1>1. SUFFICES ASSUME T # {} PROVE FALSE
    OBVIOUS
  <1>2. T \in SUBSET Nat
    OBVIOUS
  <1>3. PICK t \in T : \A y \in T : t <= y
    <2> HIDE DEF T
    <2> QED BY <1>1, <1>2, LeastNatural
  <1>4. t \in 0 .. N /\ t \notin P
    BY <1>3
  <1>5. t # 0
    BY <1>4
  <1>6. t \in 1 .. N /\ t - 1 \in 0 .. N /\ ~(t <= t - 1)
    BY <1>4, <1>5
  <1>7. t - 1 \in P
    BY <1>3, <1>6
  <1> QED BY <1>4, <1>6, <1>7

\* A value can be stepped on a given number of times.
LEMMA Iterates ==
  ASSUME NEW S, NEW base \in S, NEW N \in Nat, NEW step \in [1 .. N -> [S -> S]]
  PROVE  \E f \in [0 .. N -> S] :
           /\ f[0] = base
           /\ \A i \in 1 .. N : f[i] = step[i][f[i - 1]]
  <1> DEFINE Ok(n, f) == f[0] = base /\ \A i \in 1 .. n : f[i] = step[i][f[i - 1]]
             P == {n \in 0 .. N : \E f \in [0 .. n -> S] : Ok(n, f)}
  <1>1. 0 \in P
    <2> DEFINE f == [i \in 0 .. 0 |-> base]
    <2>1. f \in [0 .. 0 -> S] /\ Ok(0, f) /\ 0 \in 0 .. N
      OBVIOUS
    <2> HIDE DEF Ok, f
    <2> QED BY <2>1
  <1>2. ASSUME NEW t \in 1 .. N, t - 1 \in P PROVE t \in P
    <2>1. PICK f \in [0 .. t - 1 -> S] : Ok(t - 1, f)
      BY <1>2
    <2> DEFINE g == [i \in 0 .. t |-> IF i = t THEN step[t][f[t - 1]] ELSE f[i]]
    <2>2. f[t - 1] \in S /\ step[t] \in [S -> S]
      OBVIOUS
    <2>3. step[t][f[t - 1]] \in S
      BY <2>2
    <2>4. g \in [0 .. t -> S]
      BY <2>3
    <2>5. \A i \in 0 .. t - 1 : g[i] = f[i]
      OBVIOUS
    <2>6. g[t] = step[t][g[t - 1]]
      BY <2>5
    <2> HIDE DEF g
    <2>7. g[0] = base
      BY <2>1, <2>5
    <2>8. ASSUME NEW i \in 1 .. t PROVE g[i] = step[i][g[i - 1]]
      <3>1. CASE i = t
        BY <2>6, <3>1
      <3>2. CASE i # t
        <4>1. i \in 1 .. t - 1 /\ i \in 0 .. t - 1 /\ i - 1 \in 0 .. t - 1
          BY <3>2
        <4>2. f[i] = step[i][f[i - 1]]
          BY <2>1, <4>1
        <4> QED BY <2>5, <4>1, <4>2
      <3> QED BY <3>1, <3>2
    <2>9. Ok(t, g)
      BY <2>7, <2>8
    <2>10. t \in 0 .. N
      OBVIOUS
    <2> HIDE DEF Ok
    <2> QED BY <2>4, <2>9, <2>10
  <1>3. N \in P
    <2> HIDE DEF P
    <2>1. \A i \in 0 .. N : i \in P
      BY <1>1, <1>2, Induction
    <2> QED BY <2>1
  <1> QED BY <1>3

-----------------------------------------------------------------------------
(* What a tracked module holds when the values of S are what it was shown,   *)
(* and what a snapshot keeps of it.                                          *)
Peaked(p, S, entry) ==
  /\ entry.executed \in BOOLEAN /\ entry.nonfinite \in BOOLEAN
  /\ entry.executed <=> S # {}
  /\ entry.nonfinite <=> \E v \in S : ~Finite(v)
  /\ S # {} => entry.range \in S
  /\ entry.range # NaN => \A v \in S \ {NaN} : v <= entry.range
  /\ NaN \in S /\ p \notin Norms => entry.range = NaN

States == [range : Values, executed : BOOLEAN, nonfinite : BOOLEAN]
Reached(p, S, state) ==
  /\ S = {} => state.range = Unseen
  /\ Peaked(p, S, state)

Measured(p, S, entry) ==
  /\ S = {} => entry.range = IF p \in Norms THEN Unseen ELSE 0
  /\ Peaked(p, S, entry)

-----------------------------------------------------------------------------
LEMMA LargestIs ==
  ASSUME NEW S, S \subseteq Int, NEW m \in S, \A y \in S : m >= y
  PROVE  Largest(S) = m
  <1>1. \A x \in S : (\A y \in S : x >= y) => x = m
    OBVIOUS
  <1> QED BY <1>1 DEF Largest

\* A finite set of numbers has a largest one.
LEMMA FiniteLargest ==
  ASSUME NEW S \in SUBSET Nat, S # {}, IsFiniteSet(S)
  PROVE  Largest(S) \in S /\ \A y \in S : Largest(S) >= y
  <1> DEFINE n == Cardinality(S)
  <1>1. n \in Nat /\ ExistsBijection(1 .. n, S)
    BY FS_CardinalityType
  <1> HIDE DEF n
  <1>2. PICK f \in [1 .. n -> S] : \A y \in S : \E i \in 1 .. n : f[i] = y
    BY <1>1 DEF ExistsBijection, Bijection, Surjection, Injection
  <1> DEFINE HasPeak(i) == i = 0 \/ \E m \in 1 .. i : \A j \in 1 .. i : f[m] >= f[j]
             P == {i \in 0 .. n : HasPeak(i)}
  <1>3. 0 \in P
    BY <1>1
  <1>4. ASSUME NEW i \in 1 .. n, i - 1 \in P PROVE i \in P
    <2>1. i \in 0 .. n /\ f[i] \in Nat /\ \A j \in 1 .. i : j \in 1 .. n /\ f[j] \in Nat
      <3>1. \A j \in 1 .. n : f[j] \in Nat
        BY <1>2
      <3> QED BY <1>1, <3>1
    <2>2. CASE i = 1
      BY <2>1, <2>2
    <2>3. CASE i # 1
      <3>1. i - 1 # 0 /\ HasPeak(i - 1)
        BY <1>4, <2>3
      <3>2. PICK m \in 1 .. i - 1 : \A j \in 1 .. i - 1 : f[m] >= f[j]
        BY <3>1
      <3>3. \A j \in 1 .. i : j \in 1 .. i - 1 \/ j = i
        BY <1>1
      <3>4. m \in 1 .. i /\ i \in 1 .. i /\ f[m] \in Nat
        BY <2>1, <3>2
      <3>5. CASE f[m] >= f[i]
        <4>1. \A j \in 1 .. i : f[m] >= f[j]
          BY <3>2, <3>3, <3>5
        <4> QED BY <2>1, <3>4, <4>1
      <3>6. CASE ~(f[m] >= f[i])
        <4>1. \A j \in 1 .. i : f[i] >= f[j]
          BY <2>1, <3>2, <3>3, <3>4, <3>6
        <4> QED BY <2>1, <3>4, <4>1
      <3> QED BY <3>5, <3>6
    <2> QED BY <2>2, <2>3
  <1>5. n \in P
    <2> HIDE DEF P
    <2>1. \A i \in 0 .. n : i \in P
      BY <1>1, <1>3, <1>4, Induction
    <2> QED BY <1>1, <2>1
  <1>6. n # 0
    <2>1. PICK y \in S : TRUE
      OBVIOUS
    <2> QED BY <1>1, <1>2, <2>1
  <1>7. PICK m \in 1 .. n : \A j \in 1 .. n : f[m] >= f[j]
    BY <1>5, <1>6
  <1>8. f[m] \in S /\ \A y \in S : f[m] >= y
    BY <1>2, <1>7
  <1>9. S \subseteq Int
    OBVIOUS
  <1> QED BY <1>8, <1>9, LargestIs

-----------------------------------------------------------------------------
LEMMA ValuesFacts ==
  /\ Values \subseteq Int /\ Unseen \in Values /\ NaN \in Values /\ Inf \in Values
  /\ \A v \in Values \ {Unseen, NaN} : v >= 0 /\ v <= Inf
  /\ \A v \in Values : Finite(v) <=> v \notin {Unseen, NaN, Inf}
  BY DEF Values, Unseen, NaN, Inf, Finite

\* One more value.
LEMMA ShowReaches ==
  ASSUME NEW p, NEW S \in SUBSET (Values \ {Unseen}), NEW state \in States,
         Reached(p, S, state), NEW v \in Values
  PROVE  /\ Show(p, state, v) \in States
         /\ Reached(p, (S \cup {v}) \ {Unseen}, Show(p, state, v))
  <1>1. CASE v = Unseen
    <2>1. (S \cup {v}) \ {Unseen} = S
      BY <1>1
    <2> QED BY <1>1, <2>1 DEF Show
  <1>2. CASE v # Unseen
    <2> DEFINE T == S \cup {v}
               new == Show(p, state, v)
    <2>1. (S \cup {v}) \ {Unseen} = T
      BY <1>2
    <2>2. state.range \in Values /\ state.nonfinite \in BOOLEAN
      BY DEF States
    <2>3. /\ new.executed = TRUE
          /\ new.nonfinite = (state.nonfinite \/ ~Finite(v))
          /\ new.range = IF p \in Norms THEN NormPeak(state.range, v) ELSE Peak(state.range, v)
          /\ new = [range |-> new.range, executed |-> new.executed, nonfinite |-> new.nonfinite]
      BY <1>2 DEF Show
    <2>4. new.range \in {state.range, v} /\ (S = {} => new.range = v)
      BY <1>2, <2>2, <2>3 DEF NormPeak, Peak, Reached, Values, Unseen, NaN, Inf
    <2> HIDE DEF new
    <2>5. new \in States
      <3>1. new.executed \in BOOLEAN /\ new.nonfinite \in BOOLEAN
        BY <2>2, <2>3, Zenon
      <3>2. new.range \in Values
        BY <2>2, <2>4
      <3> QED BY <2>3, <3>1, <3>2 DEF States
    <2>6. new.range \in T
      BY <2>4 DEF Reached, Peaked
    <2>7. new.nonfinite <=> \E x \in T : ~Finite(x)
      BY <2>2, <2>3, Zenon DEF Reached, Peaked
    <2>8. NaN \in T /\ p \notin Norms => new.range = NaN
      BY <1>2, <2>2, <2>3 DEF Peak, Reached, Peaked
    <2>9. new.range # NaN => \A x \in T \ {NaN} : x <= new.range
      <3> SUFFICES ASSUME new.range # NaN, NEW x \in T, x # NaN PROVE x <= new.range
        OBVIOUS
      <3>1. CASE S = {}
        BY <2>4, <3>1 DEF Values, Unseen, NaN, Inf
      <3>2. CASE S # {}
        <4>1. state.range \in S /\ (state.range # NaN => \A y \in S \ {NaN} : y <= state.range)
          BY <3>2 DEF Reached, Peaked
        <4>2. state.range # Unseen /\ state.range # NaN
          BY <1>2, <2>2, <2>3, <4>1 DEF Peak, NormPeak
        <4> DEFINE r == state.range
                   m == new.range
        <4>3. r \in Int /\ v \in Int /\ x \in Int /\ m \in Int
          BY <2>2, <2>5, ValuesFacts DEF States
        <4>4. m = IF p \in Norms THEN NormPeak(r, v) ELSE Peak(r, v)
          BY <2>3
        <4>5. r # Unseen /\ r # NaN /\ m # NaN
          BY <4>2
        <4>6. x \in S => x <= r
          BY <4>1, <4>5
        <4>7. x \in S \/ x = v
          OBVIOUS
        <4> HIDE DEF r, m
        <4>8. r <= m /\ (v # NaN => v <= m)
          <5>1. CASE p \in Norms
            BY <4>3, <4>4, <4>5, <5>1 DEF NormPeak
          <5>2. CASE p \notin Norms
            <6>1. v # NaN
              BY <4>3, <4>4, <4>5, <5>2 DEF Peak
            <6> QED BY <4>3, <4>4, <4>5, <5>2, <6>1 DEF Peak
          <5> QED BY <5>1, <5>2
        <4>9. x <= m
          BY <4>3, <4>6, <4>7, <4>8
        <4> QED BY <4>9 DEF m
      <3> QED BY <3>1, <3>2
    <2>10. new.executed \in BOOLEAN /\ new.nonfinite \in BOOLEAN /\ new.executed
      BY <2>3, <2>5 DEF States
    <2>11. Reached(p, T, new)
      BY <2>6, <2>7, <2>8, <2>9, <2>10 DEF Reached, Peaked
    <2> QED BY <2>1, <2>5, <2>11 DEF new
  <1> QED BY <1>1, <1>2

-----------------------------------------------------------------------------
(* All calls of a sample, one after the other.                               *)
Collects(c, state, calls, after) ==
  after = [k \in 0 .. Len(calls) |->
            IF k = 0 THEN state
            ELSE [p \in Points[c] |-> Show(p, after[k - 1][p], calls[k][p])]]

LEMMA ShowKeepsStates ==
  ASSUME NEW p, NEW state \in States, NEW v \in Values
  PROVE  Show(p, state, v) \in States
  <1>1. CASE v = Unseen
    BY <1>1 DEF Show
  <1>2. CASE v # Unseen
    <2> DEFINE range == IF p \in Norms THEN NormPeak(state.range, v) ELSE Peak(state.range, v)
               nonfinite == state.nonfinite \/ ~Finite(v)
    <2>1. Show(p, state, v) = [range |-> range, executed |-> TRUE, nonfinite |-> nonfinite]
      BY <1>2 DEF Show
    <2>2. state.range \in Values /\ state.nonfinite \in BOOLEAN
      BY DEF States
    <2>3. range \in Values
      <3>1. range \in {state.range, v, NaN}
        BY DEF NormPeak, Peak
      <3> QED BY <2>2, <3>1, ValuesFacts
    <2>4. nonfinite \in BOOLEAN
      BY <2>2, Zenon
    <2> HIDE DEF range, nonfinite
    <2> QED BY <2>1, <2>3, <2>4 DEF States
  <1> QED BY <1>1, <1>2

\* f is what the modules hold after each of the calls.
Unfolds(c, state, calls, f) ==
  /\ ShowAll(c, state, calls) = f[Len(calls)]
  /\ f \in [0 .. Len(calls) -> [Points[c] -> States]]
  /\ f[0] = state
  /\ \A k \in 1 .. Len(calls) :
       f[k] = [p \in Points[c] |-> Show(p, f[k - 1][p], calls[k][p])]

LEMMA ShowAllUnfolds ==
  ASSUME NEW c, NEW state, NEW calls,
         state \in [Points[c] -> States], calls \in Seq([Points[c] -> Values])
  PROVE  \E f : Unfolds(c, state, calls, f)
  <1> DEFINE n == Len(calls)
             T == [Points[c] -> States]
             next(k, s) == [p \in Points[c] |-> Show(p, s[p], calls[k][p])]
             step == [k \in 1 .. n |-> [s \in T |-> next(k, s)]]
  <1>1. n \in Nat /\ calls \in [1 .. n -> [Points[c] -> Values]]
    OBVIOUS
  <1> HIDE DEF n
  <1>2. ASSUME NEW k \in 1 .. n, NEW s \in T PROVE next(k, s) \in T
    <2>1. \A p \in Points[c] : s[p] \in States /\ calls[k][p] \in Values
      BY <1>1
    <2>2. \A p \in Points[c] : Show(p, s[p], calls[k][p]) \in States
      BY <2>1, ShowKeepsStates
    <2> QED BY <2>2
  <1> HIDE DEF next
  <1>3. step \in [1 .. n -> [T -> T]] /\ state \in T
    BY <1>2
  <1>4. \A k \in 1 .. n, s \in T : step[k][s] = next(k, s)
    OBVIOUS
  <1> HIDE DEF step, T
  <1>5. PICK f \in [0 .. n -> T] : f[0] = state /\ \A k \in 1 .. n : f[k] = step[k][f[k - 1]]
    <2> DEFINE first == state
    <2>1. first \in T
      BY <1>3
    <2> HIDE DEF first
    <2>2. \E f \in [0 .. n -> T] :
            /\ f[0] = first
            /\ \A i \in 1 .. n : f[i] = step[i][f[i - 1]]
      <3>1. n \in Nat
        BY <1>1
      <3>2. step \in [1 .. n -> [T -> T]]
        BY <1>3
      <3> QED BY ONLY <3>1, <3>2, <2>1, Iterates, SMT
    <2> QED BY <2>2 DEF first
  <1>6. \A k \in 1 .. n : f[k] = next(k, f[k - 1])
    BY <1>1, <1>4, <1>5
  <1>7. Collects(c, state, calls, f)
    <2> DEFINE value(k) == IF k = 0 THEN state ELSE next(k, f[k - 1])
    <2>1. \A k \in 0 .. n : f[k] = value(k)
      BY <1>1, <1>5, <1>6
    <2> HIDE DEF value
    <2>2. f = [k \in 0 .. n |-> value(k)]
      BY <1>5, <2>1
    <2> QED BY <2>2 DEF value, next, n, Collects
  <1> DEFINE g == CHOOSE h : Collects(c, state, calls, h)
  <1>8. Collects(c, state, calls, g)
    BY <1>7, Zenon
  <1>9. ShowAll(c, state, calls) = g[Len(calls)]
    BY DEF ShowAll, Collects
  <1> HIDE DEF g
  <1>10. g = [k \in 0 .. n |-> IF k = 0 THEN state ELSE next(k, g[k - 1])]
    BY <1>8 DEF Collects, next, n
  <1>11. g[0] = state /\ \A k \in 1 .. n : g[k] = next(k, g[k - 1])
    BY <1>1, <1>10
  <1>12. \A k \in 0 .. n : g[k] \in T
    <2> DEFINE P == {k \in 0 .. n : g[k] \in T}
    <2>1. 0 \in P
      BY <1>1, <1>3, <1>11
    <2>2. ASSUME NEW k \in 1 .. n, k - 1 \in P PROVE k \in P
      BY <1>1, <1>2, <1>11, <2>2
    <2> HIDE DEF P
    <2>3. \A k \in 0 .. n : k \in P
      BY <1>1, <2>1, <2>2, Induction
    <2> QED BY <2>3 DEF P
  <1>13. g \in [0 .. n -> T]
    <2>1. g = [k \in 0 .. n |-> g[k]]
      BY <1>10
    <2> QED BY <1>12, <2>1
  <1> QED BY <1>9, <1>11, <1>13 DEF n, T, next, Unfolds

LEMMA ShowAllReaches ==
  ASSUME NEW c, NEW S \in [Points[c] -> SUBSET (Values \ {Unseen})],
         NEW state, NEW calls,
         state \in [Points[c] -> States], calls \in Seq([Points[c] -> Values]),
         \A p \in Points[c] : Reached(p, S[p], state[p])
  PROVE  /\ ShowAll(c, state, calls) \in [Points[c] -> States]
         /\ \A p \in Points[c] :
              Reached(p, S[p] \cup ({calls[j][p] : j \in 1 .. Len(calls)} \ {Unseen}),
                      ShowAll(c, state, calls)[p])
  <1> DEFINE n == Len(calls)
             Upto(p, k) == S[p] \cup ({calls[j][p] : j \in 1 .. k} \ {Unseen})
  <1>1. n \in Nat /\ calls \in [1 .. n -> [Points[c] -> Values]]
    OBVIOUS
  <1>2. PICK f : /\ ShowAll(c, state, calls) = f[n]
                 /\ f \in [0 .. n -> [Points[c] -> States]]
                 /\ f[0] = state
                 /\ \A k \in 1 .. n :
                      f[k] = [p \in Points[c] |-> Show(p, f[k - 1][p], calls[k][p])]
    <2>1. \E f : Unfolds(c, state, calls, f)
      BY ShowAllUnfolds, Zenon
    <2> QED BY <2>1 DEF Unfolds
  <1> HIDE DEF n
  <1> DEFINE P == {k \in 0 .. n : \A p \in Points[c] : Reached(p, Upto(p, k), f[k][p])}
  <1>3. 0 \in P
    <2>1. \A p \in Points[c] : Upto(p, 0) = S[p]
      OBVIOUS
    <2> QED BY <1>1, <1>2, <2>1
  <1>4. ASSUME NEW k \in 1 .. n, k - 1 \in P PROVE k \in P
    <2>1. k \in 0 .. n /\ k - 1 \in 0 .. n
      BY <1>1
    <2>2. ASSUME NEW p \in Points[c] PROVE Reached(p, Upto(p, k), f[k][p])
      <3> DEFINE before == f[k - 1][p]
                 v == calls[k][p]
                 set == Upto(p, k - 1)
      <3>1. before \in States /\ v \in Values
        BY <1>1, <1>2, <2>1
      <3>2. \A j \in 1 .. k - 1 : calls[j][p] \in Values
        BY <1>1
      <3>3. set \in SUBSET (Values \ {Unseen})
        BY <3>2
      <3>4. Reached(p, set, before)
        BY <1>4
      <3>5. f[k][p] = Show(p, before, v)
        BY <1>2
      <3>6. Upto(p, k) = (set \cup {v}) \ {Unseen}
        <4>1. 1 .. k = (1 .. k - 1) \cup {k}
          BY <1>1
        <4>2. {calls[j][p] : j \in 1 .. k} = {calls[j][p] : j \in 1 .. k - 1} \cup {v}
          BY <4>1
        <4>3. Unseen \notin S[p]
          OBVIOUS
        <4> QED BY <4>2, <4>3
      <3> HIDE DEF before, v, set, Upto
      <3>7. Reached(p, (set \cup {v}) \ {Unseen}, Show(p, before, v))
        BY <3>1, <3>3, <3>4, ShowReaches
      <3> QED BY <3>5, <3>6, <3>7
    <2> QED BY <2>1, <2>2
  <1>5. n \in P
    <2> HIDE DEF P
    <2>1. \A k \in 0 .. n : k \in P
      BY <1>1, <1>3, <1>4, Induction
    <2> QED BY <1>1, <2>1
  <1>6. f[n] \in [Points[c] -> States]
    BY <1>1, <1>2
  <1> QED BY <1>2, <1>5, <1>6 DEF n

-----------------------------------------------------------------------------
(* What the samples showed.                                                  *)
LEMMA SamplesTyped ==
  ASSUME NEW c \in Components, NEW data \in DataSets, NEW i \in 1 .. Len(data)
  PROVE  CallsOf(c, data[i]) \in Seq([Points[c] -> Values])
  <1>1. data \in Seq(Samples)
    BY CalibrationAssumption DEF CalibrationAssumption
  <1>2. data[i] \in Samples
    BY <1>1
  <1> DEFINE sample == data[i]
  <1>3. /\ sample.vision \in [Points["vision"] -> Values]
        /\ sample.language \in Seq([Points["language"] -> Values])
    BY <1>2 DEF Samples
  <1> HIDE DEF sample
  <1>4. CASE c = "vision"
    <2> DEFINE T == [Points[c] -> Values]
               x == sample.vision
    <2>1. CallsOf(c, sample) = <<x>> /\ x \in T
      BY <1>3, <1>4 DEF CallsOf
    <2> HIDE DEF T, x
    <2>2. <<x>> \in Seq(T)
      BY <2>1
    <2> QED BY <2>1, <2>2 DEF sample, T
  <1>5. CASE c = "language"
    <2>1. CallsOf(c, sample) = sample.language
      BY <1>5 DEF CallsOf
    <2> QED BY <1>3, <1>5, <2>1 DEF sample
  <1> QED BY <1>4, <1>5 DEF Components

LEMMA LengthsTyped ==
  ASSUME NEW data \in DataSets
  PROVE  Len(data) \in Nat
  BY CalibrationAssumption DEF CalibrationAssumption

LEMMA ShownMembers ==
  ASSUME NEW c, NEW data, NEW p, NEW k, NEW v
  PROVE  v \in Shown(c, data, p, k) <=>
           v # Unseen /\ \E i \in 1 .. k : v \in ShownBy(c, data[i], p)
  <1> DEFINE by == {ShownBy(c, data[i], p) : i \in 1 .. k}
  <1>1. Shown(c, data, p, k) = (UNION by) \ {Unseen}
    BY Zenon DEF Shown
  <1>2. v \in UNION by <=> \E B \in by : v \in B
    <2> HIDE DEF by
    <2> QED OBVIOUS
  <1>3. (\E B \in by : v \in B) <=> \E i \in 1 .. k : v \in ShownBy(c, data[i], p)
    BY Zenon
  <1> HIDE DEF by
  <1>4. v \in Shown(c, data, p, k) <=> v \in UNION by /\ v # Unseen
    <2> DEFINE u == UNION by
    <2> HIDE DEF u
    <2>1. v \in u \ {Unseen} <=> v \in u /\ v # Unseen
      OBVIOUS
    <2> QED BY <1>1, <2>1, Zenon DEF u
  <1> QED BY <1>2, <1>3, <1>4, Zenon

LEMMA ShownFacts ==
  ASSUME NEW c \in Components, NEW data \in DataSets, NEW p \in Points[c]
  PROVE  /\ Shown(c, data, p, 0) = {}
         /\ \A k \in 0 .. Len(data) : Shown(c, data, p, k) \subseteq Values \ {Unseen}
         /\ \A k, m \in 0 .. Len(data) :
              k <= m => Shown(c, data, p, k) \subseteq Shown(c, data, p, m)
  <1>1. Shown(c, data, p, 0) = {}
    BY ShownMembers
  <1>2. ASSUME NEW k \in 0 .. Len(data) PROVE Shown(c, data, p, k) \subseteq Values \ {Unseen}
    <2>1. ASSUME NEW i \in 1 .. k PROVE ShownBy(c, data[i], p) \subseteq Values
      <3> DEFINE calls == CallsOf(c, data[i])
      <3>1. i \in 1 .. Len(data)
        BY LengthsTyped
      <3>2. calls \in Seq([Points[c] -> Values])
        BY <3>1, SamplesTyped
      <3> HIDE DEF calls
      <3>3. \A j \in DOMAIN calls : calls[j] \in [Points[c] -> Values]
        BY <3>2
      <3>4. \A j \in DOMAIN calls : calls[j][p] \in Values
        BY <3>3
      <3> QED BY <3>4 DEF ShownBy, calls
    <2> QED BY <2>1, ShownMembers
  <1>3. ASSUME NEW k \in 0 .. Len(data), NEW m \in 0 .. Len(data), k <= m
        PROVE  Shown(c, data, p, k) \subseteq Shown(c, data, p, m)
    <2>1. 1 .. k \subseteq 1 .. m
      BY <1>3, LengthsTyped
    <2> QED BY <2>1, ShownMembers
  <1> QED BY <1>1, <1>2, <1>3

LEMMA ShownNext ==
  ASSUME NEW c \in Components, NEW data \in DataSets, NEW p \in Points[c],
         NEW k \in Nat, k < Len(data), NEW calls, calls = CallsOf(c, data[k + 1])
  PROVE  Shown(c, data, p, k + 1) =
           Shown(c, data, p, k) \cup ({calls[j][p] : j \in 1 .. Len(calls)} \ {Unseen})
  <1>1. k + 1 \in 1 .. Len(data)
    BY LengthsTyped
  <1>2. calls \in Seq([Points[c] -> Values])
    BY <1>1, SamplesTyped
  <1>3. DOMAIN calls = 1 .. Len(calls)
    BY <1>2
  <1>4. ShownBy(c, data[k + 1], p) = {calls[j][p] : j \in 1 .. Len(calls)}
    BY <1>3 DEF ShownBy
  <1>5. 1 .. k + 1 = (1 .. k) \cup {k + 1}
    OBVIOUS
  <1> DEFINE new == {calls[j][p] : j \in 1 .. Len(calls)}
             by(i) == ShownBy(c, data[i], p)
  <1>6. by(k + 1) = new
    BY <1>4
  <1>7. \A m, v : v \in Shown(c, data, p, m) <=> v # Unseen /\ \E i \in 1 .. m : v \in by(i)
    BY ShownMembers
  <1> HIDE DEF new, by
  <1>8. \A v : (\E i \in 1 .. k + 1 : v \in by(i)) <=> v \in by(k + 1) \/ \E i \in 1 .. k : v \in by(i)
    BY <1>5
  <1>9. \A v : v \in Shown(c, data, p, k + 1) <=>
                 v \in Shown(c, data, p, k) \/ (v \in new /\ v # Unseen)
    BY <1>6, <1>7, <1>8
  <1>10. Shown(c, data, p, k + 1) = Shown(c, data, p, k) \cup (new \ {Unseen})
    BY <1>9
  <1> QED BY <1>10 DEF new

\* One more sample.
LEMMA ReplayReaches ==
  ASSUME NEW c \in Components, NEW data \in DataSets, NEW k \in Nat, k < Len(data),
         NEW state \in [Points[c] -> States],
         \A p \in Points[c] : Reached(p, Shown(c, data, p, k), state[p])
  PROVE  LET after == ShowAll(c, state, CallsOf(c, data[k + 1]))
         IN /\ after \in [Points[c] -> States]
            /\ \A p \in Points[c] : Reached(p, Shown(c, data, p, k + 1), after[p])
  <1> DEFINE calls == CallsOf(c, data[k + 1])
             S == [p \in Points[c] |-> Shown(c, data, p, k)]
             more(p) == {calls[j][p] : j \in 1 .. Len(calls)} \ {Unseen}
  <1>1. k + 1 \in 1 .. Len(data) /\ k \in 0 .. Len(data)
    BY LengthsTyped
  <1>2. calls \in Seq([Points[c] -> Values])
    BY <1>1, SamplesTyped
  <1>3. \A p \in Points[c] : Shown(c, data, p, k + 1) = Shown(c, data, p, k) \cup more(p)
    <2> TAKE p \in Points[c]
    <2>1. \A x : x = CallsOf(c, data[k + 1]) =>
            Shown(c, data, p, k + 1) =
              Shown(c, data, p, k) \cup ({x[j][p] : j \in 1 .. Len(x)} \ {Unseen})
      BY ShownNext
    <2> QED BY <2>1, Zenon
  <1>4. \A p \in Points[c] : Shown(c, data, p, k) \in SUBSET (Values \ {Unseen})
    BY <1>1, ShownFacts
  <1> HIDE DEF calls
  <1>5. S \in [Points[c] -> SUBSET (Values \ {Unseen})]
    BY <1>4
  <1>6. \A p \in Points[c] : S[p] = Shown(c, data, p, k)
    OBVIOUS
  <1>7. \A p \in Points[c] : Reached(p, S[p], state[p])
    BY <1>6
  <1> HIDE DEF S
  <1>8. /\ ShowAll(c, state, calls) \in [Points[c] -> States]
        /\ \A p \in Points[c] : Reached(p, S[p] \cup more(p), ShowAll(c, state, calls)[p])
    BY <1>2, <1>5, <1>7, ShowAllReaches
  <1> QED BY <1>3, <1>6, <1>8 DEF calls

\* What is read back.
LEMMA SnapshotMeasures ==
  ASSUME NEW p, NEW S, NEW state \in States, Reached(p, S, state), S \subseteq Values \ {Unseen}
  PROVE  Measured(p, S, [state EXCEPT !.range = RangeOf(p, state)])
  <1> DEFINE entry == [state EXCEPT !.range = RangeOf(p, state)]
  <1>1. /\ entry.range = RangeOf(p, state)
        /\ entry.executed = state.executed
        /\ entry.nonfinite = state.nonfinite
    BY DEF States
  <1> SUFFICES Measured(p, S, entry)
    OBVIOUS
  <1> HIDE DEF entry
  <1>2. CASE S = {}
    <2>1. state.range = Unseen
      BY <1>2 DEF Reached
    <2>2. entry.range = IF p \in Norms THEN Unseen ELSE 0
      BY <1>1, <2>1 DEF RangeOf
    <2>3. ~entry.executed /\ ~entry.nonfinite /\ entry.executed \in BOOLEAN /\ entry.nonfinite \in BOOLEAN
      BY <1>1, <1>2, Zenon DEF Reached, Peaked
    <2> QED BY <1>2, <2>2, <2>3, Zenon DEF Measured, Peaked
  <1>3. CASE S # {}
    <2>1. state.range # Unseen
      BY <1>3 DEF Reached, Peaked
    <2>2. entry.range = state.range
      BY <1>1, <2>1 DEF RangeOf
    <2> QED BY <1>1, <1>3, <2>2 DEF Measured, Reached, Peaked
  <1> QED BY <1>2, <1>3

LEMMA SnapshotFacts ==
  ASSUME NEW c, NEW state \in [Points[c] -> States]
  PROVE  /\ DOMAIN Snapshot(state) = Points[c]
         /\ \A p \in Points[c] :
              Snapshot(state)[p] = [state[p] EXCEPT !.range = RangeOf(p, state[p])]
  <1>1. DOMAIN state = Points[c]
    OBVIOUS
  <1> QED BY <1>1, Zenon DEF Snapshot

-----------------------------------------------------------------------------
(* The invariant.                                                            *)

\* Every snapshot taken keeps the peaks of the samples before it.
SnapshotsOf(c, data, taken) ==
  \A k \in DOMAIN taken :
    /\ k \in 1 .. Len(data) /\ DOMAIN taken[k] = Points[c]
    /\ \A p \in Points[c] : Measured(p, Shown(c, data, p, k), taken[k][p])

\* The snapshots due within the first m of a number of samples.
Due(settings, total, m) == {k \in SnapshotSamples(settings, total) : k \in 1 .. m}

\* A file of scales, whichever run left it.
FileSound(file) ==
  /\ file.settings \in Settings /\ file.data \in DataSets /\ file.count = Len(file.data)
  /\ Legacy(file.settings) < Len(file.data)
  /\ \A c \in Components :
       /\ SnapshotsOf(c, file.data, file.snaps[c])
       /\ DOMAIN file.snaps[c] =
            IF file.settings.component \in {c, "all"}
            THEN Due(file.settings, Len(file.data), Len(file.data)) ELSE {}

Publishing == {"scales", "coverage", "convergence", "legacy", "report", "verdict"}
Succeeded == record.status = "succeeded"
Complete == pc \in Publishing \/ Succeeded

\* The samples of a component that are behind the run.
Behind(c) ==
  IF pc = c THEN done
  ELSE IF Runs(c) /\ (Complete \/ (pc = "language" /\ c = "vision")) THEN Total ELSE 0

JobInv ==
  /\ pc # "idle" => job.settings \in Settings /\ job.data \in DataSets
  /\ pc = "idle" => snaps = NoSnapshots
  /\ pc \in Components \/ Complete => Legacy(job.settings) < Total

SnapshotsInv ==
  /\ DOMAIN snaps = Components
  /\ \A c \in Components : DOMAIN snaps[c] # {} => SnapshotsOf(c, job.data, snaps[c])
  /\ Running \/ Complete => \A c \in Components :
       DOMAIN snaps[c] = Due(job.settings, Total, Behind(c))

ModulesInv ==
  /\ DOMAIN module = Components
  /\ pc = "check" => module = Untouched /\ done = 0
  /\ pc = "vision" => module["language"] = Untouched["language"]
  /\ pc \in Components => /\ Runs(pc) /\ module[pc] \in [Points[pc] -> States]
                          /\ \A p \in Points[pc] :
                               Reached(p, Shown(pc, job.data, p, done), module[pc][p])

\* The files of the run, one after the other.
ThisScales == [run |-> runs, settings |-> job.settings, count |-> Total, snaps |-> snaps,
               data |-> job.data]
ThisConvergence ==
  [run |-> runs, compared |-> [c \in Components |-> IF Done(c) THEN Compared(c) ELSE <<>>]]

FilesInv ==
  /\ DOMAIN disk = {"scales", "coverage", "convergence", "legacy", "report"}
  /\ disk.scales # None => FileSound(disk.scales)
  /\ pc \in Publishing \ {"scales"} \/ Succeeded => disk.scales = ThisScales
  /\ pc \in Publishing \ {"scales", "coverage"} \/ Succeeded =>
       disk.coverage.run = runs /\ (disk.coverage.audited => AuditsPassed)
  /\ pc \in {"legacy", "report", "verdict"} \/ Succeeded => disk.convergence = ThisConvergence
  /\ Succeeded => pc = "exited" /\ Verdict

CalibrationInv ==
  TypeOK /\ JobInv /\ SnapshotsInv /\ ModulesInv /\ FilesInv /\ RestoredForThisBuild

-----------------------------------------------------------------------------
LEMMA SettingsFacts ==
  ASSUME NEW s \in Settings
  PROVE  /\ s.component \in Components \cup {"all"}
         /\ Legacy(s) \in s.requested /\ Legacy(s) \in Nat \ {0}
         /\ Legacy(s) \in Configured(s)
         /\ \A y \in s.requested : Legacy(s) >= y
  <1>1. /\ s.component \in Components \cup {"all"}
        /\ s.requested # {} /\ s.requested \subseteq Nat \ {0} /\ IsFiniteSet(s.requested)
    BY CalibrationAssumption DEF CalibrationAssumption
  <1> DEFINE S == s.requested
  <1>2. S \in SUBSET Nat /\ S # {} /\ IsFiniteSet(S)
    BY <1>1
  <1> HIDE DEF S
  <1>3. Largest(S) \in S /\ \A y \in S : Largest(S) >= y
    BY <1>2, FiniteLargest
  <1>4. Legacy(s) \in s.requested /\ \A y \in s.requested : Legacy(s) >= y
    BY <1>3 DEF S, Legacy
  <1>5. Legacy(s) \in Configured(s)
    BY <1>4 DEF Configured
  <1> QED BY <1>1, <1>4, <1>5

\* The last sample is always kept, and no sample is kept before it was seen.
LEMMA DueFacts ==
  ASSUME NEW s, NEW total \in Nat
  PROVE  /\ Due(s, total, 0) = {}
         /\ total > 0 => total \in Due(s, total, total)
         /\ \A k \in Nat : Due(s, total, k + 1) =
              Due(s, total, k) \cup {m \in SnapshotSamples(s, total) : m = k + 1}
  <1>1. \A k \in Nat : 1 .. k + 1 = (1 .. k) \cup {k + 1}
    OBVIOUS
  <1>2. \A k \in Nat : Due(s, total, k + 1) =
          Due(s, total, k) \cup {m \in SnapshotSamples(s, total) : m = k + 1}
    BY <1>1 DEF Due
  <1>3. total \in SnapshotSamples(s, total)
    BY DEF SnapshotSamples
  <1>4. total > 0 => total \in Due(s, total, total)
    BY <1>3 DEF Due
  <1>5. Due(s, total, 0) = {}
    BY DEF Due
  <1> QED BY <1>2, <1>4, <1>5

-----------------------------------------------------------------------------
LEMMA UntouchedFacts ==
  /\ DOMAIN Untouched = Components
  /\ \A c \in Components : /\ Untouched[c] \in [Points[c] -> States]
                           /\ \A p \in Points[c] : Reached(p, {}, Untouched[c][p])
  <1>1. Fresh \in States
    <2>1. Unseen \in Values
      BY ValuesFacts
    <2> QED BY <2>1 DEF Fresh, States
  <1>2. \A p : Reached(p, {}, Fresh)
    BY DEF Reached, Peaked, Fresh
  <1>3. \A c \in Components : Untouched[c] = [p \in Points[c] |-> Fresh]
    BY DEF Untouched
  <1> QED BY <1>1, <1>2, <1>3 DEF Untouched

LEMMA NothingTaken ==
  /\ DOMAIN NoSnapshots = Components
  /\ \A c \in Components : NoSnapshots[c] = <<>> /\ DOMAIN NoSnapshots[c] = {}
  BY DEF NoSnapshots

LEMMA InitSound == Init => CalibrationInv
  <1> SUFFICES ASSUME Init PROVE CalibrationInv
    OBVIOUS
  <1> USE DEF Init
  <1>1. TypeOK
    <2>1. MaxRuns \in Nat
      BY CalibrationAssumption DEF CalibrationAssumption
    <2>2. runs \in 0 .. MaxRuns /\ pc \in Stopped /\ ~Running
      BY <2>1 DEF Running, Stopped
    <2>3. record \in [run : 0 .. MaxRuns,
                     status : {"none", "running", "succeeded", "failed", "cancelled"}]
      BY <2>1
    <2>4. \A c \in Components : DOMAIN snaps[c] = {}
      BY NothingTaken
    <2> QED BY <2>2, <2>3, <2>4 DEF TypeOK
  <1>2. ~Running /\ ~Complete /\ ~Succeeded /\ pc \notin Components /\ pc \notin Publishing
    BY DEF Running, Stopped, Complete, Succeeded, Publishing, Components
  <1>3. JobInv
    BY <1>2 DEF JobInv
  <1>4. SnapshotsInv
    BY <1>2, NothingTaken DEF SnapshotsInv
  <1>5. ModulesInv
    BY <1>2, UntouchedFacts DEF ModulesInv
  <1>6. FilesInv
    BY <1>2 DEF FilesInv, Publishing
  <1>7. RestoredForThisBuild
    BY DEF RestoredForThisBuild
  <1> QED BY <1>1, <1>3, <1>4, <1>5, <1>6, <1>7 DEF CalibrationInv

-----------------------------------------------------------------------------
(* Steps that leave the replay where it is: what was replayed and kept stays *)
(* what it was, whether the run goes on or not.                              *)
Halted == pc \notin Components \cup {"check", "idle"}

LEMMA ReplayStays ==
  ASSUME JobInv, SnapshotsInv, ModulesInv, pc # "idle", TypeOK',
         UNCHANGED <<job, module, snaps, done>>,
         Halted', Complete' => Complete /\ pc \notin Components
  PROVE  JobInv' /\ SnapshotsInv' /\ ModulesInv'
  <1>1. job' = job /\ module' = module /\ snaps' = snaps /\ done' = done
    OBVIOUS
  <1>2. pc' \notin Components /\ pc' # "check" /\ pc' # "idle" /\ pc' # "vision"
    BY DEF Halted, Components
  <1>3. JobInv'
    BY <1>1, <1>2 DEF JobInv, Total
  <1>4. Running' => pc' \in Publishing
    BY <1>2 DEF Running, TypeOK, Publishing, Stopped
  <1>5. SnapshotsInv'
    <2>1. DOMAIN snaps' = Components
      BY <1>1 DEF SnapshotsInv
    <2>2. \A c \in Components : DOMAIN snaps'[c] # {} => SnapshotsOf(c, job'.data, snaps'[c])
      BY <1>1 DEF SnapshotsInv
    <2>3. ASSUME Running' \/ Complete', NEW c \in Components
          PROVE  DOMAIN snaps'[c] = Due(job'.settings, Total', Behind(c)')
      <3>1. Complete' /\ Complete /\ pc \notin Components
        BY <1>4, <2>3 DEF Complete
      <3>2. Behind(c) = IF Runs(c) THEN Total ELSE 0
        BY <3>1 DEF Behind
      <3>3. Behind(c)' = IF Runs(c)' THEN Total' ELSE 0
        BY <1>2, <3>1 DEF Behind
      <3>4. Total' = Total /\ (Runs(c)' <=> Runs(c))
        BY <1>1 DEF Total, Runs
      <3>5. DOMAIN snaps[c] = Due(job.settings, Total, Behind(c))
        BY <3>1 DEF SnapshotsInv
      <3> QED BY <1>1, <3>2, <3>3, <3>4, <3>5
    <2> QED BY <2>1, <2>2, <2>3 DEF SnapshotsInv
  <1>6. ModulesInv'
    BY <1>1, <1>2 DEF ModulesInv
  <1> QED BY <1>3, <1>5, <1>6

-----------------------------------------------------------------------------
(* The type invariant, action by action.                                     *)
Statuses == {"none", "running", "succeeded", "failed", "cancelled"}

\* A step that leaves counters and snapshots alone.
LEMMA TypeStays ==
  ASSUME TypeOK, UNCHANGED <<runs, job, done, snaps, contexts>>,
         pc' \in Stopped \cup Components \cup Publishing \cup {"check"},
         interrupted' \in BOOLEAN,
         record' \in [run : 0 .. MaxRuns, status : Statuses], record'.run = record.run,
         Running' => Running /\ record' = record
  PROVE  TypeOK'
  <1>1. runs' = runs /\ job' = job /\ done' = done /\ snaps' = snaps /\ contexts' = contexts
    OBVIOUS
  <1>2. /\ runs' \in 0 .. MaxRuns /\ contexts' \in Nat /\ done' \in Nat
        /\ record'.run = runs'
        /\ \A c \in Components : \A k \in DOMAIN snaps'[c] :
             k <= Total' /\ DOMAIN snaps'[c][k] = Points[c]
    BY <1>1 DEF TypeOK, Total
  <1>3. Running' => record'.status = "running" /\ done' <= Total'
    BY <1>1 DEF TypeOK, Total
  <1>4. pc' \in Stopped \cup Components \cup
          {"check", "scales", "coverage", "convergence", "legacy", "report", "verdict"}
    BY DEF Publishing
  <1> QED BY <1>2, <1>3, <1>4 DEF TypeOK, Statuses

LEMMA EndedTyped ==
  ASSUME TypeOK, NEW passed \in BOOLEAN, Ended(passed)
  PROVE  /\ pc' = "exited"
         /\ record' \in [run : 0 .. MaxRuns, status : Statuses] /\ record'.run = record.run
         /\ record'.status = "succeeded" => passed
  <1> DEFINE status == IF interrupted THEN "cancelled" ELSE IF passed THEN "succeeded" ELSE "failed"
  <1>1. pc' = "exited" /\ record' = [record EXCEPT !.status = status]
    BY DEF Ended
  <1>2. status \in Statuses /\ (status = "succeeded" => passed)
    BY DEF Statuses
  <1>3. record \in [run : 0 .. MaxRuns, status : Statuses]
    BY DEF TypeOK, Statuses
  <1> HIDE DEF status
  <1> QED BY <1>1, <1>2, <1>3

LEMMA StartTyped ==
  ASSUME TypeOK, NEW settings \in Settings, NEW data \in DataSets, Start(settings, data)
  PROVE  TypeOK'
  <1>1. /\ runs < MaxRuns /\ runs' = runs + 1 /\ pc' = "check" /\ interrupted' = FALSE
        /\ record' = [run |-> runs', status |-> "running"]
        /\ job' = [settings |-> settings, data |-> data]
        /\ done' = 0 /\ snaps' = NoSnapshots /\ contexts' = 0
    BY DEF Start
  <1>2. runs' \in 0 .. MaxRuns /\ record' \in [run : 0 .. MaxRuns, status : Statuses]
    BY <1>1, CalibrationAssumption DEF TypeOK, Statuses, CalibrationAssumption
  <1>3. done' <= Total'
    BY <1>1, LengthsTyped DEF Total
  <1>4. \A c \in Components : DOMAIN snaps'[c] = {}
    BY <1>1, NothingTaken
  <1> QED BY <1>1, <1>2, <1>3, <1>4 DEF TypeOK, Statuses

LEMMA ReplayTaken ==
  ASSUME TypeOK, JobInv, SnapshotsInv, ModulesInv, NEW c \in Components, Replay(c)
  PROVE  /\ pc = c /\ Runs(c) /\ c # "idle" /\ c # "check" /\ c \notin Publishing /\ ~Succeeded
         /\ done \in Nat /\ Total \in Nat /\ done < Total /\ done + 1 \in 1 .. Total
         /\ job.settings \in Settings /\ job.data \in DataSets
         /\ module'[c] \in [Points[c] -> States]
         /\ \A p \in Points[c] : Reached(p, Shown(c, job.data, p, done + 1), module'[c][p])
         /\ DOMAIN module' = Components
         /\ \A d \in Components \ {c} : module'[d] = module[d] /\ snaps'[d] = snaps[d]
         /\ DOMAIN snaps' = Components
         /\ snaps'[c] = IF done + 1 \in SnapshotSamples(job.settings, Total)
                        THEN Taken(c, module'[c], done + 1) ELSE snaps[c]
  <1> DEFINE calls == CallsOf(c, job.data[done + 1])
             after == ShowAll(c, module[c], calls)
  <1>1. /\ pc = c /\ done < Total /\ done' = done + 1
        /\ module' = [module EXCEPT ![c] = after]
        /\ snaps' = IF done' \in SnapshotSamples(job.settings, Total)
                    THEN [snaps EXCEPT ![c] = Taken(c, after, done')] ELSE snaps
    BY DEF Replay
  <1>2. /\ c # "idle" /\ c # "check" /\ c \notin Publishing /\ pc \in Components /\ pc \notin Stopped
    BY <1>1 DEF Components, Publishing, Stopped
  <1>3. ~Succeeded
    BY <1>2 DEF TypeOK, Running, Succeeded
  <1>4. job.settings \in Settings /\ job.data \in DataSets
    BY <1>1, <1>2 DEF JobInv
  <1>5. done \in Nat /\ Total \in Nat
    BY <1>4, LengthsTyped DEF TypeOK, Total
  <1>6. done + 1 \in 1 .. Total
    BY <1>1, <1>5
  <1>7. /\ Runs(c) /\ module[c] \in [Points[c] -> States]
        /\ \A p \in Points[c] : Reached(p, Shown(c, job.data, p, done), module[c][p])
    BY <1>1, <1>2 DEF ModulesInv
  <1> DEFINE data == job.data
             held == module[c]
  <1>8. /\ after \in [Points[c] -> States]
        /\ \A p \in Points[c] : Reached(p, Shown(c, job.data, p, done + 1), after[p])
    <2>1. data \in DataSets /\ done \in Nat /\ done < Len(data) /\ held \in [Points[c] -> States]
      BY <1>1, <1>4, <1>5, <1>7 DEF Total
    <2>2. \A p \in Points[c] : Reached(p, Shown(c, data, p, done), held[p])
      BY <1>7
    <2> HIDE DEF data, held
    <2> QED BY <2>1, <2>2, ReplayReaches DEF data, held
  <1> HIDE DEF after
  <1>9. DOMAIN module = Components /\ DOMAIN snaps = Components
    BY DEF ModulesInv, SnapshotsInv
  <1>10. module'[c] = after /\ DOMAIN module' = Components
    BY <1>1, <1>9
  <1>11. \A d \in Components \ {c} : module'[d] = module[d] /\ snaps'[d] = snaps[d]
    BY <1>1, <1>9
  <1>12. DOMAIN snaps' = Components
    BY <1>1, <1>9
  <1>13. snaps'[c] = IF done + 1 \in SnapshotSamples(job.settings, Total)
                     THEN Taken(c, after, done + 1) ELSE snaps[c]
    BY <1>1, <1>9
  <1> QED BY <1>1, <1>2, <1>3, <1>4, <1>5, <1>6, <1>7, <1>8, <1>10, <1>11, <1>12, <1>13

\* What is kept after a sample, by component.
LEMMA ReplayKeeps ==
  ASSUME TypeOK, JobInv, SnapshotsInv, ModulesInv, NEW c \in Components, Replay(c)
  PROVE  \A d \in Components :
           /\ SnapshotsOf(d, job.data, snaps'[d])
           /\ DOMAIN snaps'[d] = Due(job.settings, Total, IF d = c THEN done + 1 ELSE Behind(d))
  <1> DEFINE data == job.data
             due == SnapshotSamples(job.settings, Total)
             last == done + 1
  <1>1. /\ pc = c /\ done \in Nat /\ Total \in Nat /\ last \in 1 .. Total
        /\ job.settings \in Settings /\ data \in DataSets /\ Total = Len(data)
        /\ module'[c] \in [Points[c] -> States]
        /\ \A p \in Points[c] : Reached(p, Shown(c, data, p, last), module'[c][p])
        /\ \A d \in Components \ {c} : snaps'[d] = snaps[d]
        /\ snaps'[c] = IF last \in due THEN Taken(c, module'[c], last) ELSE snaps[c]
    BY ReplayTaken DEF Total
  <1>2. \A d \in Components : SnapshotsOf(d, data, snaps[d])
    <2>1. \A d \in Components : DOMAIN snaps[d] # {} => SnapshotsOf(d, data, snaps[d])
      BY DEF SnapshotsInv
    <2>2. \A d \in Components : DOMAIN snaps[d] = {} => SnapshotsOf(d, data, snaps[d])
      BY DEF SnapshotsOf
    <2> QED BY <2>1, <2>2
  <1>3. pc \notin Stopped
    BY <1>1 DEF Components, Stopped
  <1>4. \A d \in Components : DOMAIN snaps[d] = Due(job.settings, Total, Behind(d))
    BY <1>3 DEF SnapshotsInv, Running
  <1>5. Behind(c) = done
    BY <1>1 DEF Behind
  <1>6. Due(job.settings, Total, last) =
          Due(job.settings, Total, done) \cup {m \in due : m = last}
    <2> DEFINE settings == job.settings
               total == Total
    <2>1. total \in Nat /\ done \in Nat
      BY <1>1
    <2> HIDE DEF settings, total
    <2>2. \A k \in Nat : Due(settings, total, k + 1) =
            Due(settings, total, k) \cup {m \in SnapshotSamples(settings, total) : m = k + 1}
      BY <2>1, DueFacts
    <2> QED BY <2>1, <2>2 DEF settings, total
  <1>7. CASE last \in due
    <2> DEFINE taken == Taken(c, module'[c], last)
               old == snaps[c]
               shot == Snapshot(module'[c])
    <2>1. /\ DOMAIN taken = DOMAIN old \cup {last}
          /\ \A i \in DOMAIN taken : taken[i] = IF i = last THEN shot ELSE old[i]
      BY DEF Taken
    <2>2. DOMAIN shot = Points[c]
      BY <1>1, SnapshotFacts
    <2>3. \A p \in Points[c] : Measured(p, Shown(c, data, p, last), shot[p])
      <3> TAKE p \in Points[c]
      <3> DEFINE S == Shown(c, data, p, last)
                 state == module'[c][p]
      <3>1. state \in States /\ Reached(p, S, state)
        BY <1>1
      <3>2. S \subseteq Values \ {Unseen}
        <4>1. last \in 0 .. Len(data)
          BY <1>1
        <4> QED BY <1>1, <4>1, ShownFacts
      <3>3. shot[p] = [state EXCEPT !.range = RangeOf(p, state)]
        <4> DEFINE all == module'[c]
        <4>1. all \in [Points[c] -> States]
          BY <1>1
        <4> HIDE DEF all
        <4>2. \A q \in Points[c] : Snapshot(all)[q] = [all[q] EXCEPT !.range = RangeOf(q, all[q])]
          BY <4>1, SnapshotFacts
        <4> QED BY <4>2 DEF all
      <3> HIDE DEF S, state, shot
      <3>4. Measured(p, S, [state EXCEPT !.range = RangeOf(p, state)])
        BY <3>1, <3>2, SnapshotMeasures
      <3> QED BY <3>3, <3>4 DEF S
    <2> HIDE DEF taken, old, shot
    <2>4. SnapshotsOf(c, data, taken)
      <3> SUFFICES ASSUME NEW k \in DOMAIN taken
                   PROVE  /\ k \in 1 .. Len(data) /\ DOMAIN taken[k] = Points[c]
                          /\ \A p \in Points[c] : Measured(p, Shown(c, data, p, k), taken[k][p])
        BY DEF SnapshotsOf
      <3>1. CASE k = last
        BY <1>1, <2>1, <2>2, <2>3, <3>1
      <3>2. CASE k # last
        <4>1. k \in DOMAIN old /\ taken[k] = old[k]
          BY <2>1, <3>2
        <4>2. SnapshotsOf(c, data, old)
          BY <1>2 DEF old
        <4> QED BY <4>1, <4>2 DEF SnapshotsOf
      <3> QED BY <3>1, <3>2
    <2>5. DOMAIN taken = Due(job.settings, Total, last)
      <3>1. DOMAIN old = Due(job.settings, Total, done)
        BY <1>4, <1>5 DEF old
      <3> QED BY <1>6, <1>7, <2>1, <3>1
    <2>6. snaps'[c] = taken
      BY <1>1, <1>7 DEF taken
    <2> QED BY <1>1, <1>2, <1>4, <2>4, <2>5, <2>6
  <1>8. CASE last \notin due
    <2>1. Due(job.settings, Total, last) = Due(job.settings, Total, done)
      BY <1>6, <1>8
    <2> QED BY <1>1, <1>2, <1>4, <1>5, <1>8, <2>1
  <1> QED BY <1>7, <1>8

LEMMA ReplaySound ==
  ASSUME TypeOK, JobInv, SnapshotsInv, ModulesInv, NEW c \in Components, Replay(c)
  PROVE  TypeOK' /\ JobInv' /\ SnapshotsInv' /\ ModulesInv'
  <1>1. /\ pc = c /\ Runs(c) /\ c # "idle" /\ c # "check" /\ c \notin Publishing /\ ~Succeeded
        /\ done \in Nat /\ Total \in Nat /\ done < Total /\ done + 1 \in 1 .. Total
        /\ job.settings \in Settings /\ job.data \in DataSets
        /\ module'[c] \in [Points[c] -> States]
        /\ \A p \in Points[c] : Reached(p, Shown(c, job.data, p, done + 1), module'[c][p])
        /\ DOMAIN module' = Components
        /\ \A d \in Components \ {c} : module'[d] = module[d] /\ snaps'[d] = snaps[d]
        /\ DOMAIN snaps' = Components
    BY ReplayTaken
  <1>2. /\ \A d \in Components : SnapshotsOf(d, job.data, snaps'[d])
        /\ \A d \in Components :
             DOMAIN snaps'[d] = Due(job.settings, Total, IF d = c THEN done + 1 ELSE Behind(d))
    BY ReplayKeeps
  <1>3. /\ pc' = pc /\ job' = job /\ done' = done + 1 /\ runs' = runs /\ record' = record
        /\ interrupted' = interrupted
    BY DEF Replay
  <1>4. contexts' \in Nat
    <2> DEFINE calls == CallsOf(c, job.data[done + 1])
    <2>1. contexts' = IF c = "language" THEN contexts + Len(calls) ELSE contexts
      BY DEF Replay
    <2>2. calls \in Seq([Points[c] -> Values])
      BY <1>1, SamplesTyped DEF Total
    <2> DEFINE n == Len(calls)
    <2>3. n \in Nat
      BY <2>2
    <2> HIDE DEF n
    <2>4. contexts \in Nat /\ contexts' = IF c = "language" THEN contexts + n ELSE contexts
      BY <2>1 DEF n, TypeOK
    <2> QED BY <2>3, <2>4
  <1>5. Total' = Total /\ \A d \in Components : Runs(d)' <=> Runs(d)
    BY <1>3 DEF Total, Runs
  <1>6. TypeOK'
    <2>1. \A d \in Components : \A k \in DOMAIN snaps'[d] :
            k <= Total' /\ DOMAIN snaps'[d][k] = Points[d]
      <3> TAKE d \in Components
      <3>1. SnapshotsOf(d, job.data, snaps'[d])
        BY <1>2
      <3> QED BY <1>1, <1>5, <3>1 DEF SnapshotsOf, Total
    <2>2. Running' => record'.status = "running" /\ done' <= Total'
      BY <1>1, <1>3, <1>5 DEF TypeOK, Running
    <2> QED BY <1>1, <1>3, <1>4, <2>1, <2>2 DEF TypeOK
  <1>7. JobInv'
    BY <1>1, <1>3, <1>5 DEF JobInv, Complete, Succeeded
  <1>8. SnapshotsInv'
    <2>1. \A d \in Components : Behind(d)' = IF d = c THEN done + 1 ELSE Behind(d)
      BY <1>1, <1>3, <1>5 DEF Behind, Complete, Succeeded
    <2>2. \A d \in Components : DOMAIN snaps'[d] = Due(job'.settings, Total', Behind(d)')
      BY <1>2, <1>3, <1>5, <2>1
    <2> QED BY <1>1, <1>2, <1>3, <2>2 DEF SnapshotsInv
  <1>9. ModulesInv'
    BY <1>1, <1>3, <1>5 DEF ModulesInv, Components
  <1> QED BY <1>6, <1>7, <1>8, <1>9

LEMMA StartSound ==
  ASSUME TypeOK, NEW settings \in Settings, NEW data \in DataSets, Start(settings, data)
  PROVE  JobInv' /\ SnapshotsInv' /\ ModulesInv'
  <1>1. /\ pc' = "check" /\ done' = 0 /\ module' = Untouched /\ snaps' = NoSnapshots
        /\ job' = [settings |-> settings, data |-> data]
        /\ record' = [run |-> runs', status |-> "running"]
    BY DEF Start
  <1>2. job'.settings = settings /\ job'.data = data
    BY <1>1
  <1>3. ~Complete' /\ pc' \notin Components
    BY <1>1 DEF Complete, Succeeded, Publishing, Components
  <1>4. JobInv'
    BY <1>1, <1>2, <1>3 DEF JobInv
  <1>5. SnapshotsInv'
    <2>1. \A c \in Components : DOMAIN snaps'[c] = {}
      BY <1>1, NothingTaken
    <2>2. Total' \in Nat
      BY <1>2, LengthsTyped DEF Total
    <2>3. \A c \in Components : Behind(c)' = 0
      BY <1>1, <1>3 DEF Behind, Components
    <2>4. \A c \in Components : Due(job'.settings, Total', Behind(c)') = {}
      BY <2>2, <2>3, DueFacts
    <2> QED BY <1>1, <2>1, <2>4, NothingTaken DEF SnapshotsInv
  <1>6. ModulesInv'
    BY <1>1, <1>3, UntouchedFacts DEF ModulesInv
  <1> QED BY <1>4, <1>5, <1>6

\* The models are loaded.
LEMMA CheckSound ==
  ASSUME TypeOK, JobInv, SnapshotsInv, ModulesInv, Check, Legacy(job.settings) < Total
  PROVE  TypeOK' /\ JobInv' /\ SnapshotsInv' /\ ModulesInv'
  <1>1. /\ pc = "check" /\ pc' = FirstPhase /\ record' = record /\ runs' = runs /\ job' = job
        /\ done' = done /\ module' = module /\ snaps' = snaps /\ contexts' = contexts
        /\ interrupted' = interrupted
    BY DEF Check, progress
  <1>2. /\ pc \notin Stopped /\ pc \notin Components /\ pc \notin Publishing /\ Running
        /\ pc' \in Components /\ pc' # "idle" /\ pc' # "check" /\ pc' \notin Publishing
    BY <1>1 DEF Stopped, Components, Publishing, FirstPhase, Running
  <1>3. job.settings \in Settings /\ job.data \in DataSets
    BY <1>1 DEF JobInv
  <1>4. TypeOK'
    BY <1>1, <1>2, TypeStays DEF TypeOK, Statuses
  <1>5. JobInv'
    BY <1>1, <1>2, <1>3 DEF JobInv, Total
  <1>6. ~Succeeded /\ ~Complete
    BY <1>2 DEF TypeOK, Succeeded, Complete
  <1>7. ~Succeeded' /\ ~Complete'
    BY <1>1, <1>2, <1>6 DEF Succeeded, Complete
  <1>8. module = Untouched /\ done = 0
    BY <1>1 DEF ModulesInv
  <1>9. Runs(pc')
    <2>1. job.settings.component \in Components \cup {"all"}
      BY <1>3, SettingsFacts
    <2> QED BY <1>1, <2>1 DEF Runs, FirstPhase, Components
  <1>10. SnapshotsInv'
    <2>1. \A c \in Components : Behind(c) = 0
      BY <1>1, <1>2, <1>6 DEF Behind
    <2>2. \A c \in Components : Behind(c)' = 0
      <3>1. \A c \in Components : ~(pc' = "language" /\ c = "vision") \/ ~Runs(c)
        BY <1>1 DEF FirstPhase
      <3> QED BY <1>1, <1>2, <1>7, <1>8, <3>1 DEF Behind, Runs
    <2>3. \A c \in Components : DOMAIN snaps[c] = Due(job.settings, Total, 0)
      BY <1>2, <2>1 DEF SnapshotsInv
    <2>4. \A c \in Components : DOMAIN snaps'[c] = Due(job'.settings, Total', Behind(c)')
      BY <1>1, <2>2, <2>3 DEF Total
    <2> QED BY <1>1, <2>4 DEF SnapshotsInv
  <1>11. ModulesInv'
    <2> PICK c \in Components : c = pc'
      BY <1>2
    <2>1. /\ c \in Components /\ done' = 0 /\ module'[c] = Untouched[c] /\ job'.data \in DataSets
      BY <1>1, <1>2, <1>3, <1>8
    <2>2. \A p \in Points[c] : Shown(c, job'.data, p, done') = {}
      BY <2>1, ShownFacts
    <2>3. /\ module'[c] \in [Points[c] -> States]
          /\ \A p \in Points[c] : Reached(p, Shown(c, job'.data, p, done'), module'[c][p])
      BY <2>1, <2>2, UntouchedFacts
    <2>4. job'.settings.component \in {c, "all"}
      BY <1>1, <1>9 DEF Runs
    <2>5. module' = Untouched /\ DOMAIN module' = Components /\ pc' # "check"
      BY <1>1, <1>2, <1>8, UntouchedFacts
    <2> QED BY <2>3, <2>4, <2>5 DEF ModulesInv, Runs
  <1> QED BY <1>4, <1>5, <1>10, <1>11

\* One component is done with.
LEMMA ReplayedSound ==
  ASSUME TypeOK, JobInv, SnapshotsInv, ModulesInv, NEW c \in Components, Replayed(c)
  PROVE  TypeOK' /\ JobInv' /\ SnapshotsInv' /\ ModulesInv'
  <1>1. /\ pc = c /\ done = Total /\ done' = 0
        /\ pc' = IF c = "vision" /\ Runs("language") THEN "language" ELSE "scales"
        /\ record' = record /\ runs' = runs /\ job' = job /\ module' = module /\ snaps' = snaps
        /\ contexts' = contexts /\ interrupted' = interrupted
    BY DEF Replayed
  <1>2. /\ pc \notin Stopped /\ pc \in Components /\ pc \notin Publishing /\ Running
        /\ pc' # "idle" /\ pc' # "check" /\ pc' # "vision" /\ pc' \notin Stopped
    BY <1>1 DEF Stopped, Components, Publishing, Running
  <1>3. /\ job.settings \in Settings /\ job.data \in DataSets /\ Legacy(job.settings) < Total
        /\ Runs(c)
    <2>1. pc # "idle"
      BY <1>2 DEF Stopped
    <2>2. job.settings \in Settings /\ job.data \in DataSets /\ Legacy(job.settings) < Total
      BY <1>2, <2>1 DEF JobInv
    <2>3. job.settings.component \in {pc, "all"}
      BY <1>2 DEF ModulesInv, Runs
    <2> QED BY <1>1, <2>2, <2>3 DEF Runs
  <1>4. Total' = Total /\ Total \in Nat /\ \A d \in Components : Runs(d)' <=> Runs(d)
    BY <1>1, <1>3, LengthsTyped DEF Total, Runs
  <1>5. TypeOK'
    BY <1>1, <1>2, <1>4 DEF TypeOK, Running, Components
  <1>6. JobInv'
    BY <1>1, <1>2, <1>3, <1>4 DEF JobInv
  <1>7. ~Succeeded /\ ~Complete
    BY <1>2 DEF TypeOK, Succeeded, Complete
  <1>8. SnapshotsInv'
    <2>1. \A d \in Components : Behind(d)' = Behind(d)
      <3> TAKE d \in Components
      <3>1. CASE c = "vision" /\ Runs("language")
        <4>1. pc' = "language" /\ ~Complete'
          BY <1>1, <1>7, <3>1 DEF Complete, Succeeded, Publishing
        <4> QED BY <1>1, <1>3, <1>4, <1>7, <3>1, <4>1 DEF Behind, Components
      <3>2. CASE c = "vision" /\ ~Runs("language")
        <4>1. pc' = "scales" /\ Complete'
          BY <1>1, <3>2 DEF Complete, Publishing
        <4> QED BY <1>1, <1>3, <1>4, <1>7, <3>2, <4>1 DEF Behind, Components
      <3>3. CASE c = "language"
        <4>1. pc' = "scales" /\ Complete'
          BY <1>1, <3>3 DEF Complete, Publishing
        <4> QED BY <1>1, <1>3, <1>4, <1>7, <3>3, <4>1 DEF Behind, Components
      <3> QED BY <3>1, <3>2, <3>3 DEF Components
    <2>2. \A d \in Components : DOMAIN snaps[d] = Due(job.settings, Total, Behind(d))
      BY <1>2 DEF SnapshotsInv
    <2> QED BY <1>1, <1>4, <2>1, <2>2 DEF SnapshotsInv
  <1>9. ModulesInv'
    <2>1. CASE pc' = "scales"
      BY <1>1, <2>1 DEF ModulesInv, Components
    <2>2. CASE pc' = "language"
      <3>1. c = "vision" /\ Runs("language")
        BY <1>1, <2>2
      <3>2. module'["language"] = Untouched["language"] /\ DOMAIN module' = Components
        BY <1>1, <3>1 DEF ModulesInv
      <3>3. "language" \in Components
        BY DEF Components
      <3>4. \A p \in Points["language"] : Shown("language", job'.data, p, done') = {}
        BY <1>1, <1>3, <3>3, ShownFacts
      <3>5. /\ module'["language"] \in [Points["language"] -> States]
            /\ \A p \in Points["language"] :
                 Reached(p, Shown("language", job'.data, p, done'), module'["language"][p])
        BY <3>2, <3>3, <3>4, UntouchedFacts
      <3> QED BY <1>4, <2>2, <3>1, <3>2, <3>3, <3>5 DEF ModulesInv
    <2> QED BY <1>1, <2>1, <2>2
  <1> QED BY <1>5, <1>6, <1>8, <1>9

-----------------------------------------------------------------------------
(* Steps that end the run, or take it from one file to the next.             *)
Replaying == TypeOK /\ JobInv /\ SnapshotsInv /\ ModulesInv

LEMMA HaltSound ==
  ASSUME Replaying, Running, UNCHANGED <<runs, job, done, module, snaps, contexts>>,
         pc' \in {"exited", "killed"}, interrupted' = interrupted,
         record' \in [run : 0 .. MaxRuns, status : Statuses], record'.run = record.run,
         Succeeded' => pc \in Publishing
  PROVE  Replaying'
  <1>1. ~Running' /\ Halted' /\ pc # "idle" /\ pc' \notin Publishing
    BY DEF Running, Stopped, Halted, Components, Publishing
  <1>2. TypeOK'
    BY <1>1, TypeStays DEF Replaying, TypeOK, Stopped
  <1>3. Complete' => Complete /\ pc \notin Components
    BY <1>1 DEF Complete, Publishing, Components
  <1> QED BY <1>1, <1>2, <1>3, ReplayStays DEF Replaying

LEMMA PublishSound ==
  ASSUME Replaying, UNCHANGED <<runs, job, done, module, snaps, contexts, interrupted, record>>,
         pc \in Publishing, pc' \in Publishing
  PROVE  Replaying'
  <1>1. Running /\ Running' /\ Halted' /\ pc # "idle" /\ pc \notin Components
    BY DEF Running, Stopped, Halted, Components, Publishing
  <1>2. TypeOK'
    BY <1>1, TypeStays DEF Replaying, TypeOK, Statuses
  <1>3. Complete' => Complete /\ pc \notin Components
    BY <1>1 DEF Complete
  <1> QED BY <1>1, <1>2, <1>3, ReplayStays DEF Replaying

\* Nothing the replay is about.
LEMMA ReplayingUnmoved ==
  ASSUME Replaying, interrupted' \in BOOLEAN,
         UNCHANGED <<runs, job, pc, done, module, snaps, contexts, record>>
  PROVE  Replaying'
  <1>1. /\ runs' = runs /\ job' = job /\ pc' = pc /\ done' = done /\ module' = module
        /\ snaps' = snaps /\ contexts' = contexts /\ record' = record
    OBVIOUS
  <1>2. TypeOK'
    BY <1>1 DEF Replaying, TypeOK, Running, Total
  <1>3. JobInv'
    BY <1>1 DEF Replaying, JobInv, Complete, Succeeded, Total
  <1>4. SnapshotsInv'
    BY <1>1 DEF Replaying, SnapshotsInv, Running, Complete, Succeeded, Behind, Runs, Total
  <1>5. ModulesInv'
    BY <1>1 DEF Replaying, ModulesInv, Runs
  <1> QED BY <1>2, <1>3, <1>4, <1>5 DEF Replaying

LEMMA BreaksSound ==
  ASSUME Replaying, Running, Ended(FALSE),
         UNCHANGED <<runs, job, done, module, snaps, contexts, interrupted>>
  PROVE  Replaying' /\ ~Succeeded' /\ pc' = "exited"
  <1>1. TypeOK
    BY DEF Replaying
  <1>2. FALSE \in BOOLEAN
    OBVIOUS
  <1>3. /\ pc' = "exited" /\ record'.run = record.run
        /\ record' \in [run : 0 .. MaxRuns, status : Statuses]
        /\ record'.status = "succeeded" => FALSE
    BY <1>1, <1>2, EndedTyped
  <1>4. ~Succeeded'
    BY <1>3 DEF Succeeded
  <1> QED BY <1>3, <1>4, HaltSound

-----------------------------------------------------------------------------
(* The files, action by action.                                              *)
LEMMA FilesUntouched ==
  ASSUME FilesInv, disk' = disk, pc' \notin Publishing \ {"scales"}, ~Succeeded'
  PROVE  FilesInv'
  BY DEF FilesInv, Publishing

LEMMA FilesUnmoved ==
  ASSUME FilesInv, UNCHANGED <<runs, job, pc, snaps, record, disk>>
  PROVE  FilesInv'
  <1>1. /\ runs' = runs /\ job' = job /\ pc' = pc /\ snaps' = snaps /\ record' = record
        /\ disk' = disk
    OBVIOUS
  <1>2. /\ ThisScales' = ThisScales /\ ThisConvergence' = ThisConvergence
        /\ AuditsPassed' <=> AuditsPassed
        /\ Succeeded' <=> Succeeded
        /\ Verdict' <=> Verdict
    BY <1>1 DEF ThisScales, ThisConvergence, AuditsPassed, Done, Compared, Succeeded, Verdict, Total
  <1> QED BY <1>1, <1>2 DEF FilesInv

\* What a job publishes about its replay stays what it is while it publishes.
LEMMA ContentsStay ==
  ASSUME UNCHANGED <<runs, job, snaps, record>>
  PROVE  /\ ThisScales' = ThisScales /\ ThisConvergence' = ThisConvergence
         /\ AuditsPassed' <=> AuditsPassed
         /\ Succeeded' <=> Succeeded
  <1>1. runs' = runs /\ job' = job /\ snaps' = snaps /\ record' = record
    OBVIOUS
  <1> QED BY <1>1 DEF ThisScales, ThisConvergence, AuditsPassed, Done, Compared, Succeeded, Total

LEMMA ScalesPublished ==
  ASSUME Replaying, FilesInv, PublishScales
  PROVE  Replaying' /\ FilesInv'
  <1>1. /\ pc = "scales" /\ pc' = "coverage" /\ disk' = [disk EXCEPT !["scales"] = ThisScales]
        /\ runs' = runs /\ job' = job /\ done' = done /\ module' = module /\ snaps' = snaps
        /\ contexts' = contexts /\ interrupted' = interrupted /\ record' = record
    BY DEF PublishScales, Publish, progress, ThisScales
  <1>2. pc \in Publishing /\ pc' \in Publishing /\ pc # "idle" /\ pc \notin Components /\ Running
    BY <1>1 DEF Publishing, Components, Running, Stopped
  <1>3. Replaying'
    BY <1>1, <1>2, PublishSound
  <1>4. ~Succeeded
    BY <1>2 DEF Replaying, TypeOK, Succeeded
  <1>5. FileSound(ThisScales)
    <2>1. /\ job.settings \in Settings /\ job.data \in DataSets
          /\ Legacy(job.settings) < Total
      BY <1>2 DEF Replaying, JobInv, Complete
    <2>2. \A c \in Components : Behind(c) = IF Runs(c) THEN Total ELSE 0
      BY <1>1, <1>2 DEF Behind, Complete
    <2>3. \A c \in Components :
            /\ DOMAIN snaps[c] # {} => SnapshotsOf(c, job.data, snaps[c])
            /\ DOMAIN snaps[c] = Due(job.settings, Total, Behind(c))
      BY <1>2 DEF Replaying, SnapshotsInv
    <2>4. Total \in Nat
      BY <2>1, LengthsTyped DEF Total
    <2>5. Due(job.settings, Total, 0) = {}
      BY <2>4, DueFacts
    <2>6. \A c \in Components : SnapshotsOf(c, job.data, snaps[c])
      <3>1. \A c \in Components : DOMAIN snaps[c] = {} => SnapshotsOf(c, job.data, snaps[c])
        BY DEF SnapshotsOf
      <3> QED BY <2>3, <3>1
    <2>7. \A c \in Components :
            DOMAIN snaps[c] = IF job.settings.component \in {c, "all"}
                              THEN Due(job.settings, Total, Total) ELSE {}
      BY <2>2, <2>3, <2>5 DEF Runs
    <2>8. /\ ThisScales.settings = job.settings /\ ThisScales.data = job.data
          /\ ThisScales.count = Len(job.data) /\ ThisScales.snaps = snaps
      BY DEF ThisScales, Total
    <2> QED BY <2>1, <2>6, <2>7, <2>8 DEF FileSound, Total
  <1>6. ThisScales' = ThisScales /\ ~Succeeded'
    BY <1>1, <1>4, ContentsStay
  <1>7. /\ DOMAIN disk' = {"scales", "coverage", "convergence", "legacy", "report"}
        /\ disk'.scales = ThisScales
    BY <1>1 DEF FilesInv
  <1>8. FilesInv'
    BY <1>1, <1>5, <1>6, <1>7 DEF FilesInv, Publishing
  <1> QED BY <1>3, <1>8

LEMMA CoveragePublished ==
  ASSUME Replaying, FilesInv, PublishCoverage
  PROVE  Replaying' /\ FilesInv'
  <1>1. PICK covered \in BOOLEAN :
          Publish("coverage", "coverage",
            [run |-> runs, contexts |-> contexts, audited |-> AuditsPassed,
             covered |-> covered], "convergence")
    BY DEF PublishCoverage
  <1> DEFINE content == [run |-> runs, contexts |-> contexts, audited |-> AuditsPassed,
                         covered |-> covered]
  <1>2. /\ pc = "coverage" /\ pc' = "convergence" /\ disk' = [disk EXCEPT !["coverage"] = content]
        /\ runs' = runs /\ job' = job /\ done' = done /\ module' = module /\ snaps' = snaps
        /\ contexts' = contexts /\ interrupted' = interrupted /\ record' = record
    BY <1>1 DEF Publish, progress
  <1>3. pc \in Publishing /\ pc' \in Publishing /\ Running
    BY <1>2 DEF Publishing, Running, Stopped
  <1>4. Replaying'
    BY <1>2, <1>3, PublishSound
  <1>5. ~Succeeded
    BY <1>3 DEF Replaying, TypeOK, Succeeded
  <1>6. content.run = runs /\ (content.audited => AuditsPassed)
    OBVIOUS
  <1> HIDE DEF content
  <1>7. ThisScales' = ThisScales /\ ~Succeeded' /\ (AuditsPassed' <=> AuditsPassed)
    BY <1>2, <1>5, ContentsStay
  <1>8. /\ DOMAIN disk' = {"scales", "coverage", "convergence", "legacy", "report"}
        /\ disk'.scales = disk.scales /\ disk'.coverage = content
    BY <1>2 DEF FilesInv
  <1>9. disk.scales = ThisScales /\ (disk.scales # None => FileSound(disk.scales))
    BY <1>2 DEF FilesInv, Publishing
  <1>10. FilesInv'
    BY <1>2, <1>6, <1>7, <1>8, <1>9 DEF FilesInv, Publishing
  <1> QED BY <1>4, <1>10

LEMMA ConvergencePublished ==
  ASSUME Replaying, FilesInv, PublishConvergence
  PROVE  Replaying' /\ FilesInv'
  <1>1. /\ pc = "convergence" /\ pc' = "legacy"
        /\ disk' = [disk EXCEPT !["convergence"] = ThisConvergence]
        /\ runs' = runs /\ job' = job /\ done' = done /\ module' = module /\ snaps' = snaps
        /\ contexts' = contexts /\ interrupted' = interrupted /\ record' = record
    BY DEF PublishConvergence, Publish, progress, ThisConvergence
  <1>2. pc \in Publishing /\ pc' \in Publishing /\ Running
    BY <1>1 DEF Publishing, Running, Stopped
  <1>3. Replaying'
    BY <1>1, <1>2, PublishSound
  <1>4. ~Succeeded
    BY <1>2 DEF Replaying, TypeOK, Succeeded
  <1>5. /\ ThisScales' = ThisScales /\ ThisConvergence' = ThisConvergence /\ ~Succeeded'
        /\ AuditsPassed' <=> AuditsPassed
    BY <1>1, <1>4, ContentsStay
  <1>6. /\ DOMAIN disk' = {"scales", "coverage", "convergence", "legacy", "report"}
        /\ disk'.scales = disk.scales /\ disk'.coverage = disk.coverage
        /\ disk'.convergence = ThisConvergence
    BY <1>1 DEF FilesInv
  <1>7. FilesInv'
    BY <1>1, <1>5, <1>6 DEF FilesInv, Publishing
  <1> QED BY <1>3, <1>7

\* The comparison at the checkpoint, and the report.
LEMMA OthersPublished ==
  ASSUME Replaying, FilesInv, pc \in {"legacy", "report"}, pc' \in {"report", "verdict"},
         NEW file \in {"legacy", "report"}, NEW content, disk' = [disk EXCEPT ![file] = content],
         UNCHANGED <<runs, job, done, module, snaps, contexts, interrupted, record>>
  PROVE  Replaying' /\ FilesInv'
  <1>1. pc \in Publishing /\ pc' \in Publishing /\ Running
    BY DEF Publishing, Running, Stopped
  <1>2. Replaying'
    BY <1>1, PublishSound
  <1>3. ~Succeeded
    BY <1>1 DEF Replaying, TypeOK, Succeeded
  <1>4. /\ ThisScales' = ThisScales /\ ThisConvergence' = ThisConvergence /\ ~Succeeded'
        /\ AuditsPassed' <=> AuditsPassed
    BY <1>3, ContentsStay
  <1>5. /\ DOMAIN disk' = {"scales", "coverage", "convergence", "legacy", "report"}
        /\ disk'.scales = disk.scales /\ disk'.coverage = disk.coverage
        /\ disk'.convergence = disk.convergence
    BY DEF FilesInv
  <1>6. runs' = runs
    OBVIOUS
  <1>7. FilesInv'
    BY <1>4, <1>5, <1>6 DEF FilesInv, Publishing
  <1> QED BY <1>2, <1>7

LEMMA LegacyPublished ==
  ASSUME Replaying, FilesInv, PublishLegacy
  PROVE  Replaying' /\ FilesInv'
  <1> DEFINE name == <<Legacy(job.settings), Total>>
             due == \E c \in Components : Legacy(job.settings) \in DOMAIN snaps[c]
             content == IF due THEN [n \in DOMAIN disk.legacy \cup {name} |->
                                      IF n = name THEN runs ELSE disk.legacy[n]]
                        ELSE disk.legacy
  <1>1. /\ pc = "legacy" /\ pc' = (IF job.settings.detailed THEN "report" ELSE "verdict")
        /\ disk' = [disk EXCEPT !["legacy"] = content]
        /\ runs' = runs /\ job' = job /\ done' = done /\ module' = module /\ snaps' = snaps
        /\ contexts' = contexts /\ interrupted' = interrupted /\ record' = record
    BY DEF PublishLegacy, Publish, progress
  <1> HIDE DEF content
  <1>2. pc' \in {"report", "verdict"}
    BY <1>1
  <1> QED BY <1>1, <1>2, OthersPublished

LEMMA ReportPublished ==
  ASSUME Replaying, FilesInv, Report
  PROVE  Replaying' /\ FilesInv'
  <1>1. PICK drawn \in BOOLEAN :
          /\ disk' = [disk EXCEPT !.report = [run |-> runs, drawn |-> drawn]]
          /\ IF drawn THEN pc' = "verdict" /\ UNCHANGED record ELSE Ended(FALSE)
    BY DEF Report
  <1>2. /\ pc = "report"
        /\ runs' = runs /\ job' = job /\ done' = done /\ module' = module /\ snaps' = snaps
        /\ contexts' = contexts /\ interrupted' = interrupted
    BY DEF Report, progress
  <1>3. Running
    BY <1>2 DEF Running, Stopped
  <1>4. CASE drawn
    <2> DEFINE content == [run |-> runs, drawn |-> drawn]
    <2>1. disk' = [disk EXCEPT !["report"] = content] /\ pc' = "verdict" /\ record' = record
      BY <1>1, <1>4
    <2> HIDE DEF content
    <2> QED BY <1>2, <2>1, OthersPublished
  <1>5. CASE ~drawn
    <2>1. Replaying' /\ ~Succeeded' /\ pc' = "exited"
      BY <1>1, <1>2, <1>3, <1>5, BreaksSound
    <2>2. /\ DOMAIN disk' = DOMAIN disk
          /\ disk'.scales = disk.scales
      BY <1>1 DEF FilesInv
    <2>3. FilesInv'
      BY <2>1, <2>2 DEF FilesInv, Publishing
    <2> QED BY <2>1, <2>3
  <1> QED BY <1>4, <1>5

\* The run ends with the verdict of its own audits.
LEMMA JudgeSound ==
  ASSUME Replaying, FilesInv, Judge
  PROVE  Replaying' /\ FilesInv'
  <1>1. /\ pc = "verdict" /\ Ended(Verdict)
        /\ runs' = runs /\ job' = job /\ done' = done /\ module' = module /\ snaps' = snaps
        /\ contexts' = contexts /\ interrupted' = interrupted /\ disk' = disk
    BY DEF Judge, progress
  <1>2. Running /\ pc \in Publishing /\ TypeOK
    BY <1>1 DEF Running, Stopped, Publishing, Replaying
  <1>3. /\ pc' = "exited" /\ record'.run = record.run
        /\ record' \in [run : 0 .. MaxRuns, status : Statuses]
        /\ record'.status = "succeeded" => Verdict
    <2> DEFINE status(passed) ==
          IF interrupted THEN "cancelled" ELSE IF passed THEN "succeeded" ELSE "failed"
    <2>1. pc' = "exited" /\ record' = [record EXCEPT !.status = status(Verdict)]
      BY <1>1 DEF Ended
    <2>2. status(Verdict) \in Statuses /\ (status(Verdict) = "succeeded" => Verdict)
      BY DEF Statuses
    <2>3. record \in [run : 0 .. MaxRuns, status : Statuses]
      BY <1>2 DEF TypeOK, Statuses
    <2> HIDE DEF status
    <2> QED BY <2>1, <2>2, <2>3
  <1>4. Replaying'
    BY <1>1, <1>2, <1>3, HaltSound
  <1>5. ThisScales' = ThisScales /\ ThisConvergence' = ThisConvergence /\ (AuditsPassed' <=> AuditsPassed)
    BY <1>1 DEF ThisScales, ThisConvergence, AuditsPassed, Done, Compared, Total
  <1>6. Succeeded' => Verdict
    BY <1>3 DEF Succeeded
  <1>7. Verdict' <=> Verdict
    BY <1>1 DEF Verdict
  <1>8. /\ disk.scales = ThisScales /\ disk.convergence = ThisConvergence
        /\ disk.coverage.run = runs /\ (disk.coverage.audited => AuditsPassed)
    BY <1>1 DEF FilesInv, Publishing
  <1>9. pc' \notin Publishing
    BY <1>3 DEF Publishing
  <1>10. FilesInv'
    BY <1>1, <1>3, <1>5, <1>6, <1>7, <1>8, <1>9 DEF FilesInv, Publishing
  <1> QED BY <1>4, <1>10

\* A build.
LEMMA RestoreSound ==
  ASSUME FilesInv, NEW c \in Components, NEW wanted \in Settings, Restore(c, wanted)
  PROVE  RestoredForThisBuild'
  <1> DEFINE file == disk.scales
             scales == file.snaps[c][file.count]
  <1>1. /\ file # None /\ Restorable(c, file, wanted)
        /\ built' = [run |-> file.run, component |-> c, wanted |-> wanted,
                     trained |-> file.settings, data |-> file.data, scales |-> scales]
    BY DEF Restore
  <1>2. FileSound(file)
    BY <1>1 DEF FilesInv
  <1> HIDE DEF file
  <1>3. /\ file.settings.profile[c] = wanted.profile[c]
        /\ file.count \in DOMAIN file.snaps[c]
    BY <1>1 DEF Restorable, SameProfile
  <1>4. /\ SnapshotsOf(c, file.data, file.snaps[c]) /\ file.data \in DataSets
        /\ file.settings.component \in {c, "all"} /\ file.count = Len(file.data)
    BY <1>2, <1>3 DEF FileSound
  <1>5. \A p \in Points[c] : Measured(p, Shown(c, file.data, p, file.count), scales[p])
    BY <1>3, <1>4 DEF SnapshotsOf
  <1> HIDE DEF scales
  <1>6. \A p \in Points[c] : scales[p].range # NaN =>
          \A v \in Numbers(Shown(c, file.data, p, Len(file.data))) : v <= scales[p].range
    BY <1>4, <1>5 DEF Measured, Peaked, Numbers
  <1>7. /\ built'.component = c /\ built'.wanted = wanted /\ built'.trained = file.settings
        /\ built'.data = file.data /\ built'.scales = scales
    BY <1>1
  <1> QED BY <1>3, <1>4, <1>6, <1>7 DEF RestoredForThisBuild

-----------------------------------------------------------------------------
(* Every step.                                                               *)
LEMMA ReplayingSteps ==
  ASSUME CalibrationInv, Next
  PROVE  Replaying' /\ FilesInv'
  <1>1. Replaying /\ TypeOK /\ JobInv /\ SnapshotsInv /\ ModulesInv /\ FilesInv
    BY DEF CalibrationInv, Replaying
  <1>2. ASSUME NEW settings \in Settings, NEW data \in DataSets, Start(settings, data)
        PROVE  Replaying' /\ FilesInv'
    <2>1. Replaying'
      BY <1>1, <1>2, StartTyped, StartSound DEF Replaying
    <2>2. /\ pc' = "check" /\ disk' = disk
          /\ record' = [run |-> runs', status |-> "running"]
      BY <1>2 DEF Start
    <2>3. pc' \notin Publishing /\ ~Succeeded'
      BY <2>2 DEF Publishing, Succeeded
    <2> QED BY <1>1, <2>1, <2>2, <2>3, FilesUntouched
  <1>3. CASE Check
    <2>1. /\ pc = "check" /\ runs' = runs /\ job' = job /\ done' = done /\ module' = module
          /\ snaps' = snaps /\ contexts' = contexts /\ interrupted' = interrupted /\ disk' = disk
          /\ IF Legacy(job.settings) < Total THEN pc' = FirstPhase /\ UNCHANGED record
             ELSE Ended(FALSE)
      BY <1>3 DEF Check, progress
    <2>2. Running
      BY <2>1 DEF Running, Stopped
    <2>3. CASE Legacy(job.settings) < Total
      <3>1. Replaying'
        BY <1>1, <1>3, <2>3, CheckSound DEF Replaying
      <3>2. pc' \notin Publishing /\ record' = record
        BY <2>1, <2>3 DEF FirstPhase, Publishing
      <3>3. ~Succeeded'
        BY <1>1, <2>2, <3>2 DEF TypeOK, Succeeded
      <3> QED BY <1>1, <2>1, <3>1, <3>2, <3>3, FilesUntouched
    <2>4. CASE ~(Legacy(job.settings) < Total)
      <3>1. Replaying' /\ ~Succeeded' /\ pc' = "exited"
        BY <1>1, <2>1, <2>2, <2>4, BreaksSound
      <3>2. pc' \notin Publishing
        BY <3>1 DEF Publishing
      <3> QED BY <1>1, <2>1, <3>1, <3>2, FilesUntouched
    <2> QED BY <2>3, <2>4
  <1>4. ASSUME NEW c \in Components, Replay(c)
        PROVE  Replaying' /\ FilesInv'
    <2>1. Replaying'
      BY <1>1, <1>4, ReplaySound DEF Replaying
    <2>2. pc' = pc /\ record' = record /\ disk' = disk
      BY <1>4 DEF Replay
    <2>3. pc \notin Publishing /\ ~Succeeded
      BY <1>1, <1>4, ReplayTaken
    <2>4. pc' \notin Publishing /\ ~Succeeded'
      BY <2>2, <2>3 DEF Succeeded
    <2> QED BY <1>1, <2>1, <2>2, <2>4, FilesUntouched
  <1>5. ASSUME NEW c \in Components, Replayed(c)
        PROVE  Replaying' /\ FilesInv'
    <2>1. Replaying'
      BY <1>1, <1>5, ReplayedSound DEF Replaying
    <2>2. /\ pc = c /\ pc' \in {"language", "scales"} /\ record' = record /\ disk' = disk
      BY <1>5 DEF Replayed
    <2>3. Running
      BY <2>2 DEF Running, Components, Stopped
    <2>4. pc' \notin Publishing \ {"scales"} /\ ~Succeeded'
      BY <1>1, <2>2, <2>3 DEF Publishing, TypeOK, Succeeded
    <2> QED BY <1>1, <2>1, <2>2, <2>4, FilesUntouched
  <1>6. CASE PublishScales
    BY <1>1, <1>6, ScalesPublished
  <1>7. CASE PublishCoverage
    BY <1>1, <1>7, CoveragePublished
  <1>8. CASE PublishConvergence
    BY <1>1, <1>8, ConvergencePublished
  <1>9. CASE PublishLegacy
    BY <1>1, <1>9, LegacyPublished
  <1>10. CASE Report
    BY <1>1, <1>10, ReportPublished
  <1>11. CASE Judge
    BY <1>1, <1>11, JudgeSound
  <1>12. CASE Breaks
    <2>1. /\ Running /\ Ended(FALSE) /\ runs' = runs /\ job' = job /\ done' = done
          /\ module' = module /\ snaps' = snaps /\ contexts' = contexts
          /\ interrupted' = interrupted /\ disk' = disk
      BY <1>12 DEF Breaks, progress
    <2>2. Replaying' /\ ~Succeeded' /\ pc' = "exited"
      BY <1>1, <2>1, BreaksSound
    <2>3. pc' \notin Publishing
      BY <2>2 DEF Publishing
    <2> QED BY <1>1, <2>1, <2>2, <2>3, FilesUntouched
  <1>13. CASE Cancel
    <2>1. /\ Running /\ pc' = "exited" /\ record' = [record EXCEPT !.status = "cancelled"]
          /\ runs' = runs /\ job' = job /\ done' = done
          /\ module' = module /\ snaps' = snaps /\ contexts' = contexts
          /\ interrupted' = interrupted /\ disk' = disk
      BY <1>13 DEF Cancel, progress
    <2>2. record \in [run : 0 .. MaxRuns, status : Statuses]
      BY <1>1 DEF TypeOK, Statuses
    <2>3. /\ record' \in [run : 0 .. MaxRuns, status : Statuses] /\ record'.run = record.run
          /\ ~Succeeded'
      BY <2>1, <2>2 DEF Statuses, Succeeded
    <2>4. Replaying'
      BY <1>1, <2>1, <2>3, HaltSound
    <2>5. pc' \notin Publishing
      BY <2>1 DEF Publishing
    <2> QED BY <1>1, <2>1, <2>3, <2>4, <2>5, FilesUntouched
  <1>14. CASE Interrupt
    <2>1. /\ interrupted' = TRUE /\ runs' = runs /\ job' = job /\ pc' = pc /\ done' = done
          /\ module' = module /\ snaps' = snaps /\ contexts' = contexts /\ record' = record
          /\ disk' = disk
      BY <1>14 DEF Interrupt, progress
    <2> QED BY <1>1, <2>1, ReplayingUnmoved, FilesUnmoved
  <1>15. CASE Kill
    <2>1. /\ Running /\ pc' = "killed" /\ record' = record
          /\ runs' = runs /\ job' = job /\ done' = done
          /\ module' = module /\ snaps' = snaps /\ contexts' = contexts
          /\ interrupted' = interrupted /\ disk' = disk
      BY <1>15 DEF Kill, progress
    <2>2. record \in [run : 0 .. MaxRuns, status : Statuses] /\ ~Succeeded'
      BY <1>1, <2>1 DEF TypeOK, Statuses, Succeeded
    <2>3. Replaying'
      BY <1>1, <2>1, <2>2, HaltSound
    <2>4. pc' \notin Publishing
      BY <2>1 DEF Publishing
    <2> QED BY <1>1, <2>1, <2>2, <2>3, <2>4, FilesUntouched
  <1>16. ASSUME NEW c \in Components, NEW wanted \in Settings, Restore(c, wanted)
         PROVE  Replaying' /\ FilesInv'
    <2>1. /\ interrupted' = interrupted /\ runs' = runs /\ job' = job /\ pc' = pc /\ done' = done
          /\ module' = module /\ snaps' = snaps /\ contexts' = contexts /\ record' = record
          /\ disk' = disk
      BY <1>16 DEF Restore, progress
    <2>2. interrupted' \in BOOLEAN
      BY <1>1, <2>1 DEF TypeOK
    <2> QED BY <1>1, <2>1, <2>2, ReplayingUnmoved, FilesUnmoved
  <1> QED BY <1>2, <1>3, <1>4, <1>5, <1>6, <1>7, <1>8, <1>9, <1>10, <1>11, <1>12, <1>13, <1>14,
             <1>15, <1>16 DEF Next

LEMMA RestoredSteps ==
  ASSUME CalibrationInv, Next
  PROVE  RestoredForThisBuild'
  <1>1. FilesInv /\ RestoredForThisBuild
    BY DEF CalibrationInv
  <1>2. ASSUME NEW c \in Components, NEW wanted \in Settings, Restore(c, wanted)
        PROVE  RestoredForThisBuild'
    BY <1>1, <1>2, RestoreSound
  <1>3. CASE built' = built
    BY <1>1, <1>3 DEF RestoredForThisBuild
  <1>4. (\E c \in Components, wanted \in Settings : Restore(c, wanted)) \/ built' = built
    BY DEF Next, Start, Check, Replay, Replayed, PublishScales, PublishCoverage,
           PublishConvergence, PublishLegacy, Publish, Report, Judge, Breaks, Cancel, Interrupt, Kill
  <1> QED BY <1>2, <1>3, <1>4

LEMMA CalibrationSteps == CalibrationInv /\ [Next]_vars => CalibrationInv'
  <1> SUFFICES ASSUME CalibrationInv, [Next]_vars PROVE CalibrationInv'
    OBVIOUS
  <1>1. CASE Next
    BY <1>1, ReplayingSteps, RestoredSteps DEF CalibrationInv, Replaying
  <1>2. CASE UNCHANGED vars
    <2>1. /\ interrupted' = interrupted /\ runs' = runs /\ job' = job /\ pc' = pc /\ done' = done
          /\ module' = module /\ snaps' = snaps /\ contexts' = contexts /\ record' = record
          /\ disk' = disk /\ built' = built
      BY <1>2 DEF vars, progress
    <2>2. Replaying /\ FilesInv /\ RestoredForThisBuild /\ interrupted' \in BOOLEAN
      BY <2>1 DEF CalibrationInv, Replaying, TypeOK
    <2>3. Replaying' /\ FilesInv'
      BY <2>1, <2>2, ReplayingUnmoved, FilesUnmoved
    <2>4. RestoredForThisBuild'
      BY <2>1, <2>2 DEF RestoredForThisBuild
    <2> QED BY <2>3, <2>4 DEF CalibrationInv, Replaying
  <1> QED BY <1>1, <1>2

LEMMA CalibrationAlways == Spec => []CalibrationInv
  BY InitSound, CalibrationSteps, PTL DEF Spec

-----------------------------------------------------------------------------
(* What the files say, by the invariant.                                     *)
LEMMA MeasuredTop ==
  ASSUME NEW p, NEW S, S \subseteq Values \ {Unseen}, NEW entry, Measured(p, S, entry),
         NaN \notin S
  PROVE  /\ S = {} => Top(S) = 0
         /\ S # {} => Top(S) = entry.range /\ entry.range \in S
  <1>1. CASE S = {}
    BY <1>1 DEF Top
  <1>2. CASE S # {}
    <2>1. entry.range \in S /\ entry.range # NaN /\ \A v \in S : v <= entry.range
      BY <1>2 DEF Measured, Peaked
    <2> DEFINE m == entry.range
    <2>2. S \subseteq Int
      BY ValuesFacts
    <2>3. m \in S /\ \A v \in S : m >= v
      BY <2>1, <2>2
    <2> HIDE DEF m
    <2>4. Largest(S) = m
      BY <2>2, <2>3, LargestIs
    <2> QED BY <1>2, <2>1, <2>4 DEF Top, m
  <1> QED BY <1>1, <1>2

\* The last snapshot of a job that succeeded.
LEMMA SucceededFacts ==
  ASSUME CalibrationInv, Succeeded
  PROVE  /\ disk.scales = ThisScales /\ disk.convergence = ThisConvergence
         /\ disk.scales.run = record.run /\ disk.convergence.run = record.run
         /\ disk.coverage.run = record.run /\ disk.coverage.audited /\ disk.coverage.covered
         /\ disk.scales.data = job.data /\ job.data \in DataSets
         /\ \A c \in Components :
              /\ Done(c) <=> Runs(c)
              /\ Runs(c) => \A p \in Points[c] :
                   /\ Measured(p, Shown(c, job.data, p, Total), snaps[c][Total][p])
                   /\ PointValid(p, snaps[c][Total][p])
                   /\ p \in DOMAIN snaps[c][Total]
              /\ \A k \in DOMAIN snaps[c] : /\ k \in 1 .. Total
                   /\ \A p \in Points[c] : Measured(p, Shown(c, job.data, p, k), snaps[c][k][p])
  <1>1. /\ pc = "exited" /\ disk.scales = ThisScales /\ disk.convergence = ThisConvergence
        /\ disk.coverage.run = runs /\ disk.coverage.audited /\ disk.coverage.covered
        /\ AuditsPassed
    BY DEF CalibrationInv, FilesInv, Verdict
  <1>2. record.run = runs
    BY DEF CalibrationInv, TypeOK
  <1>3. /\ ThisScales.run = runs /\ ThisConvergence.run = runs /\ ThisScales.data = job.data
    BY DEF ThisScales, ThisConvergence
  <1>4. Complete /\ pc \notin Components /\ pc # "idle"
    BY <1>1 DEF Complete, Components
  <1>5. job.settings \in Settings /\ job.data \in DataSets /\ Legacy(job.settings) < Total
    BY <1>4 DEF CalibrationInv, JobInv
  <1>6. Total \in Nat /\ Total > 0 /\ Total = Len(job.data)
    BY <1>5, LengthsTyped, SettingsFacts DEF Total
  <1>7. ASSUME NEW c \in Components
        PROVE  /\ DOMAIN snaps[c] = IF Runs(c) THEN Due(job.settings, Total, Total) ELSE {}
               /\ SnapshotsOf(c, job.data, snaps[c])
    <2>1. Behind(c) = IF Runs(c) THEN Total ELSE 0
      BY <1>4 DEF Behind
    <2>2. DOMAIN snaps[c] = Due(job.settings, Total, Behind(c))
      BY <1>4 DEF CalibrationInv, SnapshotsInv
    <2>3. Due(job.settings, Total, 0) = {}
      BY <1>6, DueFacts
    <2>4. DOMAIN snaps[c] # {} => SnapshotsOf(c, job.data, snaps[c])
      BY DEF CalibrationInv, SnapshotsInv
    <2>5. DOMAIN snaps[c] = {} => SnapshotsOf(c, job.data, snaps[c])
      BY DEF SnapshotsOf
    <2> QED BY <2>1, <2>2, <2>3, <2>4, <2>5
  <1>8. Total \in Due(job.settings, Total, Total)
    BY <1>6, DueFacts
  <1>9. ASSUME NEW c \in Components PROVE Done(c) <=> Runs(c)
    BY <1>7, <1>8 DEF Done
  <1>10. ASSUME NEW c \in Components, NEW k \in DOMAIN snaps[c]
         PROVE  /\ k \in 1 .. Total /\ DOMAIN snaps[c][k] = Points[c]
                /\ \A p \in Points[c] : Measured(p, Shown(c, job.data, p, k), snaps[c][k][p])
    BY <1>6, <1>7 DEF SnapshotsOf
  <1>11. ASSUME NEW c \in Components, Runs(c), NEW p \in Points[c]
         PROVE  /\ Measured(p, Shown(c, job.data, p, Total), snaps[c][Total][p])
                /\ PointValid(p, snaps[c][Total][p])
                /\ p \in DOMAIN snaps[c][Total]
    <2>1. Total \in DOMAIN snaps[c]
      BY <1>7, <1>8, <1>11
    <2>2. /\ DOMAIN snaps[c][Total] = Points[c]
          /\ Measured(p, Shown(c, job.data, p, Total), snaps[c][Total][p])
      BY <1>10, <2>1
    <2>3. AuditPassed(snaps[c][Total])
      BY <1>1, <1>9, <1>11 DEF AuditsPassed
    <2> QED BY <2>2, <2>3 DEF AuditPassed
  <1> QED BY <1>1, <1>2, <1>3, <1>5, <1>9, <1>10, <1>11

\* All a module of a job that succeeded was shown.
LEMMA SucceededShown ==
  ASSUME CalibrationInv, Succeeded, NEW c \in Components, Runs(c), NEW p \in Points[c]
  PROVE  LET S == Shown(c, job.data, p, Total)
             range == snaps[c][Total][p].range
         IN /\ S \subseteq Values \ {Unseen} /\ S # {} /\ \A v \in S : Finite(v)
            /\ NaN \notin S
            /\ Top(S) = range /\ range \in S /\ range \in Nat
            /\ p \notin Norms => range > 0
  <1> DEFINE S == Shown(c, job.data, p, Total)
             entry == snaps[c][Total][p]
  <1>1. Measured(p, S, entry) /\ PointValid(p, entry) /\ job.data \in DataSets
    BY SucceededFacts
  <1>2. S \subseteq Values \ {Unseen}
    <2>1. Total \in 0 .. Len(job.data)
      BY <1>1, LengthsTyped DEF Total
    <2> QED BY <1>1, <2>1, ShownFacts
  <1> HIDE DEF S, entry
  <1>3. S # {} /\ \A v \in S : Finite(v)
    BY <1>1, Zenon DEF Measured, Peaked, PointValid
  <1>4. NaN \notin S
    BY <1>3 DEF Finite, NaN
  <1>5. Top(S) = entry.range /\ entry.range \in S
    BY <1>1, <1>2, <1>3, <1>4, MeasuredTop
  <1>6. entry.range \in Nat
    <2> DEFINE m == entry.range
    <2>1. m \in Values /\ Finite(m)
      BY <1>2, <1>3, <1>5
    <2> HIDE DEF m
    <2>2. m \in Int /\ m >= 0
      BY <2>1, ValuesFacts DEF Finite
    <2> QED BY <2>2 DEF m
  <1>7. p \notin Norms => entry.range > 0
    BY <1>1 DEF PointValid
  <1> QED BY <1>2, <1>3, <1>4, <1>5, <1>6, <1>7 DEF S, entry

LEMMA AuditedByInv == CalibrationInv => SucceededIsAudited
  <1> SUFFICES ASSUME CalibrationInv, Succeeded
               PROVE  /\ {disk.scales.run, disk.coverage.run, disk.convergence.run} = {record.run}
                      /\ disk.coverage.audited /\ disk.coverage.covered
                      /\ \A c \in Components : Runs(c) => \A p \in Points[c] :
                           LET shown == Shown(c, disk.scales.data, p, Len(disk.scales.data))
                           IN /\ shown # {}
                              /\ \A v \in shown : Finite(v)
                              /\ p \in Norms \/ Top(shown) > 0
    BY DEF SucceededIsAudited, Succeeded
  <1>1. /\ disk.scales.run = record.run /\ disk.convergence.run = record.run
        /\ disk.coverage.run = record.run /\ disk.coverage.audited /\ disk.coverage.covered
        /\ disk.scales.data = job.data /\ Len(disk.scales.data) = Total
    BY SucceededFacts DEF Total
  <1>2. ASSUME NEW c \in Components, Runs(c), NEW p \in Points[c]
        PROVE  LET shown == Shown(c, job.data, p, Total)
               IN shown # {} /\ (\A v \in shown : Finite(v)) /\ (p \in Norms \/ Top(shown) > 0)
    BY <1>2, SucceededShown
  <1> QED BY <1>1, <1>2

\* A job on record as succeeded has left its own three files, and its data
\* showed every tracked module of its components only finite values, and
\* every ConstFakeQuant something other than zero.
THEOREM SucceededJobsAreAudited == Spec => []SucceededIsAudited
  BY CalibrationAlways, AuditedByInv, PTL

\* A build that gets its scales gets those of a replay under its own profile,
\* wide enough for every number that replay showed the point.
THEOREM ScalesAreForTheirBuild == Spec => []RestoredForThisBuild
  <1>1. CalibrationInv => RestoredForThisBuild
    BY DEF CalibrationInv
  <1> QED BY <1>1, CalibrationAlways, PTL

\* The snapshots of a whole replay: two at least, and the last at its end.
LEMMA WholeReplay ==
  ASSUME NEW s \in Settings, NEW total \in Nat, Legacy(s) < total
  PROVE  LET kept == Due(s, total, total)
         IN kept # {} /\ Largest(kept) = total /\ Cardinality(kept) > 1
  <1> DEFINE kept == Due(s, total, total)
             checkpoint == Legacy(s)
  <1>1. checkpoint \in Nat \ {0} /\ checkpoint \in Configured(s) /\ checkpoint < total
    BY SettingsFacts
  <1>2. total \in kept
    BY <1>1, DueFacts
  <1>3. checkpoint \in kept
    BY <1>1 DEF Due, SnapshotSamples, Evaluated
  <1>4. kept \subseteq 1 .. total
    BY DEF Due
  <1> HIDE DEF kept, checkpoint
  <1>5. Largest(kept) = total
    <2>1. kept \subseteq Int /\ \A y \in kept : total >= y
      BY <1>4
    <2> QED BY <1>2, <2>1, LargestIs
  <1>6. IsFiniteSet(kept)
    <2>1. IsFiniteSet(1 .. total)
      BY FS_Interval
    <2> QED BY <1>4, <2>1, FS_Subset
  <1>7. Cardinality(kept) > 1
    <2> DEFINE pair == {checkpoint, total}
               one == {checkpoint}
    <2>1. IsFiniteSet(one) /\ Cardinality(one) = 1
      BY FS_Singleton
    <2>2. total \notin one /\ pair = one \cup {total}
      BY <1>1
    <2> HIDE DEF one
    <2>3. IsFiniteSet(pair) /\ Cardinality(pair) = 2
      BY <2>1, <2>2, FS_AddElement
    <2>4. pair \subseteq kept
      BY <1>2, <1>3
    <2> HIDE DEF pair
    <2>5. Cardinality(pair) <= Cardinality(kept) /\ Cardinality(kept) \in Nat
      BY <1>6, <2>4, FS_Subset, FS_CardinalityType
    <2> QED BY <2>3, <2>5
  <1> QED BY <1>2, <1>5, <1>7 DEF kept

LEMMA ScalesByInv == CalibrationInv => ScalesOfWholeReplay
  <1> DEFINE file == disk.scales
             Sound(c, k, p) ==
               LET shown == Shown(c, file.data, p, k)
               IN NaN \notin shown \/ p \notin Norms =>
                    file.snaps[c][k][p].range =
                      IF NaN \in shown THEN NaN
                      ELSE IF shown = {} /\ p \in Norms THEN Unseen ELSE Top(shown)
             Kept(c) == DOMAIN file.snaps[c]
  <1> SUFFICES ASSUME CalibrationInv, file # None, NEW c \in Components
               PROVE  /\ Kept(c) # {} <=> file.settings.component \in {c, "all"}
                      /\ Kept(c) # {} =>
                           Largest(Kept(c)) = Len(file.data) /\ Cardinality(Kept(c)) > 1
                      /\ \A k \in Kept(c), p \in Points[c] : Sound(c, k, p)
    BY DEF ScalesOfWholeReplay
  <1>1. FileSound(file)
    BY DEF CalibrationInv, FilesInv
  <1>2. /\ file.settings \in Settings /\ file.data \in DataSets
        /\ Legacy(file.settings) < Len(file.data) /\ Len(file.data) \in Nat
        /\ SnapshotsOf(c, file.data, file.snaps[c])
        /\ Kept(c) = IF file.settings.component \in {c, "all"}
                     THEN Due(file.settings, Len(file.data), Len(file.data)) ELSE {}
    BY <1>1, LengthsTyped DEF FileSound
  <1> DEFINE whole == Due(file.settings, Len(file.data), Len(file.data))
             settings == file.settings
             n == Len(file.data)
  <1>3. whole # {} /\ Largest(whole) = Len(file.data) /\ Cardinality(whole) > 1
    <2>1. settings \in Settings /\ n \in Nat /\ Legacy(settings) < n
      BY <1>2
    <2> HIDE DEF settings, n
    <2>2. Due(settings, n, n) # {} /\ Largest(Due(settings, n, n)) = n
          /\ Cardinality(Due(settings, n, n)) > 1
      BY <2>1, WholeReplay
    <2> QED BY <2>2 DEF settings, n
  <1>4. ASSUME NEW k \in Kept(c), NEW p \in Points[c] PROVE Sound(c, k, p)
    <2> DEFINE S == Shown(c, file.data, p, k)
               entry == file.snaps[c][k][p]
    <2>1. Measured(p, S, entry) /\ k \in 1 .. Len(file.data)
      BY <1>2 DEF SnapshotsOf
    <2>2. S \subseteq Values \ {Unseen}
      <3>1. k \in 0 .. Len(file.data)
        BY <1>2, <2>1
      <3> QED BY <1>2, <3>1, ShownFacts
    <2> SUFFICES NaN \notin S \/ p \notin Norms =>
                   entry.range = IF NaN \in S THEN NaN
                                 ELSE IF S = {} /\ p \in Norms THEN Unseen ELSE Top(S)
      OBVIOUS
    <2> HIDE DEF S, entry
    <2>3. CASE NaN \in S /\ p \notin Norms
      BY <2>1, <2>3 DEF Measured, Peaked
    <2>4. CASE NaN \notin S
      <3>1. (S = {} => Top(S) = 0) /\ (S # {} => Top(S) = entry.range)
        BY <2>1, <2>2, <2>4, MeasuredTop
      <3>2. S = {} => entry.range = IF p \in Norms THEN Unseen ELSE 0
        BY <2>1 DEF Measured
      <3> QED BY <2>4, <3>1, <3>2
    <2> QED BY <2>3, <2>4
  <1> QED BY <1>2, <1>3, <1>4

\* A point that is no outlier had reached nine tenths of its scale.
LEMMA NearlyReached ==
  ASSUME NEW p, NEW before, NEW after,
         before.range \in Int, after.range \in Nat, before.range # NaN,
         10 * (Metric(p, after) - Metric(p, before)) <= Metric(p, after),
         NEW early, early = IF before.range = Unseen THEN 0 ELSE before.range
  PROVE  10 * early >= 9 * after.range \/ (p \in Norms /\ after.range <= 1)
  <1> DEFINE b == before.range
             a == after.range
             mb == Metric(p, before)
             ma == Metric(p, after)
  <1>1. b \in Int /\ a \in Nat
    OBVIOUS
  <1>2. /\ mb = IF p \in Norms THEN (IF b > 1 THEN b ELSE 1) ELSE b
        /\ ma = IF p \in Norms THEN (IF a > 1 THEN a ELSE 1) ELSE a
    BY DEF Metric
  <1>3. 10 * (ma - mb) <= ma /\ early = IF b = Unseen THEN 0 ELSE b
    OBVIOUS
  <1> SUFFICES 10 * early >= 9 * a \/ (p \in Norms /\ a <= 1)
    OBVIOUS
  <1> HIDE DEF b, a, mb, ma
  <1>4. CASE p \in Norms
    BY <1>1, <1>2, <1>3, <1>4 DEF Unseen
  <1>5. CASE p \notin Norms
    BY <1>1, <1>2, <1>3, <1>5 DEF Unseen
  <1> QED BY <1>4, <1>5

LEMMA ConvergenceByInv == CalibrationInv => ConvergenceBelieved
  <1> SUFFICES ASSUME CalibrationInv, Succeeded, NEW c \in Components,
                      NEW k \in DOMAIN disk.convergence.compared[c],
                      NEW p \in Points[c] \ disk.convergence.compared[c][k]
               PROVE  LET early == Top(Shown(c, disk.scales.data, p, k))
                          late == Top(Shown(c, disk.scales.data, p, Len(disk.scales.data)))
                      IN 10 * early >= 9 * late \/ (p \in Norms /\ late <= 1)
    BY DEF ConvergenceBelieved, Succeeded
  <1>1. /\ disk.convergence = ThisConvergence
        /\ disk.scales.data = job.data /\ Len(disk.scales.data) = Total /\ job.data \in DataSets
    BY SucceededFacts DEF Total
  <1>2. disk.convergence.compared[c] = IF Done(c) THEN Compared(c) ELSE <<>>
    BY <1>1 DEF ThisConvergence
  <1>3. Done(c)
    BY <1>2
  <1>4. /\ k \in DOMAIN snaps[c]
        /\ p \notin Outliers(snaps[c][k], snaps[c][Total])
    BY <1>2, <1>3 DEF Compared
  <1> DEFINE before == snaps[c][k][p]
             after == snaps[c][Total][p]
             S == Shown(c, job.data, p, k)
             T == Shown(c, job.data, p, Total)
  <1>5. /\ Runs(c) /\ k \in 1 .. Total /\ Measured(p, S, before)
        /\ p \in DOMAIN snaps[c][Total]
    BY <1>3, <1>4, SucceededFacts
  <1>6. /\ T \subseteq Values \ {Unseen} /\ T # {} /\ NaN \notin T
        /\ Top(T) = after.range /\ after.range \in Nat
    BY <1>5, SucceededShown
  <1>7. S \subseteq T
    <2>1. k \in 0 .. Len(job.data) /\ Total \in 0 .. Len(job.data) /\ k <= Total
      BY <1>1, <1>5, LengthsTyped DEF Total
    <2> QED BY <1>1, <2>1, ShownFacts DEF Total
  <1>8. \/ NaN \in {after.range, before.range}
        \/ LET drift == Metric(p, after) - Metric(p, before)
           IN ~(10 * (IF drift < 0 THEN 0 - drift ELSE drift) > Metric(p, after))
    BY <1>4, <1>5 DEF Outliers
  <1> SUFFICES 10 * Top(S) >= 9 * Top(T) \/ (p \in Norms /\ Top(T) <= 1)
    BY <1>1
  <1> HIDE DEF before, after, S, T
  <1>9. /\ S = {} => Top(S) = 0
        /\ S # {} => Top(S) = before.range /\ before.range \in S
    BY <1>5, <1>6, <1>7, MeasuredTop
  <1>10. S = {} => before.range = IF p \in Norms THEN Unseen ELSE 0
    BY <1>5 DEF Measured
  <1> DEFINE b == before.range
             early == Top(S)
  <1>11. b \in Int /\ b # NaN /\ early = IF b = Unseen THEN 0 ELSE b
    <2>1. CASE S = {}
      BY <1>9, <1>10, <2>1 DEF Unseen, NaN
    <2>2. CASE S # {}
      <3>1. b \in Values /\ b # Unseen /\ b # NaN
        BY <1>6, <1>7, <1>9, <2>2
      <3> QED BY <1>9, <2>2, <3>1, ValuesFacts
    <2> QED BY <2>1, <2>2
  <1>12. after.range # NaN
    BY <1>6 DEF NaN
  <1>13. 10 * (Metric(p, after) - Metric(p, before)) <= Metric(p, after)
    <2> DEFINE ma == Metric(p, after)
               mb == Metric(p, before)
               drift == ma - mb
    <2>1. ma \in Int /\ mb \in Int
      BY <1>6, <1>11 DEF Metric
    <2>2. ~(10 * (IF drift < 0 THEN 0 - drift ELSE drift) > ma)
      BY <1>8, <1>11, <1>12
    <2> HIDE DEF ma, mb
    <2>3. 10 * (ma - mb) <= ma
      BY <2>1, <2>2
    <2> QED BY <2>3 DEF ma, mb
  <1> HIDE DEF early
  <1>14. 10 * early >= 9 * after.range \/ (p \in Norms /\ after.range <= 1)
    BY <1>6, <1>11, <1>13, NearlyReached
  <1> QED BY <1>6, <1>14 DEF early

\* Whatever happens to the jobs, the scales in the file are those of a whole
\* replay, and the convergence file of a job on record as succeeded names
\* every point that had not reached nine tenths of its scale by the checkpoint.
THEOREM ScalesAreSound == Spec => []ScalesSound
  <1>1. CalibrationInv => ScalesSound
    BY ScalesByInv, ConvergenceByInv DEF ScalesSound, CalibrationInv
  <1> QED BY <1>1, CalibrationAlways, PTL

------------------------------------------------------------------------------
\* f is the value stepped on.
Stepped(f, S, base, N, step) ==
  /\ f \in [0 .. N -> S] /\ f[0] = base
  /\ \A i \in 1 .. N : f[i] = step[i][f[i - 1]]

LEMMA IteratesTo ==
  ASSUME NEW S, NEW base \in S, NEW N \in Nat, NEW step \in [1 .. N -> [S -> S]]
  PROVE  \E f : Stepped(f, S, base, N, step)
  <1>1. PICK f \in [0 .. N -> S] : f[0] = base /\ \A i \in 1 .. N : f[i] = step[i][f[i - 1]]
    BY Iterates
  <1>2. Stepped(f, S, base, N, step)
    BY <1>1 DEF Stepped
  <1> QED BY <1>2

-----------------------------------------------------------------------------
(* Audits.  The steps of a run: a quantized pass that is compared comes right *)
(* after the Float pass it is compared with.                                 *)
Sides == {"reference", "candidate"}
Stages == {"prefill", "pbd_q6", "ar_q1"}
Places == Stages \cup {"coordinate_prefill", "coordinate_pbd_q6", "unassigned"}
StepSet == [stage : Stages, at : Places, side : Sides, captured : BOOLEAN]
Compares(step, side) == step.captured /\ step.side = side

Paired(s) ==
  /\ s \in Seq(StepSet)
  /\ \A k \in 1 .. Len(s) : Compares(s[k], "candidate") =>
       k > 1 /\ Compares(s[k - 1], "reference") /\ s[k - 1].at = s[k].at
NoneSlow(s) == \A k \in 1 .. Len(s) : s[k].captured => s[k].stage # "ar_q1"

References == [at : Places, hook : 1 .. Hooks, run : Nat, call : Nat]
Boundaries == [run : Nat, call : Nat, hook : Nat, against : References]
OfPass(step, n) == {[at |-> step.at, hook |-> hook, run |-> run, call |-> n] : hook \in 1 .. Hooks}
Roundings == {"activation", "weight", "left", "right", "unsigned", "dynamic", "static"}
RowSet == [module : DOMAIN Kind, rounded : SUBSET Roundings]

Active == kind # "none"
Last == steps[callsDone]

(* Who has the model, and what it may be switched to.                        *)
ModelInv ==
  /\ owner \in {"none", "installed", "float", "quantized", "lost"}
  /\ installed = IF owner \in {"none", "float"} THEN {} ELSE Inventory
  /\ policy = NoPolicy \/ Constructed(policy)
  /\ Active => owner \in {"float", "quantized"}
  /\ dynamic \subseteq installed /\ cached \subseteq installed

(* Where the run is.                                                         *)
StepsInv ==
  /\ kind \in {"none", "eager", "coordinates"} /\ run \in Nat
  /\ Paired(steps) /\ callsDone \in 0 .. Len(steps)
  /\ kind = "coordinates" => NoneSlow(steps)

(* The references of the Float pass just made, and no others for its place.  *)
ReferencesInv ==
  /\ phase \in {"off", "reference", "candidate"}
  /\ references \subseteq References
  /\ Active /\ callsDone > 0 /\ Compares(Last, "reference") =>
       {r \in references : r.at = Last.at} = OfPass(Last, callsDone)
  /\ ~Active /\ run \notin unfinished => ~enabled /\ phase = "off" /\ references = {}

(* The boundaries collected: of this run, or of runs cut short.              *)
BoundaryInv(b) ==
  /\ b.against.run = b.run /\ b.against.call = b.call - 1 /\ b.run <= run
  /\ b.run \in unfinished \/ (Active /\ b.run = run)
  /\ Active /\ b.run = run => b.call \in 1 .. callsDone /\ steps[b.call].captured
BoundariesInv ==
  /\ boundaries \in Seq(Boundaries)
  /\ \A i \in 1 .. Len(boundaries) : BoundaryInv(boundaries[i])

OperatorsInv ==
  /\ operators \in Seq([row : RowSet, call : Nat])
  /\ \A i \in 1 .. Len(operators) :
       operators[i].call \in 1 .. callsDone /\ Compares(steps[operators[i].call], "candidate")

AuditInv ==
  /\ ModelInv /\ StepsInv /\ ReferencesInv /\ BoundariesInv /\ OperatorsInv
  /\ PassesOnTheirSide /\ OperatorRowsOnce /\ ReportsItsOwn

\* What the next conjuncts of an invariant are read from.
LEMMA OperatorFacts ==
  /\ Len(Ops) \in Nat /\ DOMAIN Ops = 1 .. Len(Ops)
  /\ \A i \in 1 .. Len(Ops) : Ops[i] \in DOMAIN Kind
  /\ \A i, j \in 1 .. Len(Ops) : Ops[i] = Ops[j] => i = j
  /\ Operators = {Ops[i] : i \in 1 .. Len(Ops)}
  /\ Operators \subseteq DOMAIN Kind
  <1>1. Ops \in Seq(DOMAIN Kind)
    BY OperatorsGiven
  <1>2. Len(Ops) \in Nat /\ DOMAIN Ops = 1 .. Len(Ops)
    BY <1>1
  <1>3. \A i \in 1 .. Len(Ops) : Ops[i] \in DOMAIN Kind
    BY <1>1
  <1>4. \A i, j \in 1 .. Len(Ops) : Ops[i] = Ops[j] => i = j
    BY <1>2, OperatorsGiven, Zenon
  <1>5. Operators = {Ops[i] : i \in 1 .. Len(Ops)}
    BY <1>2 DEF Operators
  <1> QED BY <1>2, <1>3, <1>4, <1>5

\* What an operator rounds.
LEMMA RoundedFacts ==
  ASSUME NEW op \in DOMAIN Kind, NEW mode
  PROVE  /\ Rounded(op, mode) \subseteq Roundings
         /\ mode \in {"float", "observed"} => Rounded(op, mode) = {}
         /\ mode \in Modes(Kind[op]) \ {"float"} =>
              (Rounded(op, mode) = {} <=> Kind[op] = "fake_matmul" /\ mode = "quantized")
  <1>1. Kind[op] \in {"linear", "matmul", "fake_matmul", "static"}
    BY OperatorsGiven
  <1>2. CASE mode \in {"float", "observed"}
    <2>1. Rounded(op, mode) = {}
      BY <1>2 DEF Rounded
    <2>2. mode \notin Modes(Kind[op]) \ {"float"}
      BY <1>1, <1>2 DEF Modes
    <2> QED BY <2>1, <2>2
  <1>3. CASE mode \notin {"float", "observed"} /\ Kind[op] = "linear"
    <2>1. Rounded(op, mode) = (IF mode = "float_activation" THEN {} ELSE {"activation"})
                              \cup (IF mode = "float_weight" THEN {} ELSE {"weight"})
      BY <1>3 DEF Rounded
    <2>2. Rounded(op, mode) \subseteq Roundings
      BY <2>1 DEF Roundings
    <2>3. "activation" \in Rounded(op, mode) \/ "weight" \in Rounded(op, mode)
      BY <2>1
    <2> QED BY <1>3, <2>2, <2>3
  <1>4. CASE mode \notin {"float", "observed"} /\ Kind[op] = "matmul"
    <2>1. Rounded(op, mode) = {"left", "right"}
      BY <1>4 DEF Rounded
    <2> QED BY <1>4, <2>1 DEF Roundings
  <1>5. CASE mode \notin {"float", "observed"} /\ Kind[op] = "fake_matmul"
    <2>1. Rounded(op, mode) = IF mode = "quantized" THEN {} ELSE {"left", "right"}
      BY <1>5 DEF Rounded
    <2> QED BY <1>5, <2>1 DEF Roundings
  <1>6. CASE mode \notin {"float", "observed"} /\ Kind[op] = "static"
    <2>1. \E how \in Roundings : Rounded(op, mode) = {how}
      <3>1. Rounded(op, mode) = {IF mode = "nonnegative_u8" THEN "unsigned"
                                 ELSE IF op \in dynamic THEN "dynamic" ELSE "static"}
        BY <1>6 DEF Rounded
      <3> QED BY <3>1 DEF Roundings
    <2> QED BY <1>6, <2>1
  <1> QED BY <1>1, <1>2, <1>3, <1>4, <1>5, <1>6

\* A sequence of rows, the operators in it, and each of them once.
Modules(s) == {s[k].module : k \in 1 .. Len(s)}
OnceEach(s) == \A k, l \in 1 .. Len(s) : s[k].module = s[l].module => k = l

LEMMA RowAppended ==
  ASSUME NEW s \in Seq(RowSet), NEW r \in RowSet, r.module \notin Modules(s), OnceEach(s)
  PROVE  /\ Append(s, r) \in Seq(RowSet) /\ OnceEach(Append(s, r))
         /\ Modules(Append(s, r)) = Modules(s) \cup {r.module}
  <1> DEFINE t == Append(s, r)
             n == Len(s)
  <1>1. t \in Seq(RowSet) /\ Len(t) = n + 1 /\ n \in Nat
    OBVIOUS
  <1>2. t[n + 1] = r /\ \A k \in 1 .. n : t[k] = s[k]
    OBVIOUS
  <1> HIDE DEF t
  <1>3. \A k \in 1 .. n : s[k].module \in Modules(s)
    BY DEF Modules
  <1>4. OnceEach(t)
    <2>1. SUFFICES ASSUME NEW k \in 1 .. n + 1, NEW l \in 1 .. n + 1, t[k].module = t[l].module
                   PROVE  k = l
      BY <1>1 DEF OnceEach
    <2>2. CASE k \in 1 .. n /\ l \in 1 .. n
      BY <1>2, <2>1, <2>2 DEF OnceEach
    <2>3. CASE k = n + 1 /\ l \in 1 .. n
      BY <1>2, <1>3, <2>1, <2>3
    <2>4. CASE l = n + 1 /\ k \in 1 .. n
      BY <1>2, <1>3, <2>1, <2>4
    <2> QED BY <1>1, <2>2, <2>3, <2>4
  <1>5. Modules(t) = Modules(s) \cup {r.module}
    <2>1. ASSUME NEW k \in 1 .. n + 1 PROVE t[k].module \in Modules(s) \cup {r.module}
      BY <1>1, <1>2, <1>3
    <2>2. ASSUME NEW m \in Modules(s) \cup {r.module} PROVE \E k \in 1 .. n + 1 : m = t[k].module
      <3>1. CASE m = r.module
        BY <1>1, <1>2, <3>1
      <3>2. CASE m \in Modules(s)
        <4>1. PICK k \in 1 .. n : m = s[k].module
          BY <3>2 DEF Modules
        <4> QED BY <1>1, <1>2, <4>1
      <3> QED BY <3>1, <3>2
    <2> QED BY <1>1, <2>1, <2>2 DEF Modules
  <1> QED BY <1>1, <1>4, <1>5 DEF t

-----------------------------------------------------------------------------
(* The rows of a forward: each operator that rounds something, once.         *)
Rounding(turnedOn, on, i) == {Ops[j] : j \in {k \in 1 .. i : Records(turnedOn, on, Ops[k])}}
RowsUpTo(turnedOn, on, i, s) ==
  s \in Seq(RowSet) /\ OnceEach(s) /\ Modules(s) = Rounding(turnedOn, on, i)

RowNext(turnedOn, on, i, s) ==
  IF Records(turnedOn, on, Ops[i]) THEN Append(s, Row(turnedOn, on, Ops[i])) ELSE s
RowsCollected(turnedOn, on, f) ==
  f = [i \in 0 .. Len(Ops) |-> IF i = 0 THEN <<>> ELSE RowNext(turnedOn, on, i, f[i - 1])]

LEMMA RowTyped ==
  ASSUME NEW turnedOn, NEW on, NEW op \in DOMAIN Kind
  PROVE  Row(turnedOn, on, op) \in RowSet /\ Row(turnedOn, on, op).module = op
  <1> DEFINE r == Rounded(op, Mode(turnedOn, on, op))
  <1>1. r \subseteq Roundings
    BY RoundedFacts
  <1>2. Row(turnedOn, on, op) = [module |-> op, rounded |-> r]
    BY DEF Row
  <1> HIDE DEF r
  <1> QED BY <1>1, <1>2 DEF RowSet

LEMMA RowsFollow ==
  ASSUME NEW turnedOn, NEW on, NEW i \in 1 .. Len(Ops), NEW s,
         RowsUpTo(turnedOn, on, i - 1, s)
  PROVE  RowsUpTo(turnedOn, on, i, RowNext(turnedOn, on, i, s))
  <1> DEFINE op == Ops[i]
  <1>1. op \in DOMAIN Kind /\ i \in Nat /\ Len(Ops) \in Nat
    BY OperatorFacts
  <1>2. Rounding(turnedOn, on, i) =
          Rounding(turnedOn, on, i - 1)
            \cup (IF Records(turnedOn, on, op) THEN {op} ELSE {})
    BY <1>1 DEF Rounding
  <1>3. op \notin Rounding(turnedOn, on, i - 1)
    <2>1. \A j \in 1 .. i - 1 : Ops[j] # op
      BY <1>1, OperatorFacts
    <2> QED BY <2>1 DEF Rounding
  <1>4. CASE Records(turnedOn, on, op)
    <2>1. RowNext(turnedOn, on, i, s) = Append(s, Row(turnedOn, on, op))
      BY <1>4 DEF RowNext
    <2>2. Row(turnedOn, on, op) \in RowSet /\ Row(turnedOn, on, op).module = op
      BY <1>1, RowTyped
    <2> DEFINE r == Row(turnedOn, on, op)
    <2>3. s \in Seq(RowSet) /\ OnceEach(s) /\ Modules(s) = Rounding(turnedOn, on, i - 1)
      BY DEF RowsUpTo
    <2>4. r \in RowSet /\ r.module \notin Modules(s)
      BY <1>3, <2>2, <2>3
    <2> HIDE DEF r
    <2>5. /\ Append(s, r) \in Seq(RowSet) /\ OnceEach(Append(s, r))
          /\ Modules(Append(s, r)) = Modules(s) \cup {r.module}
      BY <2>3, <2>4, RowAppended
    <2> QED BY <1>2, <1>4, <2>1, <2>2, <2>3, <2>5 DEF RowsUpTo, r
  <1>5. CASE ~Records(turnedOn, on, op)
    <2>1. RowNext(turnedOn, on, i, s) = s /\ Rounding(turnedOn, on, i) = Rounding(turnedOn, on, i - 1)
      BY <1>2, <1>5 DEF RowNext
    <2> QED BY <2>1 DEF RowsUpTo
  <1> QED BY <1>4, <1>5

LEMMA RecordedFacts ==
  ASSUME NEW turnedOn, NEW on
  PROVE  RowsUpTo(turnedOn, on, Len(Ops), Recorded(turnedOn, on))
  <1> DEFINE n == Len(Ops)
             T == Seq(RowSet)
             next(k, s) == RowNext(turnedOn, on, k, s)
             step == [k \in 1 .. n |-> [s \in T |-> next(k, s)]]
  <1>1. n \in Nat
    BY OperatorFacts
  <1>2. ASSUME NEW k \in 1 .. n, NEW s \in T PROVE next(k, s) \in T
    <2>1. Row(turnedOn, on, Ops[k]) \in RowSet
      BY OperatorFacts, RowTyped
    <2> QED BY <2>1 DEF RowNext
  <1> HIDE DEF n, next
  <1>3. step \in [1 .. n -> [T -> T]] /\ <<>> \in T
    BY <1>2
  <1>4. \A k \in 1 .. n, s \in T : step[k][s] = next(k, s)
    OBVIOUS
  <1> HIDE DEF step, T
  <1>5. PICK f \in [0 .. n -> T] : f[0] = <<>> /\ \A k \in 1 .. n : f[k] = step[k][f[k - 1]]
    <2> DEFINE first == <<>>
    <2>1. first \in T
      BY <1>3
    <2> HIDE DEF first
    <2>2. \E f \in [0 .. n -> T] :
            /\ f[0] = first
            /\ \A i \in 1 .. n : f[i] = step[i][f[i - 1]]
      <3>1. n \in Nat
        BY <1>1
      <3>2. step \in [1 .. n -> [T -> T]]
        BY <1>3
      <3> QED BY ONLY <3>1, <3>2, <2>1, Iterates, SMT
    <2> QED BY <2>2 DEF first
  <1>6. \A k \in 1 .. n : f[k] = next(k, f[k - 1])
    BY <1>1, <1>4, <1>5
  <1>7. RowsCollected(turnedOn, on, f)
    <2> DEFINE value(k) == IF k = 0 THEN <<>> ELSE next(k, f[k - 1])
    <2>1. \A k \in 0 .. n : f[k] = value(k)
      BY <1>1, <1>5, <1>6
    <2> HIDE DEF value
    <2>2. f = [k \in 0 .. n |-> value(k)]
      BY <1>5, <2>1
    <2> QED BY <2>2 DEF value, next, n, RowsCollected
  <1> DEFINE g == CHOOSE h : RowsCollected(turnedOn, on, h)
  <1>8. RowsCollected(turnedOn, on, g)
    BY <1>7, Zenon
  <1>9. Recorded(turnedOn, on) = g[Len(Ops)]
    BY DEF Recorded, RowsCollected, RowNext
  <1> HIDE DEF g
  <1>10. g = [k \in 0 .. n |-> IF k = 0 THEN <<>> ELSE next(k, g[k - 1])]
    BY <1>8 DEF RowsCollected, next, n
  <1>11. g[0] = <<>> /\ \A k \in 1 .. n : g[k] = next(k, g[k - 1])
    BY <1>1, <1>10
  <1> DEFINE P == {k \in 0 .. n : RowsUpTo(turnedOn, on, k, g[k])}
  <1>12. 0 \in P
    <2>1. Rounding(turnedOn, on, 0) = {} /\ Modules(<<>>) = {} /\ OnceEach(<<>>)
      BY DEF Rounding, Modules, OnceEach
    <2>2. <<>> \in Seq(RowSet)
      OBVIOUS
    <2>3. RowsUpTo(turnedOn, on, 0, <<>>)
      BY <2>1, <2>2, Zenon DEF RowsUpTo
    <2> QED BY <1>1, <1>11, <2>3
  <1>13. ASSUME NEW k \in 1 .. n, k - 1 \in P PROVE k \in P
    <2>1. RowsUpTo(turnedOn, on, k - 1, g[k - 1])
      BY <1>13
    <2>2. RowsUpTo(turnedOn, on, k, next(k, g[k - 1]))
      BY <2>1, RowsFollow DEF n, next
    <2> QED BY <1>1, <1>11, <2>2
  <1> HIDE DEF P
  <1>14. n \in P
    <2>1. \A k \in 0 .. n : k \in P
      BY <1>1, <1>12, <1>13, Induction
    <2> QED BY <1>1, <2>1
  <1> QED BY <1>9, <1>14 DEF P, n

-----------------------------------------------------------------------------
(* The steps of a run, box after box.                                        *)
LEMMA StepTyped ==
  ASSUME NEW on \in Stages, NEW at \in Places, NEW side \in Sides, NEW captured \in BOOLEAN
  PROVE  /\ Step(on, at, side, captured) \in StepSet
         /\ Step(on, at, side, captured).stage = on /\ Step(on, at, side, captured).at = at
         /\ Step(on, at, side, captured).side = side
         /\ Step(on, at, side, captured).captured = captured
  BY DEF Step, StepSet

LEMMA BothPaired ==
  ASSUME NEW on \in Stages, NEW at \in Places
  PROVE  Paired(Both(on, at)) /\ (on # "ar_q1" => NoneSlow(Both(on, at)))
  <1> DEFINE s == Both(on, at)
  <1>1. "reference" \in Sides /\ "candidate" \in Sides /\ TRUE \in BOOLEAN
    BY DEF Sides
  <1> DEFINE ref == Step(on, at, "reference", TRUE)
             cand == Step(on, at, "candidate", TRUE)
  <1>2. /\ ref \in StepSet /\ ref.stage = on /\ ref.at = at
        /\ ref.side = "reference" /\ ref.captured
    BY <1>1 DEF Step, StepSet
  <1>3. /\ cand \in StepSet /\ cand.stage = on /\ cand.at = at
        /\ cand.side = "candidate" /\ cand.captured
    BY <1>1 DEF Step, StepSet
  <1>4. s = <<ref, cand>>
    BY DEF Both
  <1> HIDE DEF ref, cand, s
  <1>5. s \in Seq(StepSet) /\ Len(s) = 2 /\ s[1] = ref /\ s[2] = cand
    BY <1>2, <1>3, <1>4
  <1>6. ASSUME NEW k \in 1 .. 2 PROVE k = 1 \/ k = 2
    OBVIOUS
  <1>7. Paired(s)
    BY <1>2, <1>3, <1>5, <1>6 DEF Paired, Compares
  <1>8. on # "ar_q1" => NoneSlow(s)
    BY <1>2, <1>3, <1>5, <1>6 DEF NoneSlow
  <1> QED BY <1>7, <1>8 DEF s

LEMMA UncapturedPaired ==
  ASSUME NEW s \in Seq(StepSet), \A k \in 1 .. Len(s) : ~s[k].captured
  PROVE  Paired(s) /\ NoneSlow(s)
  BY DEF Paired, NoneSlow, Compares

LEMMA FallbackPaired ==
  ASSUME NEW side \in Sides, NEW n \in Nat
  PROVE  Paired(Fallback(side, n)) /\ NoneSlow(Fallback(side, n))
  <1> DEFINE step == Step("ar_q1", "unassigned", side, FALSE)
             s == Fallback(side, n)
  <1>1. step \in StepSet /\ ~step.captured
    <2>1. "ar_q1" \in Stages /\ "unassigned" \in Places /\ FALSE \in BOOLEAN
      BY DEF Stages, Places
    <2> QED BY <2>1, StepTyped
  <1>2. s = [i \in 1 .. n |-> step]
    BY DEF Fallback
  <1> HIDE DEF step, s
  <1>3. s \in Seq(StepSet) /\ Len(s) = n /\ \A k \in 1 .. n : s[k] = step
    BY <1>1, <1>2
  <1>4. \A k \in 1 .. Len(s) : ~s[k].captured
    BY <1>1, <1>3
  <1>5. Paired(s) /\ NoneSlow(s)
    BY <1>3, <1>4, UncapturedPaired
  <1> QED BY <1>5 DEF s

\* One run's steps after another's.
LEMMA PairedAppended ==
  ASSUME NEW s, NEW t, Paired(s), Paired(t)
  PROVE  Paired(s \o t) /\ (NoneSlow(s) /\ NoneSlow(t) => NoneSlow(s \o t))
  <1> DEFINE u == s \o t
             m == Len(s)
             n == Len(t)
  <1>1. s \in Seq(StepSet) /\ t \in Seq(StepSet)
    BY DEF Paired
  <1>2. u \in Seq(StepSet) /\ Len(u) = m + n /\ m \in Nat /\ n \in Nat
    BY <1>1
  <1>3. /\ \A k \in 1 .. m : u[k] = s[k]
        /\ \A k \in m + 1 .. m + n : u[k] = t[k - m]
    BY <1>1
  <1>4. /\ \A k \in 1 .. m : Compares(s[k], "candidate") =>
             k > 1 /\ Compares(s[k - 1], "reference") /\ s[k - 1].at = s[k].at
        /\ \A k \in 1 .. n : Compares(t[k], "candidate") =>
             k > 1 /\ Compares(t[k - 1], "reference") /\ t[k - 1].at = t[k].at
    BY DEF Paired
  <1> HIDE DEF u, m, n
  <1>5. ASSUME NEW k \in 1 .. m + n, Compares(u[k], "candidate")
        PROVE  k > 1 /\ Compares(u[k - 1], "reference") /\ u[k - 1].at = u[k].at
    <2>1. CASE k <= m
      <3>1. k \in 1 .. m /\ u[k] = s[k]
        BY <1>2, <1>3, <2>1
      <3>2. k > 1 /\ Compares(s[k - 1], "reference") /\ s[k - 1].at = s[k].at
        BY <1>4, <1>5, <3>1
      <3>3. k - 1 \in 1 .. m
        BY <1>2, <3>1, <3>2
      <3> QED BY <1>3, <3>1, <3>2, <3>3
    <2>2. CASE k > m
      <3>1. k \in m + 1 .. m + n /\ k - m \in 1 .. n /\ u[k] = t[k - m]
        BY <1>2, <1>3, <2>2
      <3>2. k - m > 1 /\ Compares(t[k - m - 1], "reference") /\ t[k - m - 1].at = t[k - m].at
        BY <1>4, <1>5, <3>1
      <3>3. k - 1 \in m + 1 .. m + n /\ (k - 1) - m = k - m - 1
        BY <1>2, <3>1, <3>2
      <3>4. u[k - 1] = t[k - m - 1]
        BY <1>3, <3>3
      <3> QED BY <1>2, <3>1, <3>2, <3>4
    <2> QED BY <1>2, <2>1, <2>2
  <1>6. Paired(u)
    BY <1>2, <1>5 DEF Paired
  <1>7. ASSUME NoneSlow(s), NoneSlow(t) PROVE NoneSlow(u)
    <2>1. SUFFICES ASSUME NEW k \in 1 .. m + n, u[k].captured PROVE u[k].stage # "ar_q1"
      BY <1>2 DEF NoneSlow
    <2>2. CASE k <= m
      BY <1>2, <1>3, <1>7, <2>1, <2>2 DEF NoneSlow, m
    <2>3. CASE k > m
      <3>1. k \in m + 1 .. m + n /\ k - m \in 1 .. n
        BY <1>2, <2>3
      <3> QED BY <1>3, <1>7, <2>1, <3>1 DEF NoneSlow, n
    <2> QED BY <1>2, <2>2, <2>3
  <1> QED BY <1>6, <1>7 DEF u

LEMMA EagerPaired ==
  ASSUME NEW slow \in BOOLEAN
  PROVE  Paired(EagerSteps(slow)) /\ Paired(FloatSteps(slow))
  <1>1. {"prefill", "pbd_q6", "ar_q1"} \subseteq Stages /\ Stages \subseteq Places
        /\ "unassigned" \in Places /\ "reference" \in Sides /\ FALSE \in BOOLEAN
    BY DEF Sides, Stages, Places
  <1>2. Paired(Both("prefill", "prefill") \o Both("pbd_q6", "pbd_q6"))
    BY <1>1, BothPaired, PairedAppended
  <1>3. Paired(<<>>)
    BY DEF Paired
  <1>4. Paired(EagerSteps(slow))
    <2>1. Paired(Both("ar_q1", "ar_q1"))
      BY <1>1, BothPaired
    <2> DEFINE s == Both("prefill", "prefill") \o Both("pbd_q6", "pbd_q6")
               t == IF slow THEN Both("ar_q1", "ar_q1") ELSE <<>>
    <2>2. Paired(t)
      BY <1>3, <2>1
    <2>3. EagerSteps(slow) = s \o t
      BY DEF EagerSteps
    <2> HIDE DEF s, t
    <2>4. Paired(s)
      BY <1>2 DEF s
    <2> QED BY <2>2, <2>3, <2>4, PairedAppended
  <1>5. Paired(FloatSteps(slow))
    <2> DEFINE stages == <<"prefill", "pbd_q6", "ar_q1">>
               n == IF slow THEN 3 ELSE 2
               s == FloatSteps(slow)
    <2>1. n \in 1 .. 3 /\ \A i \in 1 .. 3 : stages[i] \in Stages
      BY DEF Stages
    <2> HIDE DEF stages, n
    <2>2. s = [i \in 1 .. n |-> Step(stages[i], "unassigned", "reference", FALSE)]
      BY DEF FloatSteps, n, stages
    <2>3. \A i \in 1 .. n : /\ Step(stages[i], "unassigned", "reference", FALSE) \in StepSet
                            /\ ~Step(stages[i], "unassigned", "reference", FALSE).captured
      <3>1. \A i \in 1 .. n : stages[i] \in Stages
        BY <2>1
      <3> QED BY <1>1, <3>1 DEF Step, StepSet
    <2> DEFINE each(i) == Step(stages[i], "unassigned", "reference", FALSE)
    <2> HIDE DEF s
    <2>4. s \in Seq(StepSet) /\ Len(s) = n
      <3>1. \A i \in 1 .. n : each(i) \in StepSet
        BY <2>3
      <3>2. s = [i \in 1 .. n |-> each(i)]
        BY <2>2
      <3>3. n \in Nat
        BY <2>1
      <3> HIDE DEF each
      <3> QED BY <3>1, <3>2, <3>3
    <2>5. \A k \in 1 .. Len(s) : ~s[k].captured
      BY <2>2, <2>3, <2>4
    <2> QED BY <2>4, <2>5, UncapturedPaired DEF s
  <1> QED BY <1>4, <1>5

\* The steps of the boxes up to one of them.
Audited == {s \in Seq(StepSet) : Paired(s) /\ NoneSlow(s)}
BoxNext(boxes, i, s) == s \o BoxSteps(boxes[i])
StepsCollected(boxes, f) ==
  f = [i \in 0 .. Len(boxes) |->
         IF i = 0 THEN Both("prefill", "coordinate_prefill")
         ELSE BoxNext(boxes, i, f[i - 1])]

LEMMA BoxAudited ==
  ASSUME NEW box \in [first : BOOLEAN, reference : Nat, candidate : Nat]
  PROVE  Paired(BoxSteps(box)) /\ NoneSlow(BoxSteps(box))
  <1> DEFINE a == IF box.first THEN Both("pbd_q6", "coordinate_pbd_q6") ELSE <<>>
             b == Fallback("reference", box.reference)
             c == Fallback("candidate", box.candidate)
  <1>1. Paired(a) /\ NoneSlow(a)
    <2> DEFINE both == Both("pbd_q6", "coordinate_pbd_q6")
    <2>1. "pbd_q6" \in Stages /\ "coordinate_pbd_q6" \in Places /\ "pbd_q6" # "ar_q1"
      BY DEF Stages, Places
    <2>2. Paired(both) /\ NoneSlow(both)
      BY <2>1, BothPaired
    <2>3. Paired(<<>>) /\ NoneSlow(<<>>)
      BY DEF Paired, NoneSlow
    <2> HIDE DEF both
    <2>4. a = IF box.first THEN both ELSE <<>>
      BY DEF both
    <2> HIDE DEF a
    <2> QED BY <2>2, <2>3, <2>4
  <1>2. Paired(b) /\ NoneSlow(b)
    <2>1. "reference" \in Sides /\ box.reference \in Nat
      BY DEF Sides
    <2> QED BY <2>1, FallbackPaired
  <1>3. Paired(c) /\ NoneSlow(c)
    <2>1. "candidate" \in Sides /\ box.candidate \in Nat
      BY DEF Sides
    <2> QED BY <2>1, FallbackPaired
  <1>4. BoxSteps(box) = (a \o b) \o c
    BY DEF BoxSteps
  <1> HIDE DEF a, b, c
  <1>5. Paired(a \o b) /\ NoneSlow(a \o b)
    BY <1>1, <1>2, PairedAppended
  <1> DEFINE ab == a \o b
  <1>6. Paired(ab) /\ NoneSlow(ab) /\ BoxSteps(box) = ab \o c
    BY <1>4, <1>5
  <1> HIDE DEF ab
  <1> QED BY <1>3, <1>6, PairedAppended

LEMMA CoordinatePaired ==
  ASSUME NEW boxes \in Answers
  PROVE  Paired(CoordinateSteps(boxes)) /\ NoneSlow(CoordinateSteps(boxes))
  <1> DEFINE n == Len(boxes)
             T == Audited
             start == Both("prefill", "coordinate_prefill")
             next(k, s) == BoxNext(boxes, k, s)
             step == [k \in 1 .. n |-> [s \in T |-> next(k, s)]]
  <1>1. n \in Nat /\ \A k \in 1 .. n : boxes[k] \in [first : BOOLEAN, reference : Nat, candidate : Nat]
    <2> DEFINE R == [first : BOOLEAN, reference : Nat, candidate : Nat]
    <2>1. boxes \in Seq(R)
      BY SessionsAssumption, Zenon
    <2> HIDE DEF R
    <2>2. Len(boxes) \in Nat /\ \A k \in 1 .. Len(boxes) : boxes[k] \in R
      BY <2>1
    <2> QED BY <2>2 DEF R
  <1>2. ASSUME NEW k \in 1 .. n, NEW s \in T PROVE next(k, s) \in T
    <2> DEFINE t == BoxSteps(boxes[k])
    <2>1. Paired(s) /\ NoneSlow(s)
      BY DEF Audited
    <2>2. Paired(t) /\ NoneSlow(t)
      BY <1>1, BoxAudited
    <2> HIDE DEF t
    <2>3. Paired(s \o t) /\ NoneSlow(s \o t)
      BY <2>1, <2>2, PairedAppended
    <2>4. s \o t \in Seq(StepSet)
      BY <2>3 DEF Paired
    <2> QED BY <2>3, <2>4 DEF Audited, BoxNext, t
  <1>3. start \in T
    <2>1. "prefill" \in Stages /\ "coordinate_prefill" \in Places /\ "prefill" # "ar_q1"
      BY DEF Stages, Places
    <2>2. Paired(start) /\ NoneSlow(start)
      BY <2>1, BothPaired
    <2> HIDE DEF start
    <2> QED BY <2>2 DEF Audited, Paired
  <1> HIDE DEF n, next, start
  <1>4. step \in [1 .. n -> [T -> T]]
    BY <1>2
  <1>5. \A k \in 1 .. n, s \in T : step[k][s] = next(k, s)
    OBVIOUS
  <1> HIDE DEF step, T
  <1>6. PICK f \in [0 .. n -> T] : f[0] = start /\ \A k \in 1 .. n : f[k] = step[k][f[k - 1]]
    <2>1. n \in Nat
      BY <1>1
    <2>2. PICK f : Stepped(f, T, start, n, step)
      BY ONLY <2>1, <1>3, <1>4, IteratesTo, Zenon
    <2> QED BY <2>2 DEF Stepped
  <1>7. \A k \in 1 .. n : f[k] = next(k, f[k - 1])
    BY <1>1, <1>5, <1>6
  <1>8. StepsCollected(boxes, f)
    <2> DEFINE value(k) == IF k = 0 THEN start ELSE next(k, f[k - 1])
    <2>1. ASSUME NEW k \in 0 .. n PROVE f[k] = value(k)
      <3>1. CASE k = 0
        BY <1>6, <3>1
      <3>2. CASE k # 0
        <4>1. k \in 1 .. n
          BY <1>1, <3>2
        <4> QED BY <1>7, <3>2, <4>1, Zenon
      <3> QED BY <3>1, <3>2
    <2> HIDE DEF value
    <2>2. f = [k \in 0 .. n |-> value(k)]
      BY <1>6, <2>1
    <2> QED BY <2>2 DEF value, next, n, start, StepsCollected
  <1> DEFINE g == CHOOSE h : StepsCollected(boxes, h)
  <1>9. StepsCollected(boxes, g)
    BY <1>8, Zenon
  <1>10. CoordinateSteps(boxes) = g[Len(boxes)]
    BY DEF CoordinateSteps, StepsCollected, BoxNext
  <1> HIDE DEF g
  <1>11. g = [k \in 0 .. n |-> IF k = 0 THEN start ELSE next(k, g[k - 1])]
    BY <1>9 DEF StepsCollected, next, n, start
  <1>12. g[0] = start /\ \A k \in 1 .. n : g[k] = next(k, g[k - 1])
    BY <1>1, <1>11
  <1> DEFINE P == {k \in 0 .. n : g[k] \in T}
  <1>13. 0 \in P
    BY <1>1, <1>3, <1>12
  <1>14. ASSUME NEW k \in 1 .. n, k - 1 \in P PROVE k \in P
    BY <1>1, <1>2, <1>12, <1>14
  <1> HIDE DEF P
  <1>15. \A k \in 0 .. n : k \in P
    BY <1>1, <1>13, <1>14, Induction
  <1>16. g[n] \in T
    BY <1>1, <1>15 DEF P
  <1> QED BY <1>10, <1>16 DEF T, n, Audited

-----------------------------------------------------------------------------
(* How an operator computes.                                                 *)
LEMMA InventoryFacts ==
  /\ Inventory \subseteq Operators
  /\ \A op \in Operators \ Inventory : Kind[op] = "static" /\ op \in Uncalibrated
  BY DEF Inventory, Patchable

LEMMA ModesFinite ==
  ASSUME NEW op \in DOMAIN Kind
  PROVE  /\ IsFiniteSet(Modes(Kind[op])) /\ "observed" \notin Modes(Kind[op])
         /\ {"quantized", "float"} \subseteq Modes(Kind[op])
  <1> DEFINE all == {"quantized", "float"} \cup {"float_weight"} \cup {"float_activation"}
                     \cup {"centered_value_s8"} \cup {"nonnegative_u8"}
  <1>1. Kind[op] \in {"linear", "matmul", "fake_matmul", "static"}
    BY OperatorsGiven
  <1>2. /\ Modes(Kind[op]) \subseteq all /\ "observed" \notin Modes(Kind[op])
        /\ {"quantized", "float"} \subseteq Modes(Kind[op])
    BY <1>1 DEF Modes
  <1>3. IsFiniteSet(all)
    <2>1. \A S, x : IsFiniteSet(S) => IsFiniteSet(S \cup {x})
      BY FS_AddElement
    <2>2. IsFiniteSet({"quantized"} \cup {"float"})
      BY <2>1, FS_Singleton
    <2>3. IsFiniteSet({"quantized", "float"})
      BY <2>2, {"quantized", "float"} = {"quantized"} \cup {"float"}
    <2>4. IsFiniteSet({"quantized", "float"} \cup {"float_weight"} \cup {"float_activation"})
      BY <2>1, <2>3, Zenon
    <2> QED BY <2>1, <2>4, Zenon
  <1> QED BY <1>2, <1>3, FS_Subset

LEMMA RescueFacts ==
  ASSUME NEW turnedOn, NEW on, NEW op \in Operators,
         policy = NoPolicy \/ Constructed(policy)
  PROVE  /\ Mode(turnedOn, on, op) \in RescueModes(turnedOn, on, op)
         /\ op \notin installed => RescueModes(turnedOn, on, op) = {"observed"}
         /\ op \in installed => RescueModes(turnedOn, on, op) \subseteq Modes(Kind[op])
         /\ op \in installed /\ ~turnedOn => RescueModes(turnedOn, on, op) = {"float"}
  <1> DEFINE modes == RescueModes(turnedOn, on, op)
  <1>1. op \in DOMAIN Kind
    BY OperatorFacts
  <1>2. {"quantized", "float"} \subseteq Modes(Kind[op])
    BY <1>1, ModesFinite
  <1>3. Constructed(policy) => Matching(policy, on, op) \subseteq Modes(Kind[op])
    BY DEF Constructed, Matching, Ruled
  <1>4. op \notin installed => modes = {"observed"}
    BY DEF RescueModes
  <1>5. op \in installed /\ ~turnedOn => modes = {"float"}
    BY DEF RescueModes
  <1>6. CASE op \in installed /\ turnedOn
    <2>1. CASE policy = NoPolicy \/ Matching(policy, on, op) = {}
      BY <1>2, <1>6, <2>1 DEF RescueModes, Mode
    <2>2. CASE policy # NoPolicy /\ Matching(policy, on, op) # {}
      <3>1. modes = Matching(policy, on, op)
        BY <1>6, <2>2 DEF RescueModes
      <3>2. modes # {} /\ modes \subseteq Modes(Kind[op])
        BY <1>3, <2>2, <3>1
      <3> QED BY <1>6, <3>2 DEF Mode
    <2> QED BY <2>1, <2>2
  <1>7. CASE op \notin installed \/ ~turnedOn
    BY <1>2, <1>4, <1>5, <1>7 DEF Mode
  <1> QED BY <1>4, <1>5, <1>6, <1>7

\* An operator that runs and does not refuse has one mode.
LEMMA OneMode ==
  ASSUME NEW turnedOn, NEW on, NEW op \in Operators, op \in installed,
         policy = NoPolicy \/ Constructed(policy),
         Executes(turnedOn, on, op), ~Refuses(turnedOn, on, op)
  PROVE  /\ RescueModes(turnedOn, on, op) = {Mode(turnedOn, on, op)}
         /\ Mode(turnedOn, on, op) \in Modes(Kind[op])
  <1> DEFINE modes == RescueModes(turnedOn, on, op)
             mode == Mode(turnedOn, on, op)
  <1>1. mode \in modes /\ modes \subseteq Modes(Kind[op])
    BY RescueFacts
  <1>2. ~(Cardinality(modes) > 1)
    BY DEF Refuses
  <1>3. IsFiniteSet(modes)
    BY <1>1, OperatorFacts, ModesFinite, FS_Subset
  <1> HIDE DEF mode, modes
  <1>4. IsFiniteSet(modes \ {mode}) /\ Cardinality(modes \ {mode}) = Cardinality(modes) - 1
    BY <1>1, <1>3, FS_RemoveElement
  <1>5. Cardinality(modes) \in Nat /\ Cardinality(modes \ {mode}) \in Nat
    BY <1>3, <1>4, FS_CardinalityType
  <1>6. Cardinality(modes \ {mode}) = 0
    BY <1>2, <1>4, <1>5
  <1>7. modes \ {mode} = {}
    BY <1>4, <1>6, FS_EmptySet
  <1> QED BY <1>1, <1>7 DEF mode, modes

\* What a forward on either side records.
RowsDue(on) ==
  {op \in installed : /\ RescueModes(TRUE, on, op) # {"float"}
                      /\ Executes(TRUE, on, op)
                      /\ Kind[op] = "fake_matmul" => RescueModes(TRUE, on, op) # {"quantized"}}

LEMMA ForwardRecords ==
  ASSUME NEW turnedOn \in BOOLEAN, NEW on, ModelInv,
         \A op \in Operators : ~Refuses(turnedOn, on, op)
  PROVE  Modules(Recorded(turnedOn, on)) = IF turnedOn THEN RowsDue(on) ELSE {}
  <1>1. policy = NoPolicy \/ Constructed(policy)
    BY DEF ModelInv
  <1>2. installed \subseteq Operators
    BY InventoryFacts DEF ModelInv
  <1>3. Modules(Recorded(turnedOn, on)) = Rounding(turnedOn, on, Len(Ops))
    BY RecordedFacts DEF RowsUpTo
  <1>4. Rounding(turnedOn, on, Len(Ops)) = {op \in Operators : Records(turnedOn, on, op)}
    BY OperatorFacts DEF Rounding
  <1>5. ASSUME NEW op \in Operators, op \notin installed PROVE ~Records(turnedOn, on, op)
    <2>1. Mode(turnedOn, on, op) = "observed"
      BY <1>1, <1>5, RescueFacts
    <2> QED BY <2>1, OperatorFacts, RoundedFacts DEF Records
  <1>6. CASE ~turnedOn
    <2>1. ASSUME NEW op \in Operators, op \in installed PROVE ~Records(turnedOn, on, op)
      <3>1. Mode(turnedOn, on, op) = "float"
        BY <1>1, <1>6, <2>1, RescueFacts
      <3> QED BY <3>1, OperatorFacts, RoundedFacts DEF Records
    <2> QED BY <1>3, <1>4, <1>5, <1>6, <2>1
  <1>7. CASE turnedOn
    <2>1. turnedOn = TRUE
      BY <1>7
    <2>2. ASSUME NEW op \in Operators, op \in installed
          PROVE  Records(turnedOn, on, op) <=> op \in RowsDue(on)
      <3>1. CASE ~Executes(turnedOn, on, op)
        BY <2>1, <3>1 DEF Records, RowsDue
      <3>2. CASE Executes(turnedOn, on, op)
        <4> DEFINE mode == Mode(turnedOn, on, op)
        <4>1. RescueModes(turnedOn, on, op) = {mode} /\ mode \in Modes(Kind[op])
          BY <1>1, <2>2, <3>2, OneMode
        <4>2. op \in DOMAIN Kind
          BY OperatorFacts
        <4>3. Rounded(op, mode) = {} <=> mode = "float" \/ (Kind[op] = "fake_matmul" /\ mode = "quantized")
          BY <4>1, <4>2, RoundedFacts
        <4>4. Records(turnedOn, on, op) <=> Rounded(op, mode) # {}
          BY <3>2 DEF Records
        <4> HIDE DEF mode
        <4>5. /\ RescueModes(turnedOn, on, op) = {"float"} <=> mode = "float"
              /\ RescueModes(turnedOn, on, op) = {"quantized"} <=> mode = "quantized"
          BY <4>1
        <4>6. op \in RowsDue(on) <=> /\ mode # "float"
                                     /\ Kind[op] = "fake_matmul" => mode # "quantized"
          BY <2>1, <2>2, <3>2, <4>5 DEF RowsDue
        <4> QED BY <4>3, <4>4, <4>6
      <3> QED BY <3>1, <3>2
    <2>3. RowsDue(on) \subseteq installed
      BY DEF RowsDue
    <2> QED BY <1>2, <1>3, <1>4, <1>5, <1>7, <2>2, <2>3
  <1> QED BY <1>6, <1>7

-----------------------------------------------------------------------------
(* Steps between runs.                                                       *)
LEMMA AuditInitSound == AuditInit => AuditInv
  <1> SUFFICES ASSUME AuditInit PROVE AuditInv
    OBVIOUS
  <1> USE DEF AuditInit, EmulatorInit
  <1>1. ModelInv
    BY DEF ModelInv, Active
  <1>2. StepsInv
    <2>1. Paired(<<>>)
      BY DEF Paired
    <2> QED BY <2>1 DEF StepsInv
  <1>3. ReferencesInv
    BY DEF ReferencesInv, Active
  <1>4. BoundariesInv
    BY DEF BoundariesInv
  <1>5. OperatorsInv
    BY DEF OperatorsInv
  <1>6. PassesOnTheirSide /\ OperatorRowsOnce
    BY DEF PassesOnTheirSide, OperatorRowsOnce
  <1>7. ReportsItsOwn
    BY DEF ReportsItsOwn
  <1> QED BY <1>1, <1>2, <1>3, <1>4, <1>5, <1>6, <1>7, Zenon DEF AuditInv

\* Between runs only the model and the capture change.
LEMMA IdleStays ==
  ASSUME AuditInv, ~Active, SameRun, ModelInv',
         phase' \in {"off", "reference", "candidate"},
         references' \in {references, {}}, boundaries' \in {boundaries, <<>>},
         run \notin unfinished => ~enabled' /\ phase' = "off" /\ references' = {}
  PROVE  AuditInv'
  <1>1. UNCHANGED <<kind, steps, callsDone, operators, report, run, unfinished>>
    BY DEF SameRun
  <1>2. StepsInv'
    <2>1. StepsInv
      BY DEF AuditInv
    <2> QED BY <1>1, <2>1 DEF StepsInv, Paired, NoneSlow
  <1>3. ReferencesInv'
    <2>1. ReferencesInv
      BY DEF AuditInv
    <2> QED BY <1>1, <2>1 DEF ReferencesInv, Active
  <1>4. BoundariesInv'
    <2>1. BoundariesInv
      BY DEF AuditInv
    <2>2. CASE boundaries' = <<>>
      BY <2>2 DEF BoundariesInv
    <2>3. CASE boundaries' = boundaries
      BY <1>1, <2>1, <2>3 DEF BoundariesInv, BoundaryInv, Active
    <2> QED BY <2>2, <2>3
  <1>5. OperatorsInv'
    <2>1. OperatorsInv
      BY DEF AuditInv
    <2> QED BY <1>1, <2>1 DEF OperatorsInv, Compares
  <1>6. PassesOnTheirSide' /\ OperatorRowsOnce'
    BY <1>1 DEF PassesOnTheirSide, OperatorRowsOnce, Active
  <1>7. ReportsItsOwn'
    <2>1. ReportsItsOwn
      BY DEF AuditInv
    <2> QED BY <1>1, <2>1 DEF ReportsItsOwn
  <1> QED BY <1>2, <1>3, <1>4, <1>5, <1>6, <1>7, Zenon DEF AuditInv

LEMMA OpenQuantizedSound == AuditInv /\ OpenQuantized => AuditInv'
  <1> SUFFICES ASSUME AuditInv, OpenQuantized PROVE AuditInv'
    OBVIOUS
  <1>1. PICK rules \in {r \in Policies : Constructed(r)} \cup {NoPolicy} :
          /\ Install(rules)
          /\ owner' = IF rules = NoPolicy \/ Bound(rules, Inventory) THEN "installed" ELSE "none"
    BY DEF OpenQuantized
  <1>2. owner = "none" /\ NewCapture /\ SameRun
    BY DEF OpenQuantized
  <1>3. ~Active
    BY <1>2 DEF AuditInv, ModelInv
  <1>4. ModelInv'
    <2>1. installed' = IF rules = NoPolicy \/ Bound(rules, Inventory) THEN Inventory ELSE {}
      BY <1>1 DEF Install, InstalledUnlessRefused
    <2>2. installed' = IF owner' \in {"none", "float"} THEN {} ELSE Inventory
      BY <1>1, <2>1
    <2>3. policy' \in {NoPolicy, rules} /\ dynamic' = {} /\ cached' = {}
      BY <1>1 DEF Install
    <2>4. policy' = NoPolicy \/ Constructed(policy')
      BY <1>1, <2>3
    <2>5. ~Active'
      BY <1>2, <1>3 DEF SameRun, Active
    <2>6. owner' \in {"none", "installed", "float", "quantized", "lost"}
      BY <1>1
    <2> QED BY <2>2, <2>3, <2>4, <2>5, <2>6 DEF ModelInv, Constructed
  <1>5. phase' = "off" /\ references' = {} /\ boundaries' = <<>> /\ ~enabled'
    BY <1>1, <1>2 DEF NewCapture, Install
  <1> QED BY <1>2, <1>3, <1>4, <1>5, IdleStays

LEMMA SetPatternsSound == AuditInv /\ SetPatterns => AuditInv'
  <1> SUFFICES ASSUME AuditInv, SetPatterns PROVE AuditInv'
    OBVIOUS
  <1>1. PICK patterns \in Patterns :
          /\ SetDynamicQuantizerPatterns(patterns)
          /\ owner' = IF owner = "installed" /\ ~PatternsMatch(patterns, installed)
                      THEN "lost" ELSE "quantized"
    BY DEF SetPatterns
  <1>2. /\ owner \in {"installed", "quantized"} /\ kind = "none"
        /\ UNCHANGED capture /\ SameRun
    BY DEF SetPatterns
  <1>3. UNCHANGED <<installed, enabled, policy, cached>>
    BY <1>1 DEF SetDynamicQuantizerPatterns
  <1>4. ~Active /\ ModelInv /\ ReferencesInv
    BY <1>2 DEF AuditInv, Active
  <1>5. ModelInv'
    <2>1. dynamic' \subseteq installed
      <3>1. dynamic \subseteq installed
        BY <1>4 DEF ModelInv
      <3>2. dynamic' \in {dynamic, Matched(patterns, installed)}
        BY <1>1 DEF SetDynamicQuantizerPatterns
      <3>3. Matched(patterns, installed) \subseteq installed
        BY DEF Matched
      <3> QED BY <3>1, <3>2, <3>3
    <2>2. owner' \in {"lost", "quantized"}
      BY <1>1
    <2>3. ~Active'
      BY <1>2 DEF SameRun, Active
    <2> QED BY <1>2, <1>3, <1>4, <2>1, <2>2, <2>3 DEF ModelInv, Constructed
  <1>6. /\ phase' = phase /\ references' = references /\ boundaries' = boundaries
        /\ enabled' = enabled
    BY <1>2, <1>3 DEF capture
  <1>7. phase \in {"off", "reference", "candidate"}
        /\ (run \notin unfinished => ~enabled /\ phase = "off" /\ references = {})
    BY <1>4 DEF ReferencesInv
  <1> QED BY <1>2, <1>4, <1>5, <1>6, <1>7, IdleStays

LEMMA OpenFloatSound == AuditInv /\ OpenFloat => AuditInv'
  <1> SUFFICES ASSUME AuditInv, OpenFloat PROVE AuditInv'
    OBVIOUS
  <1>1. owner = "none" /\ owner' = "float" /\ NewCapture /\ SameRun /\ UNCHANGED emulator
    BY DEF OpenFloat
  <1>2. UNCHANGED <<installed, enabled, policy, dynamic, cached>>
    BY <1>1 DEF emulator
  <1>3. ~Active /\ ModelInv /\ ReferencesInv
    BY <1>1 DEF AuditInv, ModelInv
  <1>4. ModelInv'
    <2>1. ~Active'
      BY <1>1, <1>3 DEF SameRun, Active
    <2> QED BY <1>1, <1>2, <1>3, <2>1 DEF ModelInv, Constructed
  <1>5. phase' = "off" /\ references' = {} /\ boundaries' = <<>> /\ enabled' = enabled
    BY <1>1, <1>2 DEF NewCapture
  <1>6. run \notin unfinished => ~enabled
    BY <1>3 DEF ReferencesInv
  <1> QED BY <1>1, <1>3, <1>4, <1>5, <1>6, IdleStays

LEMMA SetPolicySound == AuditInv /\ SetPolicy => AuditInv'
  <1> SUFFICES ASSUME AuditInv, SetPolicy PROVE AuditInv'
    OBVIOUS
  <1>1. PICK rules \in {r \in Policies : Constructed(r)} \cup {NoPolicy} : SetRescuePolicy(rules)
    BY DEF SetPolicy
  <1>2. Idle /\ UNCHANGED <<owner, capture>> /\ SameRun
    BY DEF SetPolicy
  <1>3. UNCHANGED <<installed, enabled, dynamic, cached>> /\ policy' \in {policy, rules}
    BY <1>1 DEF SetRescuePolicy
  <1>4. ~Active /\ ModelInv /\ ReferencesInv
    BY <1>2 DEF AuditInv, Active, Idle
  <1>5. ModelInv'
    <2>1. policy' = NoPolicy \/ Constructed(policy')
      BY <1>1, <1>3, <1>4 DEF ModelInv
    <2>2. ~Active'
      BY <1>2, <1>4 DEF SameRun, Active
    <2> QED BY <1>2, <1>3, <1>4, <2>1, <2>2 DEF ModelInv
  <1>6. /\ phase' = phase /\ references' = references /\ boundaries' = boundaries
        /\ enabled' = enabled
    BY <1>2, <1>3 DEF capture
  <1>7. phase \in {"off", "reference", "candidate"}
        /\ (run \notin unfinished => ~enabled /\ phase = "off" /\ references = {})
    BY <1>4 DEF ReferencesInv
  <1> QED BY <1>2, <1>4, <1>5, <1>6, <1>7, IdleStays

LEMMA CloseSound == AuditInv /\ Close => AuditInv'
  <1> SUFFICES ASSUME AuditInv, Close PROVE AuditInv'
    OBVIOUS
  <1>1. /\ Idle /\ owner' = "none" /\ CloseEmulator /\ references' = {}
        /\ UNCHANGED <<phase, boundaryStage, boundaries>> /\ SameRun
    BY DEF Close
  <1>2. ~Active /\ ReferencesInv
    BY <1>1 DEF AuditInv, Active, Idle
  <1>3. ModelInv'
    <2>1. installed' = {} /\ policy' = NoPolicy /\ dynamic' = {} /\ cached' = {}
      BY <1>1 DEF CloseEmulator
    <2>2. ~Active'
      BY <1>1, <1>2 DEF SameRun, Active
    <2> QED BY <1>1, <2>1, <2>2 DEF ModelInv
  <1>4. enabled' = enabled
    BY <1>1 DEF CloseEmulator
  <1>5. phase \in {"off", "reference", "candidate"}
        /\ (run \notin unfinished => ~enabled /\ phase = "off" /\ references = {})
    BY <1>2 DEF ReferencesInv
  <1> QED BY <1>1, <1>2, <1>3, <1>4, <1>5, IdleStays

-----------------------------------------------------------------------------
(* A run starts, and ends.                                                   *)
LEMMA StartAuditSound == AuditInv /\ StartAudit => AuditInv'
  <1> SUFFICES ASSUME AuditInv, StartAudit PROVE AuditInv'
    OBVIOUS
  <1>1. /\ Idle /\ run' = run + 1 /\ callsDone' = 0 /\ operators' = <<>>
        /\ UNCHANGED <<emulator, owner, capture, report, unfinished>>
    BY DEF StartAudit
  <1>2. /\ UNCHANGED <<installed, enabled, policy, dynamic, cached, owner, report, unfinished>>
        /\ UNCHANGED <<phase, references, boundaries>>
    BY <1>1 DEF emulator, capture
  <1>3. /\ ModelInv /\ StepsInv /\ ReferencesInv /\ BoundariesInv /\ ReportsItsOwn /\ ~Active
    BY <1>1 DEF AuditInv, Idle, Active
  <1>4. kind' \in {"eager", "coordinates"} /\ Paired(steps')
        /\ (kind' = "coordinates" => NoneSlow(steps'))
    <2>1. CASE kind' = "eager" /\ \E slow \in BOOLEAN :
                 steps' = IF owner = "float" THEN FloatSteps(slow) ELSE EagerSteps(slow)
      BY <2>1, EagerPaired
    <2>2. CASE kind' = "coordinates" /\ \E boxes \in Answers : steps' = CoordinateSteps(boxes)
      BY <2>2, CoordinatePaired
    <2> QED BY <2>1, <2>2 DEF StartAudit
  <1>5. ModelInv'
    BY <1>1, <1>2, <1>3 DEF ModelInv, Constructed, Idle
  <1>6. StepsInv'
    <2>1. Len(steps') \in Nat
      BY <1>4 DEF Paired
    <2>2. run' \in Nat
      BY <1>1, <1>3 DEF StepsInv
    <2>3. Paired(steps)' /\ (kind' = "coordinates" => NoneSlow(steps)')
      BY <1>4 DEF Paired, NoneSlow
    <2> QED BY <1>1, <1>4, <2>1, <2>2, <2>3 DEF StepsInv
  <1>7. ReferencesInv'
    <2>1. Active'
      BY <1>4 DEF Active
    <2>2. callsDone' = 0
      BY <1>1
    <2>3. phase' \in {"off", "reference", "candidate"} /\ references' \subseteq References
      BY <1>2, <1>3 DEF ReferencesInv
    <2> QED BY <2>1, <2>2, <2>3 DEF ReferencesInv
  <1>8. BoundariesInv'
    <2>1. ASSUME NEW i \in 1 .. Len(boundaries) PROVE BoundaryInv(boundaries[i])'
      <3> DEFINE b == boundaries[i]
      <3>1. BoundaryInv(b) /\ b \in Boundaries
        BY <1>3 DEF BoundariesInv
      <3>2. b' = b
        BY <1>2
      <3>3. b.run \in Nat /\ run \in Nat
        BY <1>3, <3>1 DEF Boundaries, StepsInv
      <3> HIDE DEF b
      <3>4. b.run \in unfinished /\ b.run <= run
        BY <1>3, <3>1 DEF BoundaryInv
      <3>5. b.run <= run' /\ b.run # run'
        BY <1>1, <3>3, <3>4
      <3> QED BY <1>2, <3>1, <3>2, <3>4, <3>5 DEF BoundaryInv, b
    <2> QED BY <1>2, <1>3, <2>1 DEF BoundariesInv
  <1>9. OperatorsInv'
    BY <1>1 DEF OperatorsInv
  <1>10. PassesOnTheirSide' /\ OperatorRowsOnce'
    BY <1>1 DEF PassesOnTheirSide, OperatorRowsOnce
  <1>11. ReportsItsOwn'
    BY <1>2, <1>3 DEF ReportsItsOwn
  <1> QED BY <1>5, <1>6, <1>7, <1>8, <1>9, <1>10, <1>11, Zenon DEF AuditInv

\* What holds when no run is under way.
LEMMA EndSound ==
  ASSUME AuditInv, NEW finished \in BOOLEAN, End(finished), Active, ModelInv',
         phase' \in {"off", "reference", "candidate"}, references' \subseteq References,
         finished => ~enabled' /\ phase' = "off" /\ references' = {} /\ boundaries' = <<>>,
         boundaries' \in Seq(Boundaries),
         \A i \in 1 .. Len(boundaries') :
           /\ boundaries'[i].against.run = boundaries'[i].run
           /\ boundaries'[i].against.call = boundaries'[i].call - 1
           /\ boundaries'[i].run <= run /\ boundaries'[i].run \in unfinished \cup {run},
         ReportsItsOwn'
  PROVE  AuditInv'
  <1>1. /\ kind' = "none" /\ steps' = <<>> /\ callsDone' = 0 /\ operators' = <<>>
        /\ unfinished' = (IF finished THEN unfinished ELSE unfinished \cup {run})
        /\ run' = run
    BY DEF End
  <1>2. ~Active'
    BY <1>1 DEF Active
  <1>3. StepsInv'
    <2>1. run \in Nat
      BY DEF AuditInv, StepsInv
    <2> QED BY <1>1, <2>1 DEF StepsInv, Paired
  <1>4. ReferencesInv'
    <2>1. ~finished => run' \in unfinished'
      BY <1>1
    <2>2. run' \notin unfinished' => ~enabled' /\ phase' = "off" /\ references' = {}
      BY <2>1
    <2> QED BY <1>2, <2>2 DEF ReferencesInv
  <1>5. BoundariesInv'
    <2>1. CASE finished
      BY <2>1 DEF BoundariesInv
    <2>2. CASE ~finished
      <3>1. ASSUME NEW i \in 1 .. Len(boundaries') PROVE BoundaryInv(boundaries[i])'
        BY <1>1, <1>2, <2>2 DEF BoundaryInv
      <3> QED BY <3>1 DEF BoundariesInv
    <2> QED BY <2>1, <2>2
  <1>6. OperatorsInv' /\ PassesOnTheirSide' /\ OperatorRowsOnce'
    BY <1>1 DEF OperatorsInv, PassesOnTheirSide, OperatorRowsOnce
  <1> QED BY <1>3, <1>4, <1>5, <1>6, Zenon DEF AuditInv

\* The switch is off and the capture empty at the end of a sample.
LEMMA CleanEnd ==
  ASSUME AuditInv, Active, Disable, FinishSample, End(TRUE), ReportsItsOwn'
  PROVE  AuditInv'
  <1>1. /\ enabled' = FALSE /\ UNCHANGED <<installed, policy, dynamic, cached>>
    BY DEF Disable
  <1>2. phase' = "off" /\ references' = {} /\ boundaries' = <<>>
    BY DEF FinishSample
  <1>3. ModelInv'
    <2>1. owner' = owner /\ kind' = "none"
      BY DEF End
    <2>2. ModelInv
      BY DEF AuditInv
    <2> QED BY <1>1, <2>1, <2>2 DEF ModelInv, Constructed, Active
  <1>4. boundaries' \in Seq(Boundaries) /\ Len(boundaries') = 0
    BY <1>2
  <1>5. phase' \in {"off", "reference", "candidate"} /\ references' \subseteq References
    BY <1>2
  <1>6. \A i \in 1 .. Len(boundaries') :
          /\ boundaries'[i].against.run = boundaries'[i].run
          /\ boundaries'[i].against.call = boundaries'[i].call - 1
          /\ boundaries'[i].run <= run /\ boundaries'[i].run \in unfinished \cup {run}
    BY <1>4
  <1>7. ~enabled'
    BY <1>1
  <1> DEFINE finished == TRUE
  <1>8. finished \in BOOLEAN /\ End(finished)
    OBVIOUS
  <1> HIDE DEF finished
  <1> QED BY <1>2, <1>3, <1>4, <1>5, <1>6, <1>7, <1>8, EndSound, Zenon

LEMMA FinishSound == AuditInv /\ Finish => AuditInv'
  <1> SUFFICES ASSUME AuditInv, Finish PROVE AuditInv'
    OBVIOUS
  <1>1. /\ Active /\ Disable /\ FinishSample /\ End(TRUE)
        /\ report' = [run |-> run, operators |-> operators, boundaries |-> boundaries]
    BY DEF Finish, Active
  <1>2. ReportsItsOwn'
    <2>1. unfinished' = unfinished
      BY <1>1 DEF End
    <2>2. boundaries \in Seq(Boundaries) /\ \A i \in 1 .. Len(boundaries) : BoundaryInv(boundaries[i])
      BY DEF AuditInv, BoundariesInv
    <2>3. \A i \in DOMAIN boundaries : boundaries[i].run \in {run} \cup unfinished
      BY <2>2 DEF BoundaryInv
    <2>4. report'.run = run /\ report'.boundaries = boundaries
      BY <1>1
    <2> QED BY <2>1, <2>3, <2>4 DEF ReportsItsOwn
  <1> QED BY <1>1, <1>2, CleanEnd

LEMMA DecodingRaisesSound == AuditInv /\ DecodingRaises => AuditInv'
  <1> SUFFICES ASSUME AuditInv, DecodingRaises PROVE AuditInv'
    OBVIOUS
  <1>1. /\ Active /\ Disable /\ FinishSample /\ End(TRUE) /\ report' = report
    BY DEF DecodingRaises, Protected, Active
  <1>2. ReportsItsOwn'
    <2>1. unfinished' = unfinished /\ ReportsItsOwn
      BY <1>1 DEF End, AuditInv
    <2> QED BY <1>1, <2>1 DEF ReportsItsOwn
  <1> QED BY <1>1, <1>2, CleanEnd

-----------------------------------------------------------------------------
(* A pass.                                                                   *)
LEMMA CurrentFacts ==
  ASSUME AuditInv, Active, callsDone < Len(steps)
  PROVE  /\ callsDone \in Nat /\ callsDone + 1 \in 1 .. Len(steps) /\ Len(steps) \in Nat
         /\ Current \in StepSet
         /\ Current.side \in Sides /\ Current.at \in Places
         /\ Compares(Current, "candidate") =>
              callsDone > 0 /\ {r \in references : r.at = Current.at} = OfPass(Current, callsDone)
  <1>1. Paired(steps) /\ callsDone \in 0 .. Len(steps) /\ ReferencesInv
    BY DEF AuditInv, StepsInv
  <1>2. steps \in Seq(StepSet) /\ Len(steps) \in Nat
    BY <1>1 DEF Paired
  <1>3. callsDone \in Nat /\ callsDone + 1 \in 1 .. Len(steps)
    BY <1>1, <1>2
  <1>4. Current \in StepSet
    BY <1>2, <1>3 DEF Current
  <1>5. Current.side \in Sides /\ Current.at \in Places
    BY <1>4 DEF StepSet
  <1>6. ASSUME Compares(Current, "candidate")
        PROVE  callsDone > 0 /\ {r \in references : r.at = Current.at} = OfPass(Current, callsDone)
    <2>1. /\ callsDone + 1 > 1 /\ Compares(steps[callsDone + 1 - 1], "reference")
          /\ steps[callsDone + 1 - 1].at = Current.at
      BY <1>1, <1>3, <1>6 DEF Paired, Current
    <2>2. callsDone + 1 - 1 = callsDone /\ callsDone > 0
      BY <1>3, <2>1
    <2>3. Compares(Last, "reference") /\ Last.at = Current.at
      BY <2>1, <2>2 DEF Last
    <2>4. {r \in references : r.at = Last.at} = OfPass(Last, callsDone)
      BY <1>1, <2>2, <2>3 DEF ReferencesInv
    <2>5. OfPass(Last, callsDone) = OfPass(Current, callsDone)
      BY <2>3 DEF OfPass
    <2> QED BY <2>2, <2>3, <2>4, <2>5
  <1> QED BY <1>2, <1>3, <1>4, <1>5, <1>6

\* The forward leaves the model with its owner.
LEMMA ForwardModel ==
  ASSUME ModelInv, NEW turnedOn, NEW on, Forward(turnedOn, on, TRUE), owner' = owner,
         Active' => Active
  PROVE  ModelInv'
  <1>1. UNCHANGED <<installed, policy, dynamic>>
    BY DEF Forward
  <1>2. cached' \subseteq cached \cup installed
    BY DEF Forward
  <1> QED BY <1>1, <1>2 DEF ModelInv, Constructed

\* One sequence behind another.
LEMMA Joined ==
  ASSUME NEW S, NEW s \in Seq(S), NEW t \in Seq(S)
  PROVE  /\ s \o t \in Seq(S) /\ Len(s) \in Nat /\ Len(t) \in Nat
         /\ Len(s \o t) = Len(s) + Len(t)
         /\ \A i \in 1 .. Len(s) : (s \o t)[i] = s[i]
         /\ \A i \in Len(s) + 1 .. Len(s) + Len(t) : (s \o t)[i] = t[i - Len(s)]
  OBVIOUS

\* A boundary of the pass under way is compared with the pass before it.
NewBoundary(b) ==
  /\ b.run = run /\ b.call = callsDone + 1 /\ Compares(Current, "candidate")
  /\ b.against.run = run /\ b.against.call = callsDone

LEMMA HookedReferences ==
  ASSUME AuditInv, Active, callsDone < Len(steps), NEW seen \in 0 .. Hooks,
         Hooked(Current, seen)
  PROVE  /\ phase' \in {"off", "reference", "candidate"} /\ references' \subseteq References
         /\ seen = Hooks /\ Compares(Current, "reference") =>
              {r \in references' : r.at = Current.at} = OfPass(Current, callsDone + 1)
  <1> DEFINE new == {[at |-> Current.at, hook |-> hook, run |-> run, call |-> callsDone + 1]
                     : hook \in 1 .. seen}
             old == {r \in references : r.at # Current.at \/ r.hook > seen}
  <1>1. /\ Current.side \in Sides /\ Current.at \in Places /\ callsDone \in Nat
        /\ run \in Nat /\ references \subseteq References /\ Hooks \in Nat
    BY CurrentFacts, SessionsAssumption DEF AuditInv, StepsInv, ReferencesInv
  <1>2. phase' \in {"off", "reference", "candidate"}
    BY <1>1 DEF Hooked, Sides
  <1>3. references' = IF Compares(Current, "reference") THEN old \cup new ELSE references
    BY DEF Hooked, Compares
  <1>4. new \subseteq References
    BY <1>1 DEF References
  <1>5. ASSUME seen = Hooks, Compares(Current, "reference")
        PROVE  {r \in references' : r.at = Current.at} = OfPass(Current, callsDone + 1)
    <2>1. new = OfPass(Current, callsDone + 1)
      BY <1>5 DEF OfPass
    <2>2. \A r \in new : r.at = Current.at
      OBVIOUS
    <2>3. \A r \in old : r.at # Current.at
      <3>1. \A r \in references : r.hook \in 1 .. Hooks
        BY <1>1 DEF References
      <3> QED BY <1>1, <1>5, <3>1
    <2> HIDE DEF new, old
    <2> QED BY <1>3, <1>5, <2>1, <2>2, <2>3
  <1> HIDE DEF new
  <1> QED BY <1>1, <1>2, <1>3, <1>4, <1>5

LEMMA HookedBoundaries ==
  ASSUME AuditInv, Active, callsDone < Len(steps), NEW seen \in 0 .. Hooks,
         Hooked(Current, seen)
  PROVE  /\ boundaries' \in Seq(Boundaries)
         /\ \A i \in 1 .. Len(boundaries') :
              BoundaryInv(boundaries'[i]) \/ NewBoundary(boundaries'[i])
  <1> DEFINE against(hook) == CHOOSE r \in references : r.at = Current.at /\ r.hook = hook
             row(hook) == [run |-> run, call |-> callsDone + 1, hook |-> hook,
                           against |-> against(hook)]
             added == [hook \in 1 .. seen |-> row(hook)]
  <1>1. /\ callsDone \in Nat /\ run \in Nat /\ references \subseteq References /\ Hooks \in Nat
        /\ boundaries \in Seq(Boundaries)
        /\ \A i \in 1 .. Len(boundaries) : BoundaryInv(boundaries[i])
    BY CurrentFacts, SessionsAssumption DEF AuditInv, StepsInv, ReferencesInv, BoundariesInv
  <1>2. CASE ~Compares(Current, "candidate")
    <2>1. boundaries' = boundaries
      BY <1>2 DEF Hooked, Compares
    <2> QED BY <1>1, <2>1
  <1>3. CASE Compares(Current, "candidate")
    <2>1. boundaries' = boundaries \o added
      BY <1>3 DEF Hooked, Compares
    <2>2. ASSUME NEW hook \in 1 .. seen
          PROVE  row(hook) \in Boundaries /\ NewBoundary(row(hook))
      <3> DEFINE r == [at |-> Current.at, hook |-> hook, run |-> run, call |-> callsDone]
      <3>1. {q \in references : q.at = Current.at} = OfPass(Current, callsDone)
        BY <1>3, CurrentFacts
      <3>2. hook \in 1 .. Hooks /\ hook \in Nat
        BY <1>1
      <3>3. r \in OfPass(Current, callsDone)
        BY <3>2 DEF OfPass
      <3>4. r \in references /\ r.at = Current.at /\ r.hook = hook
        BY <3>1, <3>3
      <3>5. /\ against(hook) \in references
            /\ against(hook).at = Current.at /\ against(hook).hook = hook
        <4> HIDE DEF r
        <4> QED BY <3>4
      <3>6. against(hook) \in OfPass(Current, callsDone)
        BY <3>1, <3>5
      <3> DEFINE a == against(hook)
      <3>7. a \in References /\ a.run = run /\ a.call = callsDone
        <4> HIDE DEF against
        <4> QED BY <1>1, <3>5, <3>6 DEF OfPass
      <3> HIDE DEF a
      <3>8. row(hook) = [run |-> run, call |-> callsDone + 1, hook |-> hook, against |-> a]
        BY DEF a
      <3> HIDE DEF row
      <3> QED BY <1>1, <1>3, <3>2, <3>7, <3>8 DEF Boundaries, NewBoundary
    <2> HIDE DEF row
    <2>3. added \in Seq(Boundaries) /\ Len(added) = seen /\ \A k \in 1 .. seen : added[k] = row(k)
      BY <1>1, <2>2
    <2> HIDE DEF added
    <2> DEFINE n == Len(boundaries)
    <2>4. /\ boundaries' \in Seq(Boundaries) /\ n \in Nat /\ seen \in Nat
          /\ Len(boundaries') = n + seen
          /\ \A i \in 1 .. n : boundaries'[i] = boundaries[i]
          /\ \A i \in n + 1 .. n + seen : boundaries'[i] = added[i - n]
      <3> HIDE DEF n
      <3>1. seen \in Nat
        BY <1>1
      <3>2. boundaries \in Seq(Boundaries) /\ n = Len(boundaries)
        BY <1>1 DEF n
      <3> QED BY <2>1, <2>3, <3>1, <3>2, Joined
    <2> HIDE DEF n
    <2>5. ASSUME NEW i \in 1 .. n + seen
          PROVE  BoundaryInv(boundaries'[i]) \/ NewBoundary(boundaries'[i])
      <3>1. CASE i <= n
        <4>1. i \in 1 .. Len(boundaries) /\ boundaries'[i] = boundaries[i]
          BY <2>4, <3>1 DEF n
        <4> QED BY <1>1, <4>1
      <3>2. CASE i > n
        <4>1. i \in n + 1 .. n + seen /\ i - n \in 1 .. seen
          BY <2>4, <3>2
        <4>2. boundaries'[i] = row(i - n)
          BY <2>3, <2>4, <4>1
        <4> QED BY <2>2, <4>1, <4>2
      <3> QED BY <2>4, <3>1, <3>2
    <2> QED BY <2>4, <2>5
  <1> QED BY <1>2, <1>3

LEMMA CallRaisesSound == AuditInv /\ CallRaises => AuditInv'
  <1> SUFFICES ASSUME AuditInv, CallRaises PROVE AuditInv'
    OBVIOUS
  <1>1. Active /\ callsDone < Len(steps) /\ report' = report /\ End(Protected)
    BY DEF CallRaises, Active
  <1>2. ReportsItsOwn'
    <2>1. unfinished \subseteq unfinished' /\ ReportsItsOwn
      BY <1>1 DEF End, AuditInv
    <2> QED BY <1>1, <2>1 DEF ReportsItsOwn
  <1>3. CASE Protected
    <2>1. Disable /\ FinishSample
      BY <1>3 DEF CallRaises
    <2>2. End(TRUE)
      BY <1>1, <1>3 DEF End
    <2> QED BY <1>1, <1>2, <2>1, <2>2, CleanEnd
  <1>4. CASE ~Protected
    <2>1. PICK seen \in 0 .. Hooks :
            Forward(TurnedOn(Current), Current.stage, TRUE) /\ Hooked(Current, seen)
      BY <1>4 DEF CallRaises
    <2>2. End(FALSE)
      BY <1>1, <1>4 DEF End
    <2>3. phase' \in {"off", "reference", "candidate"} /\ references' \subseteq References
      BY <1>1, <2>1, HookedReferences
    <2>4. /\ boundaries' \in Seq(Boundaries)
          /\ \A i \in 1 .. Len(boundaries') :
               BoundaryInv(boundaries'[i]) \/ NewBoundary(boundaries'[i])
      BY <1>1, <2>1, HookedBoundaries
    <2>5. ModelInv'
      <3>1. owner' = owner /\ ~Active' /\ ModelInv
        BY <2>2 DEF End, Active, AuditInv
      <3> QED BY <2>1, <3>1, ForwardModel
    <2>6. ASSUME NEW i \in 1 .. Len(boundaries')
          PROVE  /\ boundaries'[i].against.run = boundaries'[i].run
                 /\ boundaries'[i].against.call = boundaries'[i].call - 1
                 /\ boundaries'[i].run <= run /\ boundaries'[i].run \in unfinished \cup {run}
      <3> DEFINE b == boundaries'[i]
      <3>1. BoundaryInv(b) \/ NewBoundary(b)
        BY <2>4
      <3>2. run \in Nat /\ callsDone \in Nat
        BY <1>1, CurrentFacts DEF AuditInv, StepsInv
      <3> HIDE DEF b
      <3>3. /\ b.against.run = b.run /\ b.against.call = b.call - 1
            /\ b.run <= run /\ b.run \in unfinished \cup {run}
        BY <3>1, <3>2 DEF BoundaryInv, NewBoundary
      <3> QED BY <3>3 DEF b
    <2> DEFINE finished == FALSE
    <2>7. finished \in BOOLEAN /\ End(finished) /\ ~finished
      BY <2>2
    <2> HIDE DEF finished
    <2> QED BY <1>1, <1>2, <2>3, <2>4, <2>5, <2>6, <2>7, EndSound, Zenon
  <1> QED BY <1>3, <1>4

LEMMA CallFollows ==
  ASSUME AuditInv, Call
  PROVE  /\ Active /\ Active' /\ callsDone < Len(steps) /\ callsDone' = callsDone + 1
         /\ UNCHANGED <<owner, kind, steps, report, run, unfinished>>
         /\ UNCHANGED <<installed, policy, dynamic>>
         /\ Forward(TurnedOn(Current), Current.stage, TRUE) /\ Hooked(Current, Hooks)
         /\ Hooks \in 0 .. Hooks
         /\ rows' = Recorded(TurnedOn(Current), Current.stage)
         /\ \A op \in Operators : ~Refuses(TurnedOn(Current), Current.stage, op)
  <1>1. /\ kind # "none" /\ callsDone < Len(steps) /\ ~Refused(Current)
        /\ Forward(TurnedOn(Current), Current.stage, TRUE) /\ Hooked(Current, Hooks)
        /\ callsDone' = callsDone + 1
        /\ UNCHANGED <<owner, kind, steps, report, run, unfinished>>
    BY DEF Call
  <1>2. UNCHANGED <<installed, policy, dynamic>>
    BY <1>1 DEF Forward
  <1>3. rows' = Recorded(TurnedOn(Current), Current.stage)
    <2> DEFINE recorded == Recorded(TurnedOn(Current), Current.stage)
    <2>1. recorded \in Seq(RowSet)
      BY RecordedFacts DEF RowsUpTo
    <2>2. rows' = <<>> \o recorded
      BY <1>1 DEF Forward, Cleared
    <2> HIDE DEF recorded
    <2>3. rows' = recorded
      BY <2>1, <2>2
    <2> QED BY <2>3 DEF recorded
  <1>4. Hooks \in 0 .. Hooks
    BY SessionsAssumption
  <1> QED BY <1>1, <1>2, <1>3, <1>4 DEF Active, Refused

\* What a pass would record does not change with a call.
LEMMA RowsDueStay ==
  ASSUME UNCHANGED <<installed, policy>>, NEW on
  PROVE  RowsDue(on)' = RowsDue(on)
  BY DEF RowsDue, RescueModes, Executes, Matching, Ruled, Mode

LEMMA CallPasses == AuditInv /\ Call => PassesOnTheirSide'
  <1> SUFFICES ASSUME AuditInv, Call PROVE PassesOnTheirSide'
    OBVIOUS
  <1> DEFINE on == Current.stage
  <1>1. /\ callsDone' = callsDone + 1 /\ UNCHANGED <<steps, installed, policy>>
        /\ rows' = Recorded(TurnedOn(Current), on)
    BY CallFollows
  <1>2. steps'[callsDone'] = Current
    BY <1>1 DEF Current
  <1>3. TurnedOn(Current) \in BOOLEAN /\ (TurnedOn(Current) <=> Current.side = "candidate")
    BY DEF TurnedOn
  <1>4. Modules(rows') = IF TurnedOn(Current) THEN RowsDue(on) ELSE {}
    BY <1>1, <1>3, CallFollows, ForwardRecords DEF AuditInv
  <1>5. {rows'[i].module : i \in DOMAIN rows'} = Modules(rows')
    <2>1. rows' \in Seq(RowSet)
      BY <1>1, RecordedFacts DEF RowsUpTo
    <2>2. DOMAIN rows' = 1 .. Len(rows')
      BY <2>1
    <2> QED BY <2>2 DEF Modules
  <1>6. PICK s : s = steps'[callsDone'].stage
    OBVIOUS
  <1>7. RowsDue(s)' = RowsDue(s)
    BY <1>1, RowsDueStay
  <1>8. on = s
    BY <1>2, <1>6
  <1> HIDE DEF on
  <1>9. {rows'[i].module : i \in DOMAIN rows'}
          = IF steps'[callsDone'].side = "candidate" THEN RowsDue(s)' ELSE {}
    BY <1>2, <1>3, <1>4, <1>5, <1>7, <1>8
  <1>10. RowsDue(s)' = RowsDue(steps[callsDone].stage)'
    BY <1>6
  <1>11. ({rows[i].module : i \in DOMAIN rows}
            = IF steps[callsDone].side = "candidate" THEN RowsDue(steps[callsDone].stage) ELSE {})'
    BY <1>9, <1>10
  <1> QED BY <1>11, Zenon DEF PassesOnTheirSide, RowsDue

LEMMA CallReferences == AuditInv /\ Call => ReferencesInv'
  <1> SUFFICES ASSUME AuditInv, Call PROVE ReferencesInv'
    OBVIOUS
  <1>1. /\ Active /\ Active' /\ callsDone < Len(steps) /\ callsDone' = callsDone + 1
        /\ UNCHANGED <<steps, run>> /\ Hooked(Current, Hooks) /\ Hooks \in 0 .. Hooks
    BY CallFollows
  <1>2. Last' = Current
    BY <1>1 DEF Last, Current
  <1>3. /\ phase' \in {"off", "reference", "candidate"} /\ references' \subseteq References
        /\ Compares(Current, "reference") =>
             {r \in references' : r.at = Current.at} = OfPass(Current, callsDone + 1)
    BY <1>1, HookedReferences
  <1>4. Compares(Last, "reference")' <=> Compares(Current, "reference")
    BY <1>2 DEF Compares
  <1>5. OfPass(Last, callsDone)' = OfPass(Current, callsDone + 1)
    BY <1>1, <1>2 DEF OfPass
  <1> QED BY <1>1, <1>2, <1>3, <1>4, <1>5 DEF ReferencesInv

LEMMA CallBoundaries == AuditInv /\ Call => BoundariesInv'
  <1> SUFFICES ASSUME AuditInv, Call PROVE BoundariesInv'
    OBVIOUS
  <1>1. /\ Active /\ Active' /\ callsDone < Len(steps) /\ callsDone' = callsDone + 1
        /\ UNCHANGED <<steps, run, unfinished>> /\ Hooked(Current, Hooks) /\ Hooks \in 0 .. Hooks
    BY CallFollows
  <1>2. /\ boundaries' \in Seq(Boundaries)
        /\ \A i \in 1 .. Len(boundaries') :
             BoundaryInv(boundaries'[i]) \/ NewBoundary(boundaries'[i])
    BY <1>1, HookedBoundaries
  <1>3. callsDone \in Nat /\ run \in Nat
    BY <1>1, CurrentFacts DEF AuditInv, StepsInv
  <1>4. ASSUME NEW i \in 1 .. Len(boundaries') PROVE BoundaryInv(boundaries[i])'
    <2> DEFINE b == boundaries'[i]
    <2>1. BoundaryInv(b) \/ NewBoundary(b)
      BY <1>2
    <2> HIDE DEF b
    <2>2. CASE BoundaryInv(b)
      <3>1. /\ b.against.run = b.run /\ b.against.call = b.call - 1 /\ b.run <= run
            /\ b.run \in unfinished \/ b.run = run
            /\ b.run = run => b.call \in 1 .. callsDone + 1 /\ steps[b.call].captured
        BY <1>1, <1>3, <2>2 DEF BoundaryInv
      <3> QED BY <1>1, <3>1 DEF BoundaryInv, b
    <2>3. CASE NewBoundary(b)
      <3>1. /\ b.against.run = b.run /\ b.against.call = b.call - 1 /\ b.run <= run
            /\ b.run = run /\ b.call \in 1 .. callsDone + 1 /\ steps[b.call].captured
        BY <1>3, <2>3 DEF NewBoundary, Compares, Current
      <3> QED BY <1>1, <3>1 DEF BoundaryInv, b
    <2> QED BY <2>1, <2>2, <2>3
  <1> QED BY <1>2, <1>4 DEF BoundariesInv

\* The rows of a pass are told apart by their operators, those of two passes by
\* their calls.
LEMMA CallOperators == AuditInv /\ Call => OperatorsInv' /\ OperatorRowsOnce'
  <1> SUFFICES ASSUME AuditInv, Call PROVE OperatorsInv' /\ OperatorRowsOnce'
    OBVIOUS
  <1> DEFINE R == [row : RowSet, call : Nat]
             next == callsDone + 1
             added == Stamped(Current)
             n == Len(operators)
             m == Len(rows')
  <1>1. /\ Active /\ callsDone < Len(steps) /\ callsDone' = next
        /\ UNCHANGED <<steps, kind>> /\ rows' = Recorded(TurnedOn(Current), Current.stage)
    BY CallFollows
  <1>2. callsDone \in Nat /\ next \in Nat /\ steps[next] = Current
    BY <1>1, CurrentFacts DEF Current
  <1>3. /\ operators \in Seq(R) /\ OperatorRowsOnce /\ kind # "none"
        /\ \A i \in 1 .. n : operators[i].call \in 1 .. callsDone
                             /\ Compares(steps[operators[i].call], "candidate")
    BY <1>1 DEF AuditInv, OperatorsInv, Active
  <1>4. rows' \in Seq(RowSet) /\ OnceEach(rows')
    BY <1>1, RecordedFacts DEF RowsUpTo
  <1>5. /\ added \in Seq(R) /\ Len(added) = m /\ m \in Nat
        /\ \A k \in 1 .. m : added[k].row = rows'[k] /\ added[k].call = next
    <2>1. DOMAIN rows' = 1 .. m /\ m \in Nat /\ \A k \in 1 .. m : rows'[k] \in RowSet
      BY <1>4
    <2>2. added = [k \in 1 .. m |-> [row |-> rows'[k], call |-> next]]
      BY <2>1 DEF Stamped
    <2> HIDE DEF added, m, next
    <2>3. \A k \in 1 .. m : [row |-> rows'[k], call |-> next] \in R
      BY <1>2, <2>1
    <2> HIDE DEF R
    <2> QED BY <2>1, <2>2, <2>3
  <1>6. operators' = IF Compares(Current, "candidate") THEN operators \o added ELSE operators
    BY DEF Call, Compares
  <1> HIDE DEF R, added, m, next
  <1>7. CASE ~Compares(Current, "candidate")
    <2>1. operators' = operators
      BY <1>6, <1>7
    <2>2. OperatorsInv'
      BY <1>1, <1>2, <1>3, <2>1 DEF OperatorsInv, Compares, next, R
    <2>3. OperatorRowsOnce'
      BY <1>1, <1>3, <2>1 DEF OperatorRowsOnce
    <2> QED BY <2>2, <2>3
  <1>8. CASE Compares(Current, "candidate")
    <2>1. operators' = operators \o added
      BY <1>6, <1>8
    <2>2. /\ operators' \in Seq(R) /\ n \in Nat /\ Len(operators') = n + m
          /\ \A i \in 1 .. n : operators'[i] = operators[i]
          /\ \A i \in n + 1 .. n + m : operators'[i] = added[i - n]
      <3>1. operators \in Seq(R) /\ added \in Seq(R) /\ Len(added) = m
        BY <1>3, <1>5
      <3>2. /\ operators \o added \in Seq(R) /\ Len(operators) \in Nat
            /\ Len(operators \o added) = Len(operators) + Len(added)
            /\ \A i \in 1 .. Len(operators) : (operators \o added)[i] = operators[i]
            /\ \A i \in Len(operators) + 1 .. Len(operators) + Len(added) :
                 (operators \o added)[i] = added[i - Len(operators)]
        BY <3>1, Joined
      <3> QED BY <2>1, <3>1, <3>2, Zenon DEF n
    <2> HIDE DEF n
    <2>3. ASSUME NEW i \in n + 1 .. n + m
          PROVE  /\ i - n \in 1 .. m /\ operators'[i].call = next
                 /\ operators'[i].row = rows'[i - n]
      <3>1. i - n \in 1 .. m
        BY <1>5, <2>2
      <3> QED BY <1>5, <2>2, <3>1
    <2>4. ASSUME NEW i \in 1 .. n
          PROVE  /\ operators'[i] = operators[i] /\ operators'[i].call \in 1 .. callsDone
                 /\ Compares(steps[operators'[i].call], "candidate")
      BY <1>3, <2>2, <2>4 DEF n
    <2>5. \A i \in 1 .. n + m : i \in 1 .. n \/ i \in n + 1 .. n + m
      BY <1>5, <2>2
    <2>6. ASSUME NEW i \in 1 .. n + m
          PROVE  operators'[i].call \in 1 .. next /\ Compares(steps[operators'[i].call], "candidate")
      BY <1>2, <1>8, <2>3, <2>4, <2>5 DEF next
    <2>7. OperatorsInv'
      BY <1>1, <2>2, <2>6 DEF OperatorsInv, Compares, R
    <2>8. ASSUME NEW i \in 1 .. n + m, NEW j \in 1 .. n + m, i # j
          PROVE  operators'[i].call # operators'[j].call
                 \/ operators'[i].row.module # operators'[j].row.module
      <3>1. CASE i \in 1 .. n /\ j \in 1 .. n
        <4>1. DOMAIN operators = 1 .. n
          BY <1>3 DEF n
        <4> QED BY <1>3, <2>4, <2>8, <3>1, <4>1 DEF OperatorRowsOnce
      <3>2. CASE i \in n + 1 .. n + m /\ j \in n + 1 .. n + m
        <4>1. i - n # j - n /\ i - n \in 1 .. m /\ j - n \in 1 .. m
          BY <2>2, <2>3, <2>8, <3>2
        <4> QED BY <1>4, <2>3, <3>2, <4>1 DEF OnceEach, m
      <3>3. CASE i \in 1 .. n /\ j \in n + 1 .. n + m
        BY <1>2, <2>3, <2>4, <3>3 DEF next
      <3>4. CASE i \in n + 1 .. n + m /\ j \in 1 .. n
        BY <1>2, <2>3, <2>4, <3>4 DEF next
      <3> QED BY <2>5, <3>1, <3>2, <3>3, <3>4
    <2>9. DOMAIN operators' = 1 .. n + m
      BY <2>2
    <2>10. OperatorRowsOnce'
      BY <1>1, <2>6, <2>8, <2>9 DEF OperatorRowsOnce, Compares
    <2> QED BY <2>7, <2>10
  <1> QED BY <1>7, <1>8

LEMMA CallSound == AuditInv /\ Call => AuditInv'
  <1> SUFFICES ASSUME AuditInv, Call PROVE AuditInv'
    OBVIOUS
  <1>1. /\ Active /\ Active' /\ callsDone < Len(steps) /\ callsDone' = callsDone + 1
        /\ UNCHANGED <<owner, kind, steps, report, run, unfinished>>
        /\ Forward(TurnedOn(Current), Current.stage, TRUE)
    BY CallFollows
  <1>2. ModelInv'
    BY <1>1, ForwardModel DEF AuditInv
  <1>3. StepsInv'
    <2>1. StepsInv /\ callsDone' \in 0 .. Len(steps)
      BY <1>1, CurrentFacts DEF AuditInv
    <2> QED BY <1>1, <2>1 DEF StepsInv, Paired, NoneSlow
  <1>4. ReportsItsOwn'
    <2>1. ReportsItsOwn
      BY DEF AuditInv
    <2> QED BY <1>1, <2>1 DEF ReportsItsOwn
  <1> QED BY <1>2, <1>3, <1>4, CallReferences, CallBoundaries, CallOperators, CallPasses, Zenon
          DEF AuditInv

-----------------------------------------------------------------------------
(* Every step, and what follows from the invariant.                          *)
LEMMA AuditSteps == AuditInv /\ [AuditNext]_auditVars => AuditInv'
  <1> SUFFICES ASSUME AuditInv, [AuditNext]_auditVars PROVE AuditInv'
    OBVIOUS
  <1>1. CASE UNCHANGED auditVars
    <2>1. /\ UNCHANGED <<installed, enabled, rows, policy, dynamic, cached, owner, phase, references>>
          /\ UNCHANGED <<boundaries, kind, steps, callsDone, operators, report, run, unfinished>>
      BY <1>1 DEF auditVars, emulator, capture
    <2>2. ModelInv' /\ StepsInv'
      <3>1. ModelInv'
        <4>1. ModelInv /\ (Constructed(policy)' <=> Constructed(policy)) /\ (Active' <=> Active)
          BY <2>1 DEF AuditInv, Constructed, Active
        <4> QED BY <2>1, <4>1, Inventory' = Inventory DEF ModelInv
      <3>2. Paired(steps)' <=> Paired(steps)
        BY <2>1 DEF Paired
      <3>3. NoneSlow(steps)' <=> NoneSlow(steps)
        BY <2>1 DEF NoneSlow
      <3>4. StepsInv'
        BY <2>1, <3>2, <3>3 DEF AuditInv, StepsInv
      <3> QED BY <3>1, <3>4
    <2>3. ReferencesInv' /\ BoundariesInv' /\ OperatorsInv'
      BY <2>1 DEF AuditInv, ReferencesInv, BoundariesInv, BoundaryInv, OperatorsInv, Active, Last,
                  OfPass, Compares
    <2>4. PassesOnTheirSide'
      <3>1. UNCHANGED <<installed, policy>>
        BY <2>1
      <3>2. PICK s : s = steps[callsDone].stage
        OBVIOUS
      <3>3. RowsDue(s)' = RowsDue(s)
        BY <3>1, RowsDueStay
      <3>4. Active /\ callsDone > 0 /\ owner = "quantized" =>
              {rows[i].module : i \in DOMAIN rows}
                = IF steps[callsDone].side = "candidate" THEN RowsDue(steps[callsDone].stage) ELSE {}
        BY Zenon DEF AuditInv, PassesOnTheirSide, RowsDue, Active
      <3>5. RowsDue(s) = RowsDue(steps[callsDone].stage) /\ steps' = steps /\ callsDone' = callsDone
        BY <2>1, <3>2
      <3>6. RowsDue(s)' = RowsDue(steps[callsDone].stage)'
        BY <3>2, <3>5
      <3>7. (kind # "none" /\ callsDone > 0 /\ owner = "quantized" =>
              {rows[i].module : i \in DOMAIN rows}
                = IF steps[callsDone].side = "candidate" THEN RowsDue(steps[callsDone].stage) ELSE {})'
        BY <2>1, <3>3, <3>4, <3>5, <3>6 DEF Active
      <3> QED BY <3>7, Zenon DEF PassesOnTheirSide, RowsDue
    <2>5. OperatorRowsOnce' /\ ReportsItsOwn'
      BY <2>1 DEF AuditInv, OperatorRowsOnce, ReportsItsOwn
    <2> QED BY <2>2, <2>3, <2>4, <2>5, Zenon DEF AuditInv
  <1>2. CASE AuditNext
    BY <1>2, OpenQuantizedSound, SetPatternsSound, OpenFloatSound, SetPolicySound, StartAuditSound,
       CallSound, CallRaisesSound, DecodingRaisesSound, FinishSound, CloseSound, Zenon
       DEF AuditNext
  <1> QED BY <1>1, <1>2

\* A pass under way finds the references it is compared with.
LEMMA SessionTyped == AuditInv => SessionTypeOK
  <1> SUFFICES ASSUME AuditInv PROVE SessionTypeOK
    OBVIOUS
  <1>1. /\ owner \in {"none", "installed", "float", "quantized", "lost"}
        /\ dynamic \subseteq installed /\ cached \subseteq installed
        /\ installed \subseteq Operators
    BY InventoryFacts DEF AuditInv, ModelInv
  <1>2. /\ kind \in {"none", "eager", "coordinates"} /\ callsDone \in 0 .. Len(steps)
        /\ phase \in {"off", "reference", "candidate"}
    BY DEF AuditInv, StepsInv, ReferencesInv
  <1>3. ASSUME kind # "none", callsDone < Len(steps), Current.captured, Current.side = "candidate",
               NEW hook \in 1 .. Hooks
        PROVE  [at |-> Current.at, hook |-> hook, run |-> run, call |-> callsDone] \in references
    <2>1. Active /\ Compares(Current, "candidate")
      BY <1>3 DEF Active, Compares
    <2>2. {r \in references : r.at = Current.at} = OfPass(Current, callsDone)
      BY <1>3, <2>1, CurrentFacts
    <2>3. [at |-> Current.at, hook |-> hook, run |-> run, call |-> callsDone]
            \in OfPass(Current, callsDone)
      BY DEF OfPass
    <2> QED BY <2>2, <2>3
  <1> QED BY <1>1, <1>2, <1>3 DEF SessionTypeOK

\* What AuditSound says of every state.
SessionSound ==
  /\ SessionTypeOK /\ PassesOnTheirSide /\ OperatorRowsOnce /\ BoundariesPaired
  /\ ReportsItsOwn /\ FloatBetweenRuns /\ ModelLeftAlone

LEMMA AuditSessionSound == AuditInv => SessionSound
  <1> SUFFICES ASSUME AuditInv PROVE SessionSound
    OBVIOUS
  <1>1. BoundariesPaired
    <2>1. /\ boundaries \in Seq(Boundaries)
          /\ \A i \in 1 .. Len(boundaries) : BoundaryInv(boundaries[i])
      BY DEF AuditInv, BoundariesInv
    <2>2. /\ kind = "coordinates" => NoneSlow(steps) /\ Active
          /\ callsDone \in 0 .. Len(steps) /\ Len(steps) \in Nat
      BY DEF AuditInv, StepsInv, Paired, Active
    <2>3. ASSUME NEW i \in 1 .. Len(boundaries)
          PROVE  LET row == boundaries[i]
                 IN /\ row.against.run = row.run /\ row.against.call = row.call - 1
                    /\ row.run = run /\ kind = "coordinates" => steps[row.call].stage # "ar_q1"
      <3> DEFINE b == boundaries[i]
      <3>1. BoundaryInv(b)
        BY <2>1
      <3> HIDE DEF b
      <3>2. /\ b.against.run = b.run /\ b.against.call = b.call - 1
            /\ b.run = run /\ kind = "coordinates" => steps[b.call].stage # "ar_q1"
        BY <2>2, <3>1 DEF BoundaryInv, NoneSlow
      <3> QED BY <3>2 DEF b
    <2>4. DOMAIN boundaries = 1 .. Len(boundaries)
      BY <2>1
    <2> QED BY <2>3, <2>4 DEF BoundariesPaired
  <1>2. FloatBetweenRuns
    BY DEF AuditInv, ReferencesInv, FloatBetweenRuns, Idle, Active
  <1>3. ModelLeftAlone
    BY DEF AuditInv, ModelInv, ModelLeftAlone
  <1> QED BY <1>1, <1>2, <1>3, SessionTyped, Zenon DEF AuditInv, SessionSound

\* A forward moves the scales of norms and of operators that run their own forward.
LEMMA ForwardMoves ==
  ASSUME ModelInv, installed # {}, NEW turnedOn, NEW on, Forward(turnedOn, on, TRUE)
  PROVE  moved' \ moved \subseteq RMSNorms \cup Uncalibrated
  <1>1. installed = Inventory /\ (policy = NoPolicy \/ Constructed(policy))
    BY DEF ModelInv
  <1>2. ASSUME NEW op \in Operators, Kind[op] = "static", Mode(turnedOn, on, op) = "observed"
        PROVE  op \in Uncalibrated
    <2>1. Mode(turnedOn, on, op) \in RescueModes(turnedOn, on, op)
      BY <1>1, RescueFacts
    <2>2. op \in installed => RescueModes(turnedOn, on, op) \subseteq Modes(Kind[op])
      BY <1>1, RescueFacts
    <2>3. "observed" \notin Modes(Kind[op])
      BY OperatorFacts, ModesFinite
    <2>4. op \notin Inventory
      BY <1>1, <1>2, <2>1, <2>2, <2>3
    <2> QED BY <2>4, InventoryFacts
  <1>3. moved' \ moved \subseteq Observing(turnedOn, on)
    BY DEF Forward
  <1>4. Observing(turnedOn, on) \subseteq RMSNorms \cup Uncalibrated
    BY <1>2 DEF Observing
  <1> QED BY <1>3, <1>4

LEMMA ScalesKept == AuditInv /\ [AuditNext]_auditVars => [CalibrationKept]_auditVars
  <1> SUFFICES ASSUME AuditInv, AuditNext, installed # {}
               PROVE  moved' \ moved \subseteq RMSNorms \cup Uncalibrated
    BY DEF CalibrationKept
  <1>1. ModelInv
    BY DEF AuditInv
  <1>2. CASE UNCHANGED moved
    BY <1>2
  <1>3. CASE \E on, turnedOn : Forward(turnedOn, on, TRUE)
    BY <1>1, <1>3, ForwardMoves
  <1>4. Call => \E on, turnedOn : Forward(turnedOn, on, TRUE)
    BY DEF Call
  <1>5. CallRaises => UNCHANGED moved \/ \E on, turnedOn : Forward(turnedOn, on, TRUE)
    BY DEF CallRaises, Disable
  <1>6. OpenQuantized \/ SetPatterns \/ OpenFloat \/ SetPolicy \/ StartAudit => UNCHANGED moved
    BY DEF OpenQuantized, Install, SetPatterns, SetDynamicQuantizerPatterns, OpenFloat, SetPolicy,
           SetRescuePolicy, StartAudit, emulator
  <1>7. DecodingRaises \/ Finish \/ Close => UNCHANGED moved
    BY DEF DecodingRaises, Disable, Finish, Close, CloseEmulator
  <1> QED BY <1>2, <1>3, <1>4, <1>5, <1>6, <1>7 DEF AuditNext

(* In a numerical audit, whatever the operators, the policies, the patterns   *)
(* and the boxes that need the fallback: the Float pass that is compared runs *)
(* with nothing rounded and the quantized one with all the policy leaves to   *)
(* quantize, boundaries are compared with the Float pass just before, a       *)
(* report holds its own run's rows or those of runs cut short before it, the  *)
(* model goes back to Float between runs, and no quantizer that was           *)
(* calibrated has its range moved while the emulator has the model.  The      *)
(* scales of norms, which it never takes over, may rise in any pass.          *)
THEOREM AuditsAreSound == AuditSpec => AuditSound
  <1>1. AuditInit => AuditInv
    BY AuditInitSound
  <1>2. AuditInv /\ [AuditNext]_auditVars => AuditInv'
    BY AuditSteps
  <1>3. AuditInv => SessionSound
    BY AuditSessionSound
  <1>4. AuditInv /\ [AuditNext]_auditVars => [CalibrationKept]_auditVars
    BY ScalesKept
  <1> QED BY <1>1, <1>2, <1>3, <1>4, PTL DEF AuditSpec, AuditSound, SessionSound
==============================================================================
