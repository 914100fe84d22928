------------------------- MODULE RttEstimatorProofs -------------------------
(***************************************************************************)
(* Machine-checked proofs about RttEstimator: for every scale, every set   *)
(* of gains and every sequence of samples, resets, copies and changes of   *)
(* gains, the estimate stays within the samples and the variation within   *)
(* their spread.                                                           *)
(***************************************************************************)
EXTENDS RttEstimator, TLAPS

\* x lies between a and b, in either order.
Between(x, a, b) == (a <= x /\ x <= b) \/ (b <= x /\ x <= a)

-----------------------------------------------------------------------------
(* The arithmetic: an update never overshoots what it moves towards.       *)

\* The gains the integer update supports are shifts by 1 to 5.
LEMMA ShiftRange ==
  ASSUME NEW gain
  PROVE  CheckForReciprocalPowerOfTwo(gain) \in 0..5
BY DEF CheckForReciprocalPowerOfTwo

\* The powers of two that are shifted by.
LEMMA Powers ==
  ASSUME NEW shift \in 1..5
  PROVE  2^shift \in {2, 4, 8, 16, 32}
<1>1. shift \in {1, 2, 3, 4, 5}
  OBVIOUS
<1>2. 2^1 = 2 /\ 2^2 = 4 /\ 2^3 = 8 /\ 2^4 = 16 /\ 2^5 = 32
  OBVIOUS
<1>3. QED
  BY <1>1, <1>2

\* Rounding down keeps a smoothed value between the old and the new one.
LEMMA SmoothedBetween ==
  ASSUME NEW old \in Int, NEW err \in Int, NEW shift \in 1..5
  PROVE  /\ Smoothed(old, err, shift) \in Int
         /\ Between(Smoothed(old, err, shift), old, old + err)
<1>1. 2^shift \in {2, 4, 8, 16, 32}
  BY Powers
<1>2. PICK p \in {2, 4, 8, 16, 32} : p = 2^shift
  BY <1>1
<1>3. Smoothed(old, err, shift) = ((old * p) + err) \div p
  BY <1>2 DEF Smoothed
<1>4. CASE p = 2   BY <1>3, <1>4 DEF Between
<1>5. CASE p = 4   BY <1>3, <1>5 DEF Between
<1>6. CASE p = 8   BY <1>3, <1>6 DEF Between
<1>7. CASE p = 16  BY <1>3, <1>7 DEF Between
<1>8. CASE p = 32  BY <1>3, <1>8 DEF Between
<1>9. QED
  BY <1>4, <1>5, <1>6, <1>7, <1>8

\* Either rounding of a product with a gain of at most 1 stays between too.
LEMMA ConvertedBetween ==
  ASSUME NEW old \in Int, NEW new \in Int, NEW gain \in 0..Scale,
         NEW t \in Converted(old, new - old, gain)
  PROVE  t \in Int /\ Between(t, old, new)
<1>1. Scale \in Nat /\ Scale > 0
  BY ScaleAssumption
<1> DEFINE exact == old * Scale + gain * (new - old)
<1>2. exact \in Int
  BY <1>1
<1>3. t \in Int /\ exact < t * Scale + Scale /\ t * Scale < exact + Scale
  <2>1. /\ exact \div Scale \in Int
        /\ Scale * (exact \div Scale) <= exact
        /\ exact < Scale * (exact \div Scale) + Scale
    BY <1>1, <1>2
  <2>2. t \in {exact \div Scale, exact \div Scale + 1} /\ t * Scale < exact + Scale
    BY DEF Converted
  <2> HIDE DEF exact
  <2>3. QED
    BY <1>1, <1>2, <2>1, <2>2
<1>4. CASE old <= new
  <2>1. 0 <= gain * (new - old) /\ gain * (new - old) <= Scale * (new - old)
    BY <1>1, <1>4
  <2>2. old * Scale <= exact /\ exact <= new * Scale
    BY <1>1, <2>1
  <2> HIDE DEF exact
  <2>3. old * Scale < (t + 1) * Scale /\ t * Scale < (new + 1) * Scale
    BY <1>1, <1>2, <1>3, <2>2
  <2>4. old < t + 1 /\ t < new + 1
    BY <1>1, <1>3, <2>3
  <2>5. QED
    BY <1>3, <2>4 DEF Between
<1>5. CASE new <= old
  <2>1. gain * (new - old) <= 0 /\ Scale * (new - old) <= gain * (new - old)
    BY <1>1, <1>5
  <2>2. new * Scale <= exact /\ exact <= old * Scale
    BY <1>1, <2>1
  <2> HIDE DEF exact
  <2>3. new * Scale < (t + 1) * Scale /\ t * Scale < (old + 1) * Scale
    BY <1>1, <1>2, <1>3, <2>2
  <2>4. new < t + 1 /\ t < old + 1
    BY <1>1, <1>3, <2>3
  <2>5. QED
    BY <1>3, <2>4 DEF Between
<1>6. QED
  BY <1>4, <1>5

-----------------------------------------------------------------------------
(* One measurement.                                                        *)

\* The records TypeOK puts in rtt and history.
Estimator == [initial : Initials, alpha : Gains, beta : Gains,
              estimate : Nat, variation : Nat, nSamples : 0..MaxSamples,
              sampled : Nat, delta : Int]
History == [least : Nat, greatest : Nat]

\* What EstimateWithinSamples and VariationWithinSpread say of one estimator.
Within(e, h) ==
    e.nSamples > 0 =>
        /\ h.least <= e.estimate /\ e.estimate <= h.greatest
        /\ \/ e.variation <= h.greatest - h.least
           \/ e.variation <= h.greatest \div 2

\* A later sample leaves the estimate between the old one and the sample, and
\* the variation between the old one and the deviation.
LEMMA UpdateBetween ==
  ASSUME NEW e \in Estimator, NEW m \in Samples, e.nSamples > 0,
         NEW f \in Measured(e, m)
  PROVE  /\ f \in Estimator
         /\ f.nSamples = e.nSamples
         /\ Between(f.estimate, e.estimate, m)
         /\ Between(f.variation, e.variation, AbsTime(m - e.estimate))
<1> DEFINE d == AbsTime(m - e.estimate)
<1>1. /\ e.estimate \in Nat /\ e.variation \in Nat /\ m \in Nat
      /\ e.alpha \in 0..Scale /\ e.beta \in 0..Scale
  BY GainsAssumption, TimesAssumption DEF Estimator
<1>2. d \in Nat
  BY <1>1 DEF AbsTime
<1>3. CASE IsInteger(e)
  <2> DEFINE rs == CheckForReciprocalPowerOfTwo(e.alpha)
             vs == CheckForReciprocalPowerOfTwo(e.beta)
  <2>1. rs \in 1..5 /\ vs \in 1..5
    BY <1>3, ShiftRange DEF IsInteger
  <2>2. f = IntegerUpdate(e, m)
    BY <1>3 DEF Measured
  <2> DEFINE est == Smoothed(e.estimate, m - e.estimate, rs)
             var == Smoothed(e.variation, d - e.variation, vs)
  <2>3. f = [e EXCEPT !.sampled = m, !.delta = m - e.estimate,
                      !.estimate = est, !.variation = var]
    BY <2>2 DEF IntegerUpdate, Estimator
  <2> DEFINE x == m - e.estimate
             y == d - e.variation
  <2> HIDE DEF rs, vs, d
  <2>4. /\ x \in Int /\ y \in Int
        /\ e.estimate \in Int /\ e.variation \in Int
        /\ e.estimate + x = m /\ e.variation + y = d
    BY <1>1, <1>2
  <2> HIDE DEF x, y
  <2>5. /\ Smoothed(e.estimate, x, rs) \in Int
        /\ Between(Smoothed(e.estimate, x, rs), e.estimate, m)
    BY <1>1, <2>1, <2>4, SmoothedBetween, Zenon
  <2>6. /\ Smoothed(e.variation, y, vs) \in Int
        /\ Between(Smoothed(e.variation, y, vs), e.variation, d)
    BY <1>1, <2>1, <2>4, SmoothedBetween, Zenon
  <2> HIDE DEF est, var
  <2>7. /\ est \in Nat /\ Between(est, e.estimate, m)
        /\ var \in Nat /\ Between(var, e.variation, d)
    <3>1. est = Smoothed(e.estimate, x, rs) /\ var = Smoothed(e.variation, y, vs)
      BY DEF est, var, x, y
    <3>2. QED
      BY <1>1, <1>2, <2>5, <2>6, <3>1 DEF Between
  <2>8. /\ f \in Estimator /\ f.estimate = est /\ f.variation = var
        /\ f.nSamples = e.nSamples
    BY <1>1, <2>3, <2>4, <2>7 DEF Estimator, x
  <2>9. QED
    BY <2>7, <2>8 DEF d
<1>4. CASE ~IsInteger(e)
  <2>1. f \in FloatingPointUpdate(e, m)
    BY <1>4 DEF Measured
  <2>2. PICK c \in Converted(e.estimate, m - e.estimate, e.alpha)
                   \X Converted(e.variation, d - e.variation, e.beta) :
               f = [e EXCEPT !.estimate = c[1], !.variation = c[2]]
    BY <2>1 DEF FloatingPointUpdate
  <2> DEFINE est == c[1]
             var == c[2]
  <2>a. /\ est \in Converted(e.estimate, m - e.estimate, e.alpha)
        /\ var \in Converted(e.variation, d - e.variation, e.beta)
        /\ f = [e EXCEPT !.estimate = est, !.variation = var]
    BY <2>2
  <2> HIDE DEF est, var, d
  <2>3. est \in Int /\ Between(est, e.estimate, m)
    BY <1>1, <2>a, ConvertedBetween
  <2>4. var \in Int /\ Between(var, e.variation, d)
    BY <1>1, <1>2, <2>a, ConvertedBetween
  <2>5. est \in Nat /\ var \in Nat
    BY <1>1, <1>2, <2>3, <2>4 DEF Between
  <2>6. /\ f \in Estimator /\ f.estimate = est /\ f.variation = var
        /\ f.nSamples = e.nSamples
    BY <2>a, <2>5 DEF Estimator
  <2>7. QED
    BY <2>3, <2>4, <2>6 DEF d
<1>5. QED
  BY <1>3, <1>4

\* A measurement, the first or a later one, keeps the types and the bounds.
LEMMA MeasuredWithin ==
  ASSUME NEW e \in Estimator, NEW h \in History, Within(e, h),
         NEW m \in Samples, e.nSamples < MaxSamples,
         NEW f \in Measured(e, m)
  PROVE  LET g == [f EXCEPT !.nSamples = f.nSamples + 1]
             k == Noted(h, e.nSamples, m)
         IN  g \in Estimator /\ k \in History /\ Within(g, k)
<1> DEFINE g == [f EXCEPT !.nSamples = f.nSamples + 1]
           k == Noted(h, e.nSamples, m)
<1>1. /\ e.estimate \in Nat /\ e.variation \in Nat /\ m \in Nat
      /\ e.nSamples \in 0..MaxSamples /\ MaxSamples \in Nat
      /\ h.least \in Nat /\ h.greatest \in Nat
  BY TimesAssumption, BoundAssumption DEF Estimator, History
<1>2. k \in History
  BY <1>1 DEF Noted, History
<1>3. CASE e.nSamples = 0
  <2>1. f = [e EXCEPT !.estimate = m, !.variation = m \div 2]
    BY <1>3 DEF Measured
  <2>2. m \div 2 \in Nat
    BY <1>1
  <2> DEFINE v == m \div 2
  <2> HIDE DEF v
  <2>a. f = [e EXCEPT !.estimate = m, !.variation = v] /\ v \in Nat
    BY <2>1, <2>2 DEF v
  <2>b. f \in Estimator /\ f.estimate = m /\ f.variation = v /\ f.nSamples = 0
    BY <1>1, <1>3, <2>a DEF Estimator
  <2>c. 1 \in 0..MaxSamples
    BY <1>1, <1>3
  <2>3. /\ g \in Estimator /\ g.estimate = m /\ g.variation = m \div 2
    BY <2>b, <2>c DEF Estimator, v
  <2>4. k.least = m /\ k.greatest = m
    BY <1>3 DEF Noted
  <2>5. QED
    BY <1>1, <1>2, <2>2, <2>3, <2>4 DEF Within
<1>4. CASE e.nSamples > 0
  <2> DEFINE d == AbsTime(m - e.estimate)
  <2>1. /\ f \in Estimator /\ f.nSamples = e.nSamples
        /\ Between(f.estimate, e.estimate, m)
        /\ Between(f.variation, e.variation, d)
    BY <1>4, UpdateBetween
  <2>2. f.estimate \in Nat /\ f.variation \in Nat
    BY <2>1 DEF Estimator
  <2>3. /\ g \in Estimator /\ g.estimate = f.estimate
        /\ g.variation = f.variation
    BY <1>1, <2>1 DEF Estimator
  <2>4. /\ k.least \in Nat /\ k.greatest \in Nat
        /\ k.least <= m /\ m <= k.greatest
        /\ k.least <= h.least /\ h.greatest <= k.greatest
    BY <1>1, <1>4 DEF Noted
  <2>5. /\ h.least <= e.estimate /\ e.estimate <= h.greatest
        /\ \/ e.variation <= h.greatest - h.least
           \/ e.variation <= h.greatest \div 2
    BY <1>4 DEF Within
  <2>6. k.least <= f.estimate /\ f.estimate <= k.greatest
    BY <1>1, <2>1, <2>2, <2>4, <2>5 DEF Between
  <2>7. d \in Nat /\ d <= k.greatest - k.least
    BY <1>1, <2>4, <2>5 DEF AbsTime
  <2>8. f.variation <= e.variation \/ f.variation <= k.greatest - k.least
    <3> HIDE DEF d, k
    <3>1. QED
      BY <1>1, <2>1, <2>2, <2>4, <2>7 DEF Between
  <2>9. \/ f.variation <= k.greatest - k.least
        \/ f.variation <= k.greatest \div 2
    <3> HIDE DEF d, k
    <3>1. QED
      BY <1>1, <2>2, <2>4, <2>5, <2>8
  <2>10. QED
    BY <1>2, <2>3, <2>6, <2>9 DEF Within
<1>5. QED
  BY <1>1, <1>3, <1>4

\* A copy without its sample and delta keeps the types.
LEMMA CopiedTyped ==
  ASSUME NEW e \in Estimator
  PROVE  [e EXCEPT !.sampled = 0, !.delta = 0] \in Estimator
<1>1. PICK z \in Nat : z = 0 /\ z \in Int
  OBVIOUS
<1>2. [e EXCEPT !.sampled = z, !.delta = z] \in Estimator
  BY <1>1 DEF Estimator
<1>3. QED
  BY <1>1, <1>2

-----------------------------------------------------------------------------
(* The invariant.                                                          *)

\* The inductive invariant: the bounds need the types (nothing is negative).
IInv == /\ rtt \in [Estimators -> Estimator]
        /\ history \in [Estimators -> History]
        /\ \A i \in Estimators : Within(rtt[i], history[i])

\* IInv is an invariant: a copy takes the history along with the fields, a
\* reset starts an empty one, and a change of gains touches neither.
LEMMA Invariance == Spec => []IInv
<1>1. Init => IInv
  BY BoundAssumption, TimesAssumption
  DEF Init, New, NoSamples, IInv, Within, Estimator, History
<1>2. IInv /\ [Next]_vars => IInv'
  <2> SUFFICES ASSUME IInv, [Next]_vars PROVE IInv'
    OBVIOUS
  <2> USE DEF IInv
  <2>1. ASSUME NEW i \in Estimators, NEW m \in Samples, Measurement(i, m)
        PROVE  IInv'
    <3>1. PICK f \in Measured(rtt[i], m) :
            rtt' = [rtt EXCEPT ![i] = [f EXCEPT !.nSamples = f.nSamples + 1]]
      BY <2>1 DEF Measurement
    <3>2. /\ history' = [history EXCEPT ![i] = Noted(history[i], rtt[i].nSamples, m)]
          /\ rtt[i].nSamples < MaxSamples
      BY <2>1 DEF Measurement
    <3> DEFINE g == [f EXCEPT !.nSamples = f.nSamples + 1]
               k == Noted(history[i], rtt[i].nSamples, m)
    <3>3. g \in Estimator /\ k \in History /\ Within(g, k)
      BY <2>1, <3>2, MeasuredWithin
    <3> HIDE DEF g, k
    <3>4. rtt' = [rtt EXCEPT ![i] = g] /\ history' = [history EXCEPT ![i] = k]
      BY <3>1, <3>2 DEF g, k
    <3>5. QED
      BY <3>3, <3>4
  <2>2. ASSUME NEW i \in Estimators, Reset(i)
        PROVE  IInv'
    <3> DEFINE e == rtt[i]
    <3>c. e \in Estimator
      OBVIOUS
    <3> HIDE DEF e
    <3>d. e.initial \in Initials /\ 0 \in 0..MaxSamples
      BY <3>c, BoundAssumption DEF Estimator
    <3>a. e \in Estimator /\ e.initial \in Nat /\ 0 \in 0..MaxSamples
      BY <3>c, <3>d, TimesAssumption
    <3>b. Cleaned(e) \in Estimator /\ Cleaned(e).nSamples = 0
      BY <3>a DEF Cleaned, Estimator
    <3>1. Cleaned(rtt[i]) \in Estimator /\ Cleaned(rtt[i]).nSamples = 0
      BY <3>b DEF e
    <3>2. NoSamples \in History
      BY DEF NoSamples, History
    <3>3. Within(Cleaned(rtt[i]), NoSamples)
      BY <3>1 DEF Within
    <3>4. QED
      BY <2>2, <3>1, <3>2, <3>3 DEF Reset
  <2>3. ASSUME NEW i \in Estimators, NEW j \in Estimators, Copy(i, j)
        PROVE  IInv'
    <3> DEFINE e == rtt[i]
               g == [e EXCEPT !.sampled = 0, !.delta = 0]
    <3>a. e \in Estimator /\ Within(e, history[i])
      OBVIOUS
    <3> HIDE DEF e
    <3>b. g \in Estimator
      BY <3>a, CopiedTyped
    <3>1. g \in Estimator /\ Within(g, history[i])
      BY <3>a, <3>b DEF Estimator, Within
    <3> HIDE DEF g
    <3>2. rtt' = [rtt EXCEPT ![j] = g] /\ history' = [history EXCEPT ![j] = history[i]]
      BY <2>3 DEF Copy, g, e
    <3>3. QED
      BY <3>1, <3>2
  <2>4. ASSUME NEW i \in Estimators, NEW x \in Initials,
               SetInitialEstimation(i, x)
        PROVE  IInv'
    <3> DEFINE g == [rtt[i] EXCEPT !.initial = x]
    <3>1. g \in Estimator /\ Within(g, history[i])
      BY DEF Estimator, Within
    <3> HIDE DEF g
    <3>2. rtt' = [rtt EXCEPT ![i] = g] /\ history' = history
      BY <2>4 DEF SetInitialEstimation, g
    <3>3. QED
      BY <3>1, <3>2
  <2>5. ASSUME NEW i \in Estimators, NEW alpha \in Gains, NEW beta \in Gains,
               SetGains(i, alpha, beta)
        PROVE  IInv'
    <3> DEFINE g == [rtt[i] EXCEPT !.alpha = alpha, !.beta = beta]
    <3>1. g \in Estimator /\ Within(g, history[i])
      BY DEF Estimator, Within
    <3> HIDE DEF g
    <3>2. rtt' = [rtt EXCEPT ![i] = g] /\ history' = history
      BY <2>5 DEF SetGains, g
    <3>3. QED
      BY <3>1, <3>2
  <2>6. CASE UNCHANGED vars
    BY <2>6 DEF vars
  <2>7. QED
    BY <2>1, <2>2, <2>3, <2>4, <2>5, <2>6 DEF Next
<1>3. QED
  BY <1>1, <1>2, PTL DEF Spec

\* No estimator ever reports a negative time, and each field keeps its type.
THEOREM TypeCorrect == Spec => []TypeOK
<1>1. IInv => TypeOK
  BY DEF IInv, TypeOK, Estimator, History
<1>2. QED
  BY <1>1, Invariance, PTL

\* The estimate is between the least and the greatest sample since the last
\* reset, for both updates, every gain and every change of gains.
THEOREM EstimatesAreBounded == Spec => []EstimateWithinSamples
<1>1. IInv => EstimateWithinSamples
  <2> SUFFICES ASSUME IInv, NEW i \in Estimators, rtt[i].nSamples > 0
               PROVE  rtt[i].estimate \in history[i].least .. history[i].greatest
    BY DEF EstimateWithinSamples
  <2>1. /\ rtt[i].estimate \in Nat
        /\ history[i].least \in Nat /\ history[i].greatest \in Nat
    BY DEF IInv, Estimator, History
  <2>2. QED
    BY <2>1 DEF IInv, Within
<1>2. QED
  BY <1>1, Invariance, PTL

\* The variation is bounded by the spread of the samples or by half the
\* greatest one.
THEOREM VariationsAreBounded == Spec => []VariationWithinSpread
<1>1. IInv => VariationWithinSpread
  BY DEF IInv, Within, VariationWithinSpread
<1>2. QED
  BY <1>1, Invariance, PTL

\* A smoothed value that stays where it was is at most 2^shift - 1 below what
\* it moves towards, and never above it.
LEMMA StuckBelow ==
  ASSUME NEW old \in Int, NEW err \in Int, NEW shift \in 1..5,
         Smoothed(old, err, shift) = old
  PROVE  err \in 0 .. 2^shift - 1
<1>1. PICK p \in {2, 4, 8, 16, 32} : p = 2^shift
  BY Powers
<1>2. ((old * p) + err) \div p = old
  BY <1>1 DEF Smoothed
<1>3. err \in 0 .. p - 1
  <2>1. CASE p = 2   BY <1>2, <2>1
  <2>2. CASE p = 4   BY <1>2, <2>2
  <2>3. CASE p = 8   BY <1>2, <2>3
  <2>4. CASE p = 16  BY <1>2, <2>4
  <2>5. CASE p = 32  BY <1>2, <2>5
  <2>6. QED
    BY <2>1, <2>2, <2>3, <2>4, <2>5
<1>4. QED
  BY <1>1, <1>3

\* An estimate the integer update leaves unchanged is never above the sample.
THEOREM StuckOnlyBelow == Spec => NeverStuckHigh
<1> DEFINE Stuck(i, m) ==
             (rtt[i].nSamples > 0 /\ rtt'[i].estimate = rtt[i].estimate
                /\ IsInteger(rtt[i]) /\ Measurement(i, m)) =>
             m - rtt[i].estimate \in
                 0 .. 2^CheckForReciprocalPowerOfTwo(rtt[i].alpha) - 1
<1>1. ASSUME IInv, NEW i \in Estimators, NEW m \in Samples
      PROVE  Stuck(i, m)
  <2> SUFFICES ASSUME rtt[i].nSamples > 0, rtt'[i].estimate = rtt[i].estimate,
                      IsInteger(rtt[i]), Measurement(i, m)
               PROVE  m - rtt[i].estimate \in
                        0 .. 2^CheckForReciprocalPowerOfTwo(rtt[i].alpha) - 1
    OBVIOUS
  <2> DEFINE e == rtt[i]
             shift == CheckForReciprocalPowerOfTwo(e.alpha)
             f == IntegerUpdate(e, m)
  <2>1. e \in Estimator /\ m \in Int /\ e.estimate \in Int /\ m - e.estimate \in Int
    BY <1>1, TimesAssumption DEF IInv, Estimator
  <2>2. shift \in 1..5
    BY ShiftRange DEF IsInteger
  <2>3. Measured(e, m) = {f}
    BY <2>1 DEF Measured, Estimator
  <2>4. rtt' = [rtt EXCEPT ![i] = [f EXCEPT !.nSamples = f.nSamples + 1]]
    BY <2>3 DEF Measurement
  <2>5. rtt'[i] = [f EXCEPT !.nSamples = f.nSamples + 1]
    BY <1>1, <2>4 DEF IInv
  <2>6. f.estimate = Smoothed(e.estimate, m - e.estimate, shift)
    BY <2>1 DEF IntegerUpdate, Estimator
  <2>7. rtt'[i].estimate = f.estimate
    <3>1. "estimate" \in DOMAIN f
      BY <2>1 DEF IntegerUpdate, Estimator
    <3> HIDE DEF f
    <3>2. QED
      BY <2>5, <3>1
  <2>8. Smoothed(e.estimate, m - e.estimate, shift) = e.estimate
    BY <2>6, <2>7
  <2> HIDE DEF e, shift
  <2>9. m - e.estimate \in 0 .. 2^shift - 1
    BY <2>1, <2>2, <2>8, StuckBelow
  <2>10. QED
    BY <2>9 DEF e, shift
<1>2. IInv => [\A i \in Estimators, m \in Samples : Stuck(i, m)]_vars
  BY <1>1
<1> HIDE DEF Stuck
<1>3. Spec => [][\A i \in Estimators, m \in Samples : Stuck(i, m)]_vars
  BY <1>2, Invariance, PTL DEF Spec
<1>4. QED
  BY <1>3 DEF NeverStuckHigh, Stuck
=============================================================================
