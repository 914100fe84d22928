---------------------------- MODULE RttEstimator ----------------------------
(***************************************************************************)
(* The mean-deviation round-trip-time estimator (rtt-estimator.cc), whose  *)
(* samples the wormhole detection reads.  A program holds several          *)
(* estimators; each takes measurements, is reset, has its attributes set   *)
(* and is copied over another one.                                         *)
(*                                                                         *)
(* Times are whole ticks, as in class Time.  A gain is a whole number of   *)
(* parts of Scale, so that 1/2 to 1/32 are exact.  The result of a         *)
(* floating-point update is one of the two ticks around the exact value.   *)
(***************************************************************************)
EXTENDS Integers

CONSTANTS Estimators,   \* the estimator objects of the program
          Samples,      \* the round-trip times that are measured
          Initials,     \* the values InitialEstimation is set to
          Scale,        \* the parts a gain is counted in
          Gains,        \* the gains, in those parts, Alpha and Beta are set to
          MaxSamples    \* bound: measurements one estimator takes between resets

ASSUME ScaleAssumption == Scale \in {32 * k : k \in 1..8}
ASSUME GainsAssumption == Gains \subseteq 0..Scale
ASSUME TimesAssumption == Samples \subseteq Nat /\ Initials \subseteq Nat
ASSUME BoundAssumption == MaxSamples \in Nat

VARIABLES
    rtt,      \* the fields of each estimator
    history   \* auxiliary: least and greatest sample since its reset

vars == <<rtt, history>>

(* The history of an estimator without samples. *)
NoSamples == [least |-> 0, greatest |-> 0]

(* A new estimator: the constructor fills in what Reset resets, and Time's  *)
(* default value stands in the two fields added for the detection.          *)
New(initial, alpha, beta) ==
    [initial |-> initial, alpha |-> alpha, beta |-> beta,
     estimate |-> initial, variation |-> 0, nSamples |-> 0,
     sampled |-> 0, delta |-> 0]

-----------------------------------------------------------------------------
(* Arithmetic. *)

AbsTime(t) == IF t < 0 THEN -t ELSE t

(* log2 of the reciprocal of a gain if the integer update supports it, or 0. *)
CheckForReciprocalPowerOfTwo(gain) ==
    CASE 2 * gain = Scale  -> 1
      [] 4 * gain = Scale  -> 2
      [] 8 * gain = Scale  -> 3
      [] 16 * gain = Scale -> 4
      [] 32 * gain = Scale -> 5
      [] OTHER             -> 0

(* Mutant: the shift rounds to zero, as a division by 2^shift would. *)
SmoothedTowardsZero(old, err, shift) ==
    IF err < 0 THEN old - ((-err) \div 2^shift) ELSE old + (err \div 2^shift)

(* ((old << shift) + err) >> shift; the shift of a negative value rounds down. *)
Smoothed(old, err, shift) == ((old * 2^shift) + err) \div 2^shift

(* The ticks that old + gain * err can be converted to. *)
Converted(old, err, gain) ==
    LET exact == old * Scale + gain * err
    IN  {t \in {exact \div Scale, exact \div Scale + 1} :
            t * Scale < exact + Scale}

-----------------------------------------------------------------------------
(* The updates: the states of an estimator e that a sample m leads to. *)

(* Mutant: the deviation is taken with its sign. *)
IntegerUpdateSigned(e, m) ==
    LET delta == m - e.estimate
    IN  [e EXCEPT !.sampled = m,
                  !.delta = delta,
                  !.estimate = Smoothed(@, delta,
                                        CheckForReciprocalPowerOfTwo(e.alpha)),
                  !.variation = Smoothed(@, delta - @,
                                         CheckForReciprocalPowerOfTwo(e.beta))]

IntegerUpdate(e, m) ==
    LET delta == m - e.estimate
    IN  [e EXCEPT !.sampled = m,
                  !.delta = delta,
                  !.estimate = Smoothed(@, delta,
                                        CheckForReciprocalPowerOfTwo(e.alpha)),
                  !.variation = Smoothed(@, AbsTime(delta) - @,
                                         CheckForReciprocalPowerOfTwo(e.beta))]

(* The floating-point update leaves sampled and delta as they were. *)
FloatingPointUpdate(e, m) ==
    LET err == m - e.estimate
    IN  {[e EXCEPT !.estimate = c[1], !.variation = c[2]] :
            c \in Converted(e.estimate, err, e.alpha)
                  \X Converted(e.variation, AbsTime(err) - e.variation, e.beta)}

(* Both gains are reciprocal powers of two. *)
IsInteger(e) == /\ CheckForReciprocalPowerOfTwo(e.alpha) # 0
                /\ CheckForReciprocalPowerOfTwo(e.beta) # 0

(* Mutant: the first sample is averaged with the initial estimate. *)
MeasuredAveraged(e, m) ==
    IF IsInteger(e) THEN {IntegerUpdate(e, m)} ELSE FloatingPointUpdate(e, m)

(* The first sample after a reset replaces the estimate.                    *)
Measured(e, m) ==
    IF e.nSamples = 0
    THEN {[e EXCEPT !.estimate = m, !.variation = m \div 2]}
    ELSE IF IsInteger(e) THEN {IntegerUpdate(e, m)} ELSE FloatingPointUpdate(e, m)

(* The history after one more sample. *)
Noted(h, n, m) ==
    [least    |-> IF n = 0 \/ m < h.least THEN m ELSE h.least,
     greatest |-> IF n = 0 \/ m > h.greatest THEN m ELSE h.greatest]

-----------------------------------------------------------------------------
(* The operations on an estimator. *)

(* Measurement(m). *)
Measurement(i, m) ==
    /\ rtt[i].nSamples < MaxSamples
    /\ \E e \in Measured(rtt[i], m) :
           rtt' = [rtt EXCEPT ![i] = [e EXCEPT !.nSamples = @ + 1]]
    /\ history' = [history EXCEPT ![i] = Noted(@, rtt[i].nSamples, m)]

(* Mutant: the number of samples survives a reset. *)
CleanedCounted(e) == [e EXCEPT !.estimate = e.initial, !.variation = 0]

(* The fields of an estimator after Reset. *)
Cleaned(e) == [e EXCEPT !.estimate = e.initial, !.variation = 0, !.nSamples = 0]

Reset(i) ==
    /\ rtt' = [rtt EXCEPT ![i] = Cleaned(@)]
    /\ history' = [history EXCEPT ![i] = NoSamples]

(* j becomes a copy of i.  The copy constructor names neither of the fields *)
(* that were added, which start from Time's default.                        *)
Copy(i, j) ==
    /\ i # j
    /\ rtt' = [rtt EXCEPT ![j] = [rtt[i] EXCEPT !.sampled = 0, !.delta = 0]]
    /\ history' = [history EXCEPT ![j] = history[i]]

(* SetAttribute of the initial estimate and of the gains: they take effect  *)
(* at the next Reset and at the next measurement.                           *)
SetInitialEstimation(i, initial) ==
    /\ rtt' = [rtt EXCEPT ![i].initial = initial]
    /\ UNCHANGED history

SetGains(i, alpha, beta) ==
    /\ rtt' = [rtt EXCEPT ![i].alpha = alpha, ![i].beta = beta]
    /\ UNCHANGED history

Init ==
    /\ \E initial \in Initials, alpha, beta \in Gains :
           rtt = [i \in Estimators |-> New(initial, alpha, beta)]
    /\ history = [i \in Estimators |-> NoSamples]

Next ==
    \E i \in Estimators :
        \/ \E m \in Samples : Measurement(i, m)
        \/ Reset(i)
        \/ \E j \in Estimators : Copy(i, j)
        \/ \E initial \in Initials : SetInitialEstimation(i, initial)
        \/ \E alpha, beta \in Gains : SetGains(i, alpha, beta)

Spec == Init /\ [][Next]_vars

-----------------------------------------------------------------------------
(* Properties. *)

(* Every field keeps its type: the times an estimator reports are never     *)
(* negative, whatever gains are set between two samples.                    *)
TypeOK ==
    /\ rtt \in [Estimators -> [initial : Initials, alpha : Gains, beta : Gains,
                               estimate : Nat, variation : Nat,
                               nSamples : 0..MaxSamples,
                               sampled : Nat, delta : Int]]
    /\ history \in [Estimators -> [least : Nat, greatest : Nat]]

(* Whatever the rounding, and however the gains are changed, an estimate    *)
(* lies between the least and the greatest sample since the last reset:     *)
(* nothing of the initial estimate or of an earlier session is left in it.  *)
EstimateWithinSamples ==
    \A i \in Estimators :
        rtt[i].nSamples > 0 =>
            rtt[i].estimate \in history[i].least .. history[i].greatest

(* The variation is at most the spread of the samples, or what the first    *)
(* sample set it to.                                                        *)
VariationWithinSpread ==
    \A i \in Estimators :
        rtt[i].nSamples > 0 =>
            \/ rtt[i].variation <= history[i].greatest - history[i].least
            \/ rtt[i].variation <= history[i].greatest \div 2

(* An estimate that a later sample leaves where it was is that sample or    *)
(* less than 1 / alpha ticks below it: the integer arithmetic can stick     *)
(* below the round-trip time, but never above it.                           *)
NeverStuckHigh ==
    [][\A i \in Estimators, m \in Samples :
          (rtt[i].nSamples > 0 /\ rtt'[i].estimate = rtt[i].estimate
              /\ IsInteger(rtt[i]) /\ Measurement(i, m)) =>
            m - rtt[i].estimate \in
                0 .. 2^CheckForReciprocalPowerOfTwo(rtt[i].alpha) - 1]_vars

(* MeasuredRttSample: "Returns actual RTT measurements" (rtt-estimator.h).  *)
(* It does not: the first sample and the floating-point update do not store *)
(* theirs.                                                                  *)
SampleIsMeasured ==
    [][\A i \in Estimators, m \in Samples :
          Measurement(i, m) => rtt'[i].sampled = m]_vars
=============================================================================
