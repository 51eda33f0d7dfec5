------------------------------- MODULE GyroReader ------------------------------
(***************************************************************************)
(* muan/wpilib/gyro: the thread that finds how fast the gyro drifts while  *)
(* the robot stands disabled, and integrates it from then on, and the      *)
(* History that it averages over.                                          *)
(*                                                                         *)
(* Rates are integers.  A transaction with the gyro can fail: then a       *)
(* reading is Zero, which is a rate like others.  A drift is the samples   *)
(* that it is the mean of; the mean of none of them is no number.          *)
(***************************************************************************)
EXTENDS Integers, Sequences, FiniteSetsExt

CONSTANTS
  Rates,        \* what the gyro reads, inversion included
  Zero,         \* what a failed transaction reads
  Limit,        \* kCalibrationVelocityLimit
  CalibCycles,  \* how many samples a complete calibration has
  MaxSamples    \* samples taken in calibration (a bound)

ASSUME CyclesAssumption == CalibCycles \in Nat \ {0} /\ Rates \cup {Zero} \subseteq Int

VARIABLES
  gyroState,    \* calibration_state_
  at,           \* which of Init, RunCalibration and RunReader the thread is in
  station,      \* whether the last driver station message, if there is one, says disabled
  disabled,     \* RunCalibration's robot_disabled
  ring,         \* hist_arr_
  current,      \* current_pos_
  highest,      \* highest_sample_count
  drift,        \* drift_rate_: the samples that it is the mean of
  angle,        \* angle_: what is known of it
  resetDue,     \* should_reset_
  samples       \* history: what calibration has read

gyroVars == <<gyroState, at, station, disabled, ring, current, highest, drift, angle,
              resetDue, samples>>

GyroInit ==
  /\ gyroState = "kUninitialized" /\ at = "Init"
  /\ station = "none" /\ disabled = TRUE
  /\ ring = [i \in 0 .. CalibCycles - 1 |-> 0] /\ current = 0
  /\ highest = 0 /\ drift = <<0>>
  /\ angle = "zero" /\ resetDue = FALSE
  /\ samples = <<>>

-----------------------------------------------------------------------------
(* History.                                                                 *)

Earliest(position) == IF position > CalibCycles THEN position - CalibCycles ELSE 0
NumSamples(position) == position - Earliest(position)
Slot(position) == position % CalibCycles

\* What an iterator over the history comes past.
Recorded(r, position) ==
  [k \in 1 .. NumSamples(position) |-> r[Slot(Earliest(position) + k - 1)]]

-----------------------------------------------------------------------------
(* The thread.                                                              *)

\* The gyro is tried every 100 ms until it answers, or until somebody else has set the
\* state, which is overwritten.
RunInit ==
  /\ at = "Init" /\ at' = "RunCalibration"
  /\ gyroState' = "kCalibrating"
  /\ disabled' = (station # "enabled")
  /\ UNCHANGED <<station, ring, current, highest, drift, angle, resetDue, samples>>

\* Mutant: a mean of as many samples does not replace the one there is.
MoreSamples(n) == n > highest

\* The most recent complete calibration counts, or the one with the most samples.
AsManySamples(n) == n >= highest

Still(rate) == -Limit < rate /\ rate < Limit

\* One cycle of RunCalibration.
Calibrate(rate) ==
  /\ at = "RunCalibration" /\ gyroState = "kCalibrating" /\ disabled
  /\ Len(samples) < MaxSamples /\ samples' = Append(samples, rate)
  /\ IF Still(rate) THEN current' = current + 1 /\ ring' = [ring EXCEPT ![Slot(current)] = rate]
                    ELSE current' = 0 /\ UNCHANGED ring
  /\ IF AsManySamples(NumSamples(current'))
     THEN /\ highest' = NumSamples(current')
          /\ drift' = Recorded(ring', current')
     ELSE UNCHANGED <<highest, drift>>
  /\ disabled' = (IF station = "none" THEN disabled ELSE station = "disabled")
  /\ UNCHANGED <<gyroState, at, station, angle, resetDue>>

\* Whatever ended calibration, the reader runs.
EndCalibration ==
  /\ at = "RunCalibration" /\ ~(gyroState = "kCalibrating" /\ disabled)
  /\ at' = "RunReader" /\ gyroState' = "kRunning"
  /\ UNCHANGED <<station, disabled, ring, current, highest, drift, angle, resetDue, samples>>

\* One cycle of RunReader.
Read ==
  /\ at = "RunReader" /\ gyroState = "kRunning"
  /\ angle' = (IF resetDue THEN "zero" ELSE IF drift = <<>> \/ angle = "NaN" THEN "NaN" ELSE "turned")
  /\ resetDue' = FALSE
  /\ UNCHANGED <<gyroState, at, station, disabled, ring, current, highest, drift, samples>>

EndReader ==
  /\ at = "RunReader" /\ gyroState # "kRunning" /\ at' = "ended"
  /\ UNCHANGED <<gyroState, station, disabled, ring, current, highest, drift, angle,
                 resetDue, samples>>

\* What other threads ask for.
Ask ==
  /\ \/ resetDue' = TRUE /\ UNCHANGED gyroState
     \/ gyroState' \in {"kKilled", "kInitialized"} /\ UNCHANGED resetDue
  /\ UNCHANGED <<at, station, disabled, ring, current, highest, drift, angle, samples>>

DriverStation ==
  /\ station' \in {"disabled", "enabled"}
  /\ UNCHANGED <<gyroState, at, disabled, ring, current, highest, drift, angle, resetDue, samples>>

GyroNext ==
  \/ RunInit \/ (\E rate \in Rates \cup {Zero} : Calibrate(rate)) \/ EndCalibration
  \/ Read \/ EndReader
  \/ Ask \/ DriverStation

GyroSpec == GyroInit /\ [][GyroNext]_gyroVars

-----------------------------------------------------------------------------
(* Properties.                                                              *)

\* The drift is the mean of the samples of the longest time, up to that of a complete
\* calibration, that the robot stood still for without a break, and of the last such time,
\* wherever the ring buffer has begun anew.
StillFor(s, i) ==
  Max({n \in 0 .. CalibCycles : n <= i /\ \A k \in i - n + 1 .. i : Still(s[k])})
LongestStill(s) == Max({StillFor(s, i) : i \in 0 .. Len(s)})
LastEnd(s) == Max({i \in 0 .. Len(s) : StillFor(s, i) = LongestStill(s)})

DriftFromLongestStill ==
  LongestStill(samples) > 0 =>
    drift = SubSeq(samples, LastEnd(samples) - LongestStill(samples) + 1, LastEnd(samples))
=============================================================================
