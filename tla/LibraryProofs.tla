------------------------- MODULE LibraryProofs --------------------------
(***************************************************************************)
(* Three parts of the library that share nothing.                          *)
(*                                                                         *)
(* The hall calibration is accurate for every magnet, every step it can be *)
(* sampled with and every backlash.  The invariant follows the hall sensor *)
(* over the ends of the magnet: where it comes onto the magnet and where   *)
(* it goes off it, the encoder is known up to a step and the slack.        *)
(*                                                                         *)
(* The gyro's drift is the mean of the longest rest for every length of a  *)
(* calibration, all rates and every limit.  The invariant says which of    *)
(* the samples are in the ring, and where the samples of the drift ended.  *)
(*                                                                         *)
(* The files of the logs are tables for all queues and messages, through   *)
(* every power cut.  The invariant says how a file goes on with what is    *)
(* not flushed of it, and that a start's directory is of a number no       *)
(* earlier start has: those are below the count of starts.                 *)
(***************************************************************************)
EXTENDS HallCalibration, GyroReader, Logging, SequenceTheorems, ButtonRulesProofs

-----------------------------------------------------------------------------
(* The hall calibration.                                                    *)

\* The range that was seen reaches the magnet's far end, or its near end, up to
\* what a step can miss.
FarSeen == Far + 1 - Step - Slack <= maxHall
NearSeen == minHall <= Near - 1 + Step + Slack

\* The hall sensor trails the encoder.
Trails == hall - Slack <= sensor /\ sensor <= hall + Slack

\* What has been seen of the magnet is of the magnet.
RangeSeen ==
  magnetFound =>
    /\ maxHall <= Far + Slack /\ Near - Slack <= minHall /\ ~firstTime
    /\ FarSeen \/ Near + Slack <= maxHall
    /\ NearSeen \/ minHall <= Far - Slack

\* Until the magnet is found all readings are on one side of it.
OneSide ==
  ~firstTime /\ ~magnetFound =>
    /\ hall < Near => maxOverall <= Near - 1 + Slack
    /\ hall > Far => Far + 1 - Slack <= minOverall

\* On the magnet the reading is in the range; off it the end has been passed.
OnAndOff ==
  /\ ~firstTime /\ OnMagnet(hall) => magnetFound /\ minHall <= sensor /\ sensor <= maxHall
  /\ firstTime /\ OnMagnet(hall) => Slack = 0
  /\ magnetFound /\ hall > Far => FarSeen
  /\ magnetFound /\ hall < Near => NearSeen

\* A reading beyond the range was taken behind that end.
Beyond ==
  magnetFound => (maxOverall > maxHall => FarSeen) /\ (minOverall < minHall => NearSeen)

Calibrated ==
  calibrated => /\ magnetFound /\ FarSeen /\ NearSeen
                /\ twiceOffset = 2 * MagnetPosition - (maxHall + minHall)

IInv == TypeOK /\ Trails /\ RangeSeen /\ OneSide /\ OnAndOff /\ Beyond /\ Calibrated /\ FullPassCalibrates

-----------------------------------------------------------------------------
\* The geometry of the magnet is in whole numbers.
LEMMA Numbers ==
  /\ MagnetPosition \in Int /\ Near \in Int /\ Far \in Int
  /\ Step \in Int /\ Slack \in Int /\ 0 <= Step /\ 0 <= Slack /\ Step <= Far - Near + 1
  BY MagnetAssumption, StepAssumption, SlackAssumption

\* The constructor establishes the invariant.
LEMMA InitIInv == Init => IInv
<1> SUFFICES ASSUME Init PROVE IInv
  OBVIOUS
<1>1. sensor \in Int /\ hall \in Int /\ Trails
  BY Numbers, PositionsAssumption DEF Init, Trails
<1>2. TypeOK
  <2>1. maxHall \in Int /\ minHall \in Int /\ maxOverall \in Int /\ minOverall \in Int /\ twiceOffset \in Int
    BY DEF Init
  <2>2. firstTime \in BOOLEAN /\ magnetFound \in BOOLEAN /\ calibrated \in BOOLEAN
    BY DEF Init
  <2> QED BY <2>1, <2>2, <1>1 DEF TypeOK
<1>3. RangeSeen /\ OneSide /\ Beyond /\ Calibrated /\ FullPassCalibrates
  BY DEF Init, RangeSeen, OneSide, Beyond, Calibrated, FullPassCalibrates
<1>4. OnAndOff
  BY DEF Init, OnAndOff
<1> QED BY <1>1, <1>2, <1>3, <1>4 DEF IInv

\* The hall sensor moves no further than the encoder, and where it moves it is
\* pushed or pulled with all the slack.
LEMMA TrailStep ==
  ASSUME TypeOK, Trails, NEW value \in Int, Move(value)
  PROVE  \E h \in Int : /\ hall' = h /\ sensor' = value
                        /\ h - Slack <= value /\ value <= h + Slack
                        /\ h <= hall + Step /\ hall <= h + Step
                        /\ h > hall => value = h + Slack
                        /\ h < hall => value = h - Slack
<1> DEFINE h == Trail(value)
<1>1. /\ h \in Int /\ h - Slack <= value /\ value <= h + Slack
      /\ h <= hall + Step /\ hall <= h + Step
      /\ h > hall => value = h + Slack
      /\ h < hall => value = h - Slack
  BY Numbers DEF TypeOK, Trails, Move, Trail
<1>2. hall' = h /\ sensor' = value
  BY DEF Move
<1> QED BY <1>1, <1>2

\* What Update does to the two ranges.
LEMMA Ranges ==
  ASSUME TypeOK, NEW value \in Int, NEW on \in BOOLEAN, Update(value, on)
  PROVE  \E xH, nH, xO, nO \in Int :
         /\ maxHall' = xH /\ minHall' = nH /\ maxOverall' = xO /\ minOverall' = nO
         /\ magnetFound => maxHall <= xH /\ nH <= minHall
         /\ on => nH <= value /\ value <= xH
         /\ xH = maxHall \/ (on /\ xH = value)
         /\ nH = minHall \/ (on /\ nH = value)
         /\ on /\ ~magnetFound => xH = value /\ nH = value
         /\ xO = maxOverall \/ xO = value
         /\ nO = minOverall \/ nO = value
         /\ nO <= value /\ value <= xO
         /\ firstTime => xO = value /\ nO = value
<1> DEFINE xH == IF Widens(on, value > maxHall) THEN value ELSE maxHall
           nH == IF Widens(on, value < minHall) THEN value ELSE minHall
           xO == IF value > maxOverall \/ firstTime THEN value ELSE maxOverall
           nO == IF value < minOverall \/ firstTime THEN value ELSE minOverall
<1>1. xH \in Int /\ nH \in Int /\ xO \in Int /\ nO \in Int
  BY DEF TypeOK
<1>2. /\ magnetFound => maxHall <= xH /\ nH <= minHall
      /\ on => nH <= value /\ value <= xH
      /\ xH = maxHall \/ (on /\ xH = value)
      /\ nH = minHall \/ (on /\ nH = value)
      /\ on /\ ~magnetFound => xH = value /\ nH = value
  BY DEF TypeOK, Widens
<1>3. /\ xO = maxOverall \/ xO = value
      /\ nO = minOverall \/ nO = value
      /\ nO <= value /\ value <= xO
      /\ firstTime => xO = value /\ nO = value
  BY DEF TypeOK
<1>4. maxHall' = xH /\ minHall' = nH /\ maxOverall' = xO /\ minOverall' = nO
  BY DEF Update
<1> HIDE DEF xH, nH, xO, nO
<1> QED BY <1>1, <1>2, <1>3, <1>4

\* One Update, wherever the wrist has moved to, keeps it.
LEMMA MoveIInv == ASSUME IInv, NEW value \in Int, Move(value) PROVE IInv'
<1> DEFINE on == OnMagnet(hall')
<1>1. TypeOK /\ Trails /\ on \in BOOLEAN /\ Update(value, on)
  BY DEF IInv, Move, OnMagnet
<1>2. PICK h \in Int : /\ hall' = h /\ sensor' = value
                       /\ h - Slack <= value /\ value <= h + Slack
                       /\ h <= hall + Step /\ hall <= h + Step
                       /\ h > hall => value = h + Slack
                       /\ h < hall => value = h - Slack
  BY <1>1, TrailStep
<1>on. on <=> Near <= h /\ h <= Far
  BY <1>2 DEF OnMagnet
<1> HIDE DEF on
<1>3. PICK xH \in Int, nH \in Int, xO \in Int, nO \in Int :
         /\ maxHall' = xH /\ minHall' = nH /\ maxOverall' = xO /\ minOverall' = nO
         /\ magnetFound => maxHall <= xH /\ nH <= minHall
         /\ on => nH <= value /\ value <= xH
         /\ xH = maxHall \/ (on /\ xH = value)
         /\ nH = minHall \/ (on /\ nH = value)
         /\ on /\ ~magnetFound => xH = value /\ nH = value
         /\ xO = maxOverall \/ xO = value
         /\ nO = minOverall \/ nO = value
         /\ nO <= value /\ value <= xO
         /\ firstTime => xO = value /\ nO = value
  BY <1>1, Ranges
\* The old state, spelled out.
<1>ints. /\ maxHall \in Int /\ minHall \in Int /\ maxOverall \in Int /\ minOverall \in Int
         /\ sensor \in Int /\ hall \in Int
  BY <1>1 DEF TypeOK
<1>old. /\ hall - Slack <= sensor /\ sensor <= hall + Slack
        /\ ~firstTime /\ Near <= hall /\ hall <= Far => magnetFound /\ minHall <= sensor /\ sensor <= maxHall
        /\ firstTime /\ Near <= hall /\ hall <= Far => Slack = 0
        /\ ~firstTime /\ ~magnetFound => (hall < Near => maxOverall <= Near - 1 + Slack)
                                      /\ (hall > Far => Far + 1 - Slack <= minOverall)
  BY DEF IInv, OnAndOff, OneSide, OnMagnet, Trails
<1>found. magnetFound =>
            /\ maxHall <= Far + Slack /\ Near - Slack <= minHall /\ ~firstTime
            /\ Far + 1 - Step - Slack <= maxHall \/ Near + Slack <= maxHall
            /\ minHall <= Near - 1 + Step + Slack \/ minHall <= Far - Slack
            /\ hall > Far \/ maxOverall > maxHall => Far + 1 - Step - Slack <= maxHall
            /\ hall < Near \/ minOverall < minHall => minHall <= Near - 1 + Step + Slack
  BY DEF IInv, RangeSeen, OnAndOff, Beyond, FarSeen, NearSeen
\* The new state, spelled out; found is magnetFound'.
<1> DEFINE found == magnetFound \/ on
           farSeen == Far + 1 - Step - Slack <= xH
           nearSeen == nH <= Near - 1 + Step + Slack
<1>range. found => /\ xH <= Far + Slack /\ Near - Slack <= nH
                   /\ farSeen \/ Near + Slack <= xH
                   /\ nearSeen \/ nH <= Far - Slack
  BY <1>2, <1>3, <1>on, <1>ints, <1>old, <1>found, Numbers
<1>side. ~found => /\ h < Near => xO <= Near - 1 + Slack
                   /\ h > Far => Far + 1 - Slack <= nO
  BY <1>2, <1>3, <1>on, <1>ints, <1>old, Numbers
<1>onAndOff. /\ Near <= h /\ h <= Far => found /\ nH <= value /\ value <= xH
             /\ found /\ h > Far => farSeen
             /\ found /\ h < Near => nearSeen
  BY <1>2, <1>3, <1>on, <1>ints, <1>old, <1>found, Numbers
<1>beyond. found => (xO > xH => farSeen) /\ (nO < nH => nearSeen)
  BY <1>2, <1>3, <1>on, <1>ints, <1>old, <1>found, Numbers
<1>4. (magnetFound' <=> found) /\ ~firstTime' /\ (FarSeen' <=> farSeen) /\ (NearSeen' <=> nearSeen)
  BY <1>1, <1>3 DEF TypeOK, Update, FarSeen, NearSeen
<1> HIDE DEF found, farSeen, nearSeen
<1>5. Trails'
  BY <1>2 DEF Trails
<1>6. RangeSeen'
  BY <1>range, <1>3, <1>4 DEF RangeSeen
<1>7. OneSide'
  BY <1>side, <1>2, <1>3, <1>4 DEF OneSide
<1>8. OnAndOff'
  BY <1>onAndOff, <1>2, <1>3, <1>4 DEF OnAndOff, OnMagnet
<1>9. Beyond'
  BY <1>beyond, <1>3, <1>4 DEF Beyond
<1>10. calibrated' <=> (calibrated \/ (found /\ xO > xH /\ nO < nH))
  BY <1>1, <1>3 DEF Update, Passed, found
<1>11. Calibrated'
  <2>1. calibrated => found /\ farSeen /\ nearSeen
    BY <1>3, <1>ints, Numbers DEF IInv, Calibrated, FarSeen, NearSeen, found, farSeen, nearSeen
  <2>2. calibrated' => magnetFound' /\ FarSeen' /\ NearSeen'
    BY <2>1, <1>beyond, <1>4, <1>10
  <2>3. calibrated' => twiceOffset' = 2 * MagnetPosition - (maxHall' + minHall')
    BY <1>1 DEF Update
  <2> QED BY <2>2, <2>3 DEF Calibrated
<1>12. FullPassCalibrates'
  <2>1. nO < Near - Slack /\ Far + Slack < xO => calibrated'
    BY <1>2, <1>3, <1>on, <1>range, <1>side, <1>10, Numbers DEF found
  <2> QED BY <2>1, <1>3 DEF FullPassCalibrates
<1>13. TypeOK'
  <2>1. firstTime' \in BOOLEAN /\ magnetFound' \in BOOLEAN /\ calibrated' \in BOOLEAN
    BY <1>1 DEF TypeOK, Update
  <2>2. twiceOffset' \in Int
    <3>1. twiceOffset' = 2 * MagnetPosition - (xH + nH) \/ twiceOffset' = twiceOffset
      BY <1>1, <1>3 DEF Update
    <3> QED BY <3>1, <1>1, Numbers DEF TypeOK
  <2> QED BY <2>1, <2>2, <1>2, <1>3 DEF TypeOK
<1> QED BY <1>5, <1>6, <1>7, <1>8, <1>9, <1>11, <1>12, <1>13 DEF IInv

\* Every step keeps it.
LEMMA NextIInv == IInv /\ [Next]_vars => IInv'
<1> SUFFICES ASSUME IInv, [Next]_vars PROVE IInv'
  OBVIOUS
<1>1. CASE Next
  BY <1>1, MoveIInv, PositionsAssumption DEF Next
<1>2. CASE UNCHANGED vars
  BY <1>2 DEF vars, calibrationVars, IInv, TypeOK, Trails, RangeSeen, OneSide, OnAndOff, OnMagnet,
              Beyond, Calibrated, FarSeen, NearSeen, FullPassCalibrates
<1> QED BY <1>1, <1>2

\* The inductive invariant holds however the mechanism is moved.
THEOREM Invariance == Spec => []IInv
  BY InitIInv, NextIInv, PTL DEF Spec

\* A calibrated sensor is right up to half a step and the slack.
THEOREM Accuracy == Spec => []CalibratedIsAccurate
<1>1. IInv => CalibratedIsAccurate
  BY Numbers DEF IInv, TypeOK, RangeSeen, Calibrated, FarSeen, NearSeen,
                 CalibratedIsAccurate, TwiceError, Tolerance
<1> QED BY <1>1, Invariance, PTL

\* A mechanism that has been beyond both ends of its magnet is calibrated.
THEOREM Completeness == Spec => []FullPassCalibrates
  BY Invariance, PTL DEF IInv

-----------------------------------------------------------------------------
(* The gyro.                                                                *)

\* The robot has been still for the last m samples up to i and not for longer, or
\* longer than is kept.
RestOf(s, i, m) ==
  /\ m \in 0 .. CalibCycles /\ m <= i
  /\ \A k \in i - m + 1 .. i : Still(s[k])
  /\ m = CalibCycles \/ m = i \/ ~Still(s[i - m])

GyroTypeOK ==
  /\ samples \in Seq(Int) /\ ring \in [0 .. CalibCycles - 1 -> Int]
  /\ current \in Nat /\ highest \in 0 .. CalibCycles

\* The ring holds the last samples of the time since the robot moved.
RingOK ==
  /\ RestOf(samples, Len(samples), NumSamples(current))
  /\ \A k \in 1 .. NumSamples(current) : ring[Slot(current - k)] = samples[Len(samples) + 1 - k]

\* No rest was longer than the one of the samples d up to e, and none since was as long.
EndsAt(s, h, d, e) ==
  /\ StillFor(s, e) = h
  /\ \A i \in e + 1 .. Len(s) : StillFor(s, i) < h
  /\ d = [k \in 1 .. h |-> s[e - h + k]]

DriftOK ==
  /\ \A i \in 0 .. Len(samples) : StillFor(samples, i) \in 0 .. highest
  /\ highest > 0 =>
       \E e \in 0 .. Len(samples) : e >= highest /\ EndsAt(samples, highest, drift, e)

GyroInv == GyroTypeOK /\ RingOK /\ DriftOK

\* A greatest element is the maximum.
LEMMA MaxIs ==
  ASSUME NEW S \in SUBSET Int, NEW m \in S, \A y \in S : m >= y
  PROVE  Max(S) = m
<1>1. \E x \in S : \A y \in S : x >= y
  OBVIOUS
<1>2. Max(S) \in S /\ \A y \in S : Max(S) >= y
  BY <1>1 DEF Max
<1>3. Max(S) \in Int /\ m \in Int /\ m >= Max(S) /\ Max(S) >= m
  BY <1>2
<1> QED
  BY <1>3

\* What is kept of a history are its last samples, as many as there is room for.
LEMMA KeptSamples ==
  ASSUME NEW position \in Nat
  PROVE  /\ NumSamples(position) \in 0 .. CalibCycles /\ NumSamples(position) <= position
         /\ NumSamples(position) = CalibCycles \/ NumSamples(position) = position
         /\ Earliest(position) = position - NumSamples(position)
BY CyclesAssumption DEF NumSamples, Earliest

\* StillFor is the length of that rest.
LEMMA RestIs ==
  ASSUME NEW s, NEW i \in Nat, NEW m, RestOf(s, i, m)
  PROVE  StillFor(s, i) = m
<1> DEFINE Rests == {n \in 0 .. CalibCycles : n <= i /\ \A k \in i - n + 1 .. i : Still(s[k])}
<1>1. m \in Rests /\ Rests \in SUBSET Int
  BY CyclesAssumption DEF RestOf
<1>2. ASSUME NEW n \in Rests PROVE m >= n
  <2> SUFFICES ASSUME n > m PROVE FALSE
    BY <1>1
  <2>1. m # CalibCycles /\ m # i /\ i - m \in i - n + 1 .. i
    BY <1>1, CyclesAssumption
  <2> QED
    BY <2>1 DEF RestOf
<1>3. Max(Rests) = m
  <2> HIDE DEF Rests
  <2> QED BY <1>1, <1>2, MaxIs
<1> QED
  BY <1>3 DEF StillFor

\* Positions less than the ring's size apart do not share a place in it.
LEMMA PlacesDistinct ==
  ASSUME NEW p \in Nat, NEW q \in Nat, p < q, q < p + CalibCycles
  PROVE  Slot(p) # Slot(q)
<1> DEFINE qp == p \div CalibCycles
           qq == q \div CalibCycles
<1>1. /\ qp \in Nat /\ qq \in Nat
      /\ p = CalibCycles * qp + (p % CalibCycles) /\ q = CalibCycles * qq + (q % CalibCycles)
  BY CyclesAssumption
<1>2. SUFFICES ASSUME p % CalibCycles = q % CalibCycles PROVE FALSE
  BY DEF Slot
<1>3. q - p = CalibCycles * (qq - qp)
  BY <1>1, <1>2, CyclesAssumption
<1>4. CASE qq - qp <= 0
  <2> HIDE DEF qp, qq
  <2>1. CalibCycles * (qq - qp) <= 0
    BY <1>1, <1>4, CyclesAssumption
  <2> QED BY <2>1, <1>3
<1>5. CASE qq - qp >= 1
  <2> HIDE DEF qp, qq
  <2>1. CalibCycles * (qq - qp) >= CalibCycles
    BY <1>1, <1>5, CyclesAssumption
  <2> QED BY <2>1, <1>3, CyclesAssumption
<1>6. QED BY <1>1, <1>4, <1>5

\* A position has a place in the ring.
LEMMA PlaceType == \A p \in Nat : Slot(p) \in 0 .. CalibCycles - 1
  BY CyclesAssumption DEF Slot

\* The thread starts with no samples.
LEMMA GyroInitInv == GyroInit => GyroInv
<1> SUFFICES ASSUME GyroInit PROVE GyroInv
  OBVIOUS
<1>1. /\ samples = <<>> /\ Len(samples) = 0 /\ current = 0 /\ highest = 0
      /\ ring = [i \in 0 .. CalibCycles - 1 |-> 0]
  BY DEF GyroInit
<1>2. GyroTypeOK
  BY <1>1, CyclesAssumption DEF GyroTypeOK
<1>3. NumSamples(0) = 0
  BY KeptSamples
<1>4. RestOf(samples, 0, 0)
  BY CyclesAssumption DEF RestOf
<1>5. StillFor(samples, 0) = 0
  BY <1>4, RestIs
<1>6. RingOK
  BY <1>1, <1>3, <1>4 DEF RingOK
<1>7. DriftOK
  BY <1>1, <1>5 DEF DriftOK
<1> QED
  BY <1>2, <1>6, <1>7 DEF GyroInv

\* A sample that comes later says nothing of the rests before it.
LEMMA RestStays ==
  ASSUME NEW s \in Seq(Int), NEW rate \in Int, NEW i \in 0 .. Len(s)
  PROVE  StillFor(Append(s, rate), i) = StillFor(s, i)
<1> DEFINE t == Append(s, rate)
<1>1. \A k \in 1 .. Len(s) : t[k] = s[k]
  OBVIOUS
<1> HIDE DEF t
<1>2. ASSUME NEW n \in 0 .. CalibCycles, n <= i
      PROVE  (\A k \in i - n + 1 .. i : Still(t[k])) <=> (\A k \in i - n + 1 .. i : Still(s[k]))
  <2>1. \A k \in i - n + 1 .. i : t[k] = s[k]
    BY <1>1, <1>2, CyclesAssumption
  <2> QED
    BY <2>1
<1>3. {n \in 0 .. CalibCycles : n <= i /\ \A k \in i - n + 1 .. i : Still(t[k])}
      = {n \in 0 .. CalibCycles : n <= i /\ \A k \in i - n + 1 .. i : Still(s[k])}
  BY <1>2
<1> QED
  BY <1>3 DEF StillFor, t

\* A cycle of the calibration: how long the robot has been still for.
LEMMA RestGrows ==
  ASSUME NEW s \in Seq(Int), NEW rate \in Int, NEW h, RestOf(s, Len(s), h),
         NEW g \in Nat,
         IF Still(rate) THEN g \in 1 .. CalibCycles /\ g <= h + 1 /\ (g = CalibCycles \/ g = h + 1)
                        ELSE g = 0
  PROVE  RestOf(Append(s, rate), Len(s) + 1, g)
<1> DEFINE n == Len(s)
           t == Append(s, rate)
<1>1. n \in Nat /\ t[n + 1] = rate /\ \A k \in 1 .. n : t[k] = s[k]
  OBVIOUS
<1> HIDE DEF n, t
<1>2. /\ h \in 0 .. CalibCycles /\ h <= n /\ \A k \in n - h + 1 .. n : Still(s[k])
      /\ h = CalibCycles \/ h = n \/ ~Still(s[n - h])
  BY DEF RestOf, n
<1>3. CASE ~Still(rate)
  <2>1. g = 0 /\ ~Still(t[n + 1 - g])
    BY <1>1, <1>3
  <2>2. RestOf(t, n + 1, 0)
    BY <1>1, <2>1, CyclesAssumption DEF RestOf
  <2> QED
    BY <2>1, <2>2 DEF n, t
<1>4. CASE Still(rate)
  <2>1. g \in 1 .. CalibCycles /\ g <= h + 1 /\ (g = CalibCycles \/ g = h + 1) /\ g <= n + 1
    BY <1>1, <1>2, <1>4
  <2>2. ASSUME NEW k \in n + 1 - g + 1 .. n + 1 PROVE Still(t[k])
    <3>1. CASE k = n + 1
      BY <1>1, <1>4, <3>1
    <3>2. CASE k # n + 1
      <4>1. k \in n - h + 1 .. n /\ k \in 1 .. n
        BY <1>1, <1>2, <2>1, <3>2, CyclesAssumption
      <4> QED
        BY <1>1, <1>2, <4>1
    <3> QED
      BY <3>1, <3>2
  <2>3. g = CalibCycles \/ g = n + 1 \/ ~Still(t[n + 1 - g])
    <3> SUFFICES ASSUME g # CalibCycles, g # n + 1 PROVE ~Still(t[n + 1 - g])
      OBVIOUS
    <3>1. g = h + 1 /\ h # CalibCycles /\ h # n /\ n - h \in 1 .. n
      BY <1>1, <1>2, <2>1, CyclesAssumption
    <3>2. n + 1 - g = n - h
      BY <1>1, <1>2, <3>1, CyclesAssumption
    <3> QED
      BY <1>1, <1>2, <3>1, <3>2
  <2>4. RestOf(t, n + 1, g)
    BY <1>1, <2>1, <2>2, <2>3 DEF RestOf
  <2> QED
    BY <2>4 DEF n, t
<1> QED
  BY <1>3, <1>4

\* A cycle of the calibration: the ring.
LEMMA RingKept ==
  ASSUME GyroTypeOK, RingOK, NEW rate \in Rates \cup {Zero}, Calibrate(rate)
  PROVE  RingOK' /\ samples' = Append(samples, rate) /\ current' \in Nat
         /\ ring' \in [0 .. CalibCycles - 1 -> Int]
<1> DEFINE n == Len(samples)
           h == NumSamples(current)
           g == NumSamples(current')
<1>1. /\ samples \in Seq(Int) /\ rate \in Int /\ n \in Nat /\ current \in Nat
      /\ samples' = Append(samples, rate) /\ Len(samples') = n + 1
      /\ samples'[n + 1] = rate /\ \A k \in 1 .. n : samples'[k] = samples[k]
  BY CyclesAssumption DEF Calibrate, GyroTypeOK
<1>2. /\ h \in 0 .. CalibCycles /\ h <= n /\ h <= current
      /\ RestOf(samples, n, h)
      /\ \A k \in 1 .. h : ring[Slot(current - k)] = samples[n + 1 - k]
  BY <1>1, KeptSamples DEF RingOK, RestOf
<1>3. IF Still(rate) THEN current' = current + 1 /\ ring' = [ring EXCEPT ![Slot(current)] = rate]
                     ELSE current' = 0 /\ ring' = ring
  BY DEF Calibrate
<1>4. /\ g \in Nat /\ current' \in Nat /\ ring' \in [0 .. CalibCycles - 1 -> Int]
      /\ IF Still(rate) THEN g \in 1 .. CalibCycles /\ g <= h + 1 /\ (g = CalibCycles \/ g = h + 1)
                        ELSE g = 0
  <2>1. CASE Still(rate)
    BY <1>1, <1>3, <2>1, CyclesAssumption DEF NumSamples, Earliest, GyroTypeOK
  <2>2. CASE ~Still(rate)
    BY <1>1, <1>3, <2>2, CyclesAssumption DEF NumSamples, Earliest, GyroTypeOK
  <2> QED
    BY <2>1, <2>2
<1> HIDE DEF h, g, n
<1>5. RestOf(samples', n + 1, g)
  BY <1>1, <1>2, <1>4, RestGrows DEF n
<1>6. ASSUME NEW k \in 1 .. g PROVE ring'[Slot(current' - k)] = samples'[n + 1 + 1 - k]
  <2>1. /\ Still(rate) /\ current' = current + 1 /\ ring' = [ring EXCEPT ![Slot(current)] = rate]
        /\ g \in 1 .. CalibCycles /\ g <= h + 1
    BY <1>3, <1>4
  <2>2. CASE k = 1
    <3>1. current' - k = current /\ n + 1 + 1 - k = n + 1
      BY <1>1, <2>1, <2>2
    <3>2. ring'[Slot(current)] = rate
      BY <1>1, <2>1, PlaceType DEF GyroTypeOK
    <3> QED
      BY <1>1, <3>1, <3>2
  <2>3. CASE k # 1
    <3> DEFINE j == k - 1
    <3>1. /\ j \in 1 .. h /\ j \in 1 .. CalibCycles - 1 /\ current' - k = current - j
          /\ n + 1 + 1 - k = n + 1 - j /\ n + 1 - j \in 1 .. n /\ current - j \in Nat
      BY <1>1, <1>2, <2>1, <2>3, CyclesAssumption
    <3> HIDE DEF j
    <3>2. current - j < current /\ current < current - j + CalibCycles
      BY <1>1, <3>1, CyclesAssumption
    <3>3. Slot(current - j) # Slot(current) /\ Slot(current - j) \in 0 .. CalibCycles - 1
      BY <1>1, <3>1, <3>2, PlacesDistinct, PlaceType
    <3>4. ring'[Slot(current - j)] = ring[Slot(current - j)]
      BY <2>1, <3>3 DEF GyroTypeOK
    <3>5. ring[Slot(current - j)] = samples[n + 1 - j] /\ samples'[n + 1 - j] = samples[n + 1 - j]
      BY <1>1, <1>2, <3>1
    <3> QED
      BY <3>1, <3>4, <3>5
  <2> QED
    BY <2>2, <2>3
<1>7. RingOK'
  BY <1>1, <1>5, <1>6 DEF RingOK, g
<1> QED
  BY <1>1, <1>4, <1>7

\* A cycle of the calibration: the drift.
LEMMA CalibrateInv ==
  ASSUME GyroInv, NEW rate \in Rates \cup {Zero}, Calibrate(rate)
  PROVE  GyroInv'
<1> DEFINE n == Len(samples)
           g == NumSamples(current')
<1>1. /\ RingOK' /\ samples' = Append(samples, rate) /\ current' \in Nat
      /\ ring' \in [0 .. CalibCycles - 1 -> Int] /\ samples \in Seq(Int) /\ rate \in Int
  BY RingKept, CyclesAssumption DEF GyroInv, GyroTypeOK
<1>2. /\ n \in Nat /\ Len(samples') = n + 1 /\ samples' \in Seq(Int)
      /\ \A k \in 1 .. n : samples'[k] = samples[k]
  BY <1>1
<1>3. /\ RestOf(samples', n + 1, g)
      /\ \A k \in 1 .. g : ring'[Slot(current' - k)] = samples'[n + 1 + 1 - k]
  BY <1>1, <1>2 DEF RingOK
<1>4. g \in 0 .. CalibCycles /\ g <= n + 1 /\ g <= current' /\ Earliest(current') = current' - g
  BY <1>1, <1>3, KeptSamples DEF RestOf
<1>5. StillFor(samples', n + 1) = g
  BY <1>2, <1>3, RestIs
<1>6. \A i \in 0 .. n : StillFor(samples', i) = StillFor(samples, i)
                        /\ StillFor(samples, i) \in 0 .. highest
  BY <1>1, RestStays DEF GyroInv, DriftOK
<1>7. highest \in 0 .. CalibCycles
  BY DEF GyroInv, GyroTypeOK
<1>8. /\ IF g >= highest THEN highest' = g /\ drift' = Recorded(ring', current')
                         ELSE highest' = highest /\ drift' = drift
  BY DEF Calibrate, AsManySamples
<1>9. highest > 0 => \E e \in 0 .. n : e >= highest /\ EndsAt(samples, highest, drift, e)
  BY DEF GyroInv, DriftOK
<1> HIDE DEF g, n
<1>10. /\ highest' \in 0 .. CalibCycles
       /\ \A i \in 0 .. n + 1 : StillFor(samples', i) \in 0 .. highest'
  <2>1. highest' \in 0 .. CalibCycles /\ highest' >= highest /\ highest' >= g
    BY <1>4, <1>7, <1>8
  <2>2. ASSUME NEW i \in 0 .. n + 1 PROVE StillFor(samples', i) \in 0 .. highest'
    <3>1. CASE i = n + 1
      BY <1>4, <1>5, <2>1, <3>1, CyclesAssumption
    <3>2. CASE i # n + 1
      <4>1. i \in 0 .. n
        BY <1>2, <3>2
      <4> QED
        BY <1>6, <1>7, <2>1, <4>1, CyclesAssumption
    <3> QED
      BY <3>1, <3>2
  <2> QED
    BY <2>1, <2>2
<1>11. ASSUME highest' > 0
       PROVE  \E e \in 0 .. n + 1 : e >= highest' /\ EndsAt(samples', highest', drift', e)
  <2>1. CASE g >= highest
    <3>1. highest' = g /\ drift' = Recorded(ring', current')
      BY <1>8, <2>1
    <3> DEFINE e == n + 1
    <3>2. e \in Nat /\ e = n + 1 /\ Len(samples') = e /\ StillFor(samples', e) = g
      BY <1>2, <1>5
    <3> HIDE DEF e
    <3>3. ASSUME NEW k \in 1 .. g
          PROVE  ring'[Slot(Earliest(current') + k - 1)] = samples'[e - g + k]
      <4> DEFINE j == g + 1 - k
      <4>1. j \in 1 .. g /\ current' - j = Earliest(current') + k - 1
            /\ n + 1 + 1 - j = e - g + k
        BY <1>1, <1>2, <1>4, <3>2
      <4>2. ring'[Slot(current' - j)] = samples'[n + 1 + 1 - j]
        BY <1>3, <4>1
      <4> QED
        BY <4>1, <4>2
    <3>4. drift' = [k \in 1 .. g |-> samples'[e - g + k]]
      <4>1. drift' = [k \in 1 .. g |-> ring'[Slot(Earliest(current') + k - 1)]]
        BY <3>1 DEF Recorded, g
      <4> QED
        BY <3>3, <4>1
    <3>5. \A i \in e + 1 .. Len(samples') : StillFor(samples', i) < g
      BY <3>2
    <3>6. EndsAt(samples', g, drift', e)
      BY <3>2, <3>4, <3>5 DEF EndsAt
    <3> QED
      BY <1>2, <1>4, <3>1, <3>2, <3>6
  <2>2. CASE ~(g >= highest)
    <3>1. highest' = highest /\ drift' = drift /\ g < highest
      BY <1>4, <1>7, <1>8, <2>2
    <3>2. PICK e \in 0 .. n : e >= highest /\ EndsAt(samples, highest, drift, e)
      BY <1>9, <1>11, <3>1
    <3>3. /\ StillFor(samples, e) = highest
          /\ \A i \in e + 1 .. n : StillFor(samples, i) < highest
          /\ drift = [k \in 1 .. highest |-> samples[e - highest + k]]
      BY <3>2 DEF EndsAt, n
    <3>4. StillFor(samples', e) = highest
      BY <1>6, <3>2, <3>3
    <3>5. ASSUME NEW i \in e + 1 .. n + 1 PROVE StillFor(samples', i) < highest
      <4>1. CASE i = n + 1
        BY <1>5, <3>1, <4>1
      <4>2. CASE i # n + 1
        <5>1. i \in e + 1 .. n /\ i \in 0 .. n
          BY <1>2, <3>2, <4>2
        <5> QED
          BY <1>6, <3>3, <5>1
      <4> QED
        BY <4>1, <4>2
    <3>6. drift = [k \in 1 .. highest |-> samples'[e - highest + k]]
      <4>1. \A k \in 1 .. highest : samples'[e - highest + k] = samples[e - highest + k]
        <5>1. \A k \in 1 .. highest : e - highest + k \in 1 .. n
          BY <1>2, <1>7, <3>2, CyclesAssumption
        <5> QED
          BY <1>2, <5>1
      <4> QED
        BY <3>3, <4>1
    <3>7. EndsAt(samples', highest, drift, e)
      BY <1>2, <3>4, <3>5, <3>6 DEF EndsAt
    <3> QED
      BY <1>2, <3>1, <3>2, <3>7
  <2> QED
    BY <2>1, <2>2
<1>12. DriftOK'
  BY <1>2, <1>10, <1>11 DEF DriftOK
<1>13. GyroTypeOK'
  BY <1>1, <1>2, <1>10 DEF GyroTypeOK
<1> QED
  BY <1>1, <1>12, <1>13 DEF GyroInv

\* The inductive invariant of the gyro's thread, whatever the driver station says and
\* others ask for.
THEOREM GyroInvariance == GyroSpec => []GyroInv
<1>1. GyroInv /\ [GyroNext]_gyroVars => GyroInv'
  <2> SUFFICES ASSUME GyroInv, [GyroNext]_gyroVars PROVE GyroInv'
    OBVIOUS
  <2>1. ASSUME NEW rate \in Rates \cup {Zero}, Calibrate(rate) PROVE GyroInv'
    BY <2>1, CalibrateInv
  <2>2. ASSUME UNCHANGED <<ring, current, highest, drift, samples>> PROVE GyroInv'
    BY <2>2 DEF GyroInv, GyroTypeOK, RingOK, DriftOK
  <2> QED
    BY <2>1, <2>2
    DEF GyroNext, RunInit, EndCalibration, Read, EndReader, Ask, DriverStation, gyroVars
<1> QED
  BY <1>1, GyroInitInv, PTL DEF GyroSpec

\* The samples of the drift are those of the last of the longest rests.
LEMMA LongestFound == GyroInv => DriftFromLongestStill
<1> DEFINE s == samples
           n == Len(s)
           Lengths == {StillFor(s, i) : i \in 0 .. n}
           Ends == {i \in 0 .. n : StillFor(s, i) = highest}
<1> SUFFICES ASSUME GyroInv, LongestStill(s) > 0
             PROVE  drift = SubSeq(s, LastEnd(s) - LongestStill(s) + 1, LastEnd(s))
  BY DEF DriftFromLongestStill
<1>1. /\ n \in Nat /\ s \in Seq(Int) /\ highest \in Nat
      /\ \A i \in 0 .. n : StillFor(s, i) \in 0 .. highest
      /\ highest > 0 => \E e \in 0 .. n : e >= highest /\ EndsAt(s, highest, drift, e)
  BY CyclesAssumption DEF GyroInv, GyroTypeOK, DriftOK
<1>2. LongestStill(s) = Max(Lengths)
  BY DEF LongestStill
<1>3. 0 \in 0 .. n /\ StillFor(s, 0) \in Lengths
  <2>1. 0 \in 0 .. n
    BY <1>1
  <2> QED
    BY <2>1
<1>4. Lengths \in SUBSET Int /\ \A y \in Lengths : highest >= y
  BY <1>1
<1>5. highest > 0
  <2> SUFFICES ASSUME highest = 0 PROVE FALSE
    BY <1>1
  <2>1. StillFor(s, 0) = 0
    BY <1>1, <1>3
  <2>2. 0 \in Lengths
    BY <1>3, <2>1
  <2> HIDE DEF Lengths
  <2>3. Max(Lengths) = 0
    BY <1>4, <2>2, MaxIs
  <2> QED
    BY <1>2, <2>3
<1>6. PICK e \in 0 .. n : e >= highest /\ EndsAt(s, highest, drift, e)
  BY <1>1, <1>5
<1>7. /\ StillFor(s, e) = highest
      /\ \A i \in e + 1 .. n : StillFor(s, i) < highest
      /\ drift = [k \in 1 .. highest |-> s[e - highest + k]]
  BY <1>6 DEF EndsAt
<1>8. LongestStill(s) = highest
  <2>1. highest \in Lengths
    BY <1>7
  <2> HIDE DEF Lengths
  <2>2. Max(Lengths) = highest
    BY <1>4, <2>1, MaxIs
  <2> QED
    BY <1>2, <2>2
<1>9. LastEnd(s) = e
  <2>1. Ends \in SUBSET Int /\ e \in Ends
    BY <1>1, <1>7
  <2>2. ASSUME NEW y \in Ends PROVE e >= y
    <3>1. y \in 0 .. n /\ StillFor(s, y) = highest
      OBVIOUS
    <3>2. y \notin e + 1 .. n
      BY <1>1, <1>7, <3>1
    <3> QED
      BY <1>1, <3>1, <3>2
  <2>3. LastEnd(s) = Max(Ends)
    BY <1>8 DEF LastEnd
  <2> HIDE DEF Ends
  <2> QED
    BY <2>1, <2>2, <2>3, MaxIs
<1> HIDE DEF s, n, Lengths, Ends
<1>10. SubSeq(s, e - highest + 1, e) = [k \in 1 .. highest |-> s[e - highest + k]]
  <2>1. e - highest + 1 \in Int /\ e \in Int /\ e - (e - highest + 1) + 1 = highest
    BY <1>1
  <2>2. SubSeq(s, e - highest + 1, e)
        = [k \in 1 .. highest |-> s[(e - highest + 1) + k - 1]]
    BY <1>1, <2>1
  <2>3. \A k \in 1 .. highest : (e - highest + 1) + k - 1 = e - highest + k
    BY <1>1
  <2> QED
    BY <2>2, <2>3
<1> QED
  BY <1>7, <1>8, <1>9, <1>10

\* The drift is always the mean of the longest rest, the last of those.
THEOREM DriftIsFound == GyroSpec => []DriftFromLongestStill
  BY LongestFound, GyroInvariance, PTL
-----------------------------------------------------------------------------
(* The logs.                                                                *)

\* The lines of a queue's file, on the disk and not.
Lines == [kind : {"header"}] \cup [kind : {"row"}, at : Nat, index : Nat]
InFile(q) == disk[directory][q] \o buffer[q]

LogTypeOK ==
  /\ logs \in Seq(Queues) /\ written \in [Queues -> Nat] /\ next \in [Queues -> Nat]
  /\ headerDue \in [Queues -> BOOLEAN]
  /\ update \in [at : Nat, upTo : Nat, index : Int] /\ update.upTo <= Len(logs)

FilesTypeOK ==
  /\ DOMAIN buffer = Files /\ directory \in DOMAIN disk
  /\ \A q \in Queues : buffer[q] \in Seq(Lines)
  /\ \A d \in DOMAIN disk : \A q \in Queues : disk[d][q] \in Seq(Lines)

\* The directories of earlier starts have smaller numbers than this start.
Numbered == boots \in Nat /\ \A d \in DOMAIN disk : d[2] \in Nat /\ d[2] < boots

\* What is in a file, flushed or not, is a table that the next row goes on.
Continued(lines, due, n) ==
  /\ IsTable(lines)
  /\ due <=> Len(lines) = 0
  /\ Len(lines) > 1 => lines[Len(lines)].at < n

\* The index that was asked for is of the next message to read, or of one before it that
\* has been overwritten since.
IndexOK ==
  update.index # -1 =>
    InQueues /\ next[Log] <= update.index /\ update.index <= Coerced(Log)

LogInv ==
  /\ LogTypeOK /\ FilesTypeOK /\ Numbered /\ IndexOK /\ FilesAreTables
  /\ \A q \in Queues : Continued(InFile(q), headerDue[q], next[q])

\* What is written for a message to a file of n lines.
NewLines(n, p, k) == IF n = 0 THEN <<Header, Row(p, k)>> ELSE <<Row(p, k)>>

\* A row of a message later than the last one's makes a longer table.
LEMMA TableGrows ==
  ASSUME NEW s \in Seq(Lines), IsTable(s), NEW p \in Nat, NEW k \in Nat, k <= p,
         Len(s) > 1 => s[Len(s)].at < k,
         NEW t \in Seq(Lines), t = s \o NewLines(Len(s), p, k)
  PROVE  IsTable(t) /\ Len(t) > 1 /\ t[Len(t)] = Row(p, k)
<1> DEFINE row == Row(p, k)
           n == Len(s)
<1>1. /\ n \in Nat /\ Header \in Lines /\ row \in Lines /\ Header.kind = "header"
      /\ row.kind = "row" /\ row.at = p /\ row.index = k
  BY DEF Lines, Header, Row
<1>2. CASE n = 0
  <2>1. t = <<Header, row>>
    <3>1. s = <<>> /\ <<Header, row>> \in Seq(Lines)
      BY <1>1, <1>2
    <3> QED
      BY <1>2, <3>1, ConcatEmptySeq DEF NewLines
  <2> HIDE DEF row
  <2>2. Len(t) = 2 /\ t[1] = Header /\ t[2] = row
    BY <2>1
  <2> QED
    BY <1>1, <2>2 DEF IsTable, row
<1>3. CASE n # 0
  <2> HIDE DEF row
  <2>1. t = s \o <<row>> /\ <<row>> \in Seq(Lines)
    BY <1>1, <1>3 DEF row, NewLines
  <2>2. /\ Len(t) = n + 1 /\ t[n + 1] = row
        /\ \A i \in 1 .. n : t[i] = s[i]
    BY <1>1, <2>1, ConcatProperties
  <2> HIDE DEF n
  <2>3. ASSUME NEW i \in 1 .. n + 1
        PROVE  /\ (t[i].kind = "header") <=> (i = 1)
               /\ i > 1 => t[i].index <= t[i].at
               /\ i > 2 => t[i].index > t[i - 1].at
    <3>1. CASE i \in 1 .. n
      <4>1. n \in Nat /\ i \in Nat /\ (i > 2 => i - 1 \in 1 .. n)
        BY <1>1, <3>1
      <4>2. \A j \in 1 .. n : t[j] = s[j]
        BY <2>2
      <4>3. /\ (s[i].kind = "header") <=> (i = 1)
            /\ i > 1 => s[i].index <= s[i].at
            /\ i > 2 => s[i].index > s[i - 1].at
        BY <3>1 DEF IsTable, n
      <4>4. t[i] = s[i]
        BY <3>1, <4>2
      <4>5. ASSUME i > 2 PROVE t[i - 1] = s[i - 1]
        BY <4>1, <4>2, <4>5
      <4> QED
        BY <4>3, <4>4, <4>5
    <3>2. CASE i = n + 1
      <4>1. n \in 1 .. n /\ i # 1 /\ i - 1 = n
        BY <1>1, <1>3, <3>2
      <4>2. t[n + 1] = row /\ t[n] = s[n]
        BY <2>2, <4>1
      <4>3. i > 2 => s[n].at < k
        BY <1>1, <3>2 DEF n
      <4>4. k > s[n].at <=> s[n].at < k
        OBVIOUS
      <4> QED
        BY <1>1, <3>2, <4>1, <4>2, <4>3, <4>4
    <3>3. i \in 1 .. n \/ i = n + 1
      BY <1>1
    <3> QED
      BY <3>1, <3>2, <3>3
  <2> QED
    BY <1>1, <1>3, <2>2, <2>3 DEF IsTable, row
<1> QED
  BY <1>2, <1>3

\* Of the numbers of a medium there is a first one that is free, and it is no later than
\* the count of starts.
LEMMA FreshIsNew ==
  ASSUME NEW present, NEW taken, NEW b \in 0 .. Boots,
         \A d \in taken : d[2] \in Nat /\ d[2] < b
  PROVE  /\ FreshDirectory(present, taken) \notin taken
         /\ FreshDirectory(present, taken)[2] \in 0 .. b
<1> DEFINE m == FirstPresent(present)
           Free(n) == <<m, n>> \notin taken
           FreeNumbers == {n \in Nat : Free(n)}
           First(n) == Free(n) /\ \A k \in 0 .. n - 1 : ~Free(k)
<1>1. b \in Nat /\ Boots \in Nat /\ b <= Boots
  BY LoggingAssumption
<1>2. Free(b)
  <2>1. <<m, b>>[2] = b
    OBVIOUS
  <2> QED
    BY <1>1, <2>1
<1>3. \E n \in 0 .. Boots : First(n)
  <2>1. FreeNumbers \in SUBSET Nat /\ b \in FreeNumbers
    BY <1>1, <1>2
  <2>2. PICK n \in FreeNumbers : \A j \in FreeNumbers : n <= j
    <3> HIDE DEF FreeNumbers
    <3> QED BY <2>1, LeastNumber
  <2>3. n \in 0 .. Boots /\ Free(n)
    BY <1>1, <2>1, <2>2
  <2>4. ASSUME NEW k \in 0 .. n - 1 PROVE ~Free(k)
    BY <2>2, <2>3, <2>4
  <2> QED
    BY <2>3, <2>4
<1> DEFINE c == CHOOSE n \in 0 .. Boots : First(n)
<1>4. c \in 0 .. Boots /\ First(c)
  BY <1>3
<1>5. c <= b
  <2> HIDE DEF c, Free
  <2> SUFFICES ASSUME c > b PROVE FALSE
    BY <1>1, <1>4
  <2>1. b \in 0 .. c - 1
    BY <1>1, <1>4
  <2> QED
    BY <1>2, <1>4, <2>1
<1>6. FreshDirectory(present, taken) = <<m, c>>
  BY DEF FreshDirectory
<1> HIDE DEF c
<1> QED
  BY <1>1, <1>4, <1>5, <1>6

\* The first start has empty files.
LEMMA LogInitInv == LoggingInit => LogInv
<1> SUFFICES ASSUME LoggingInit PROVE LogInv
  OBVIOUS
<1>1. /\ logs = <<>> /\ written = [q \in Queues |-> 0] /\ next = [q \in Queues |-> 0]
      /\ headerDue = [q \in Queues |-> TRUE] /\ update = [at |-> 0, upTo |-> 0, index |-> -1]
      /\ buffer = [f \in Files |-> <<>>] /\ disk = [d \in {directory} |-> [f \in Files |-> <<>>]]
      /\ boots = 1 /\ directory = FreshDirectory({}, {})
  BY DEF LoggingInit, Idle, NoLines
<1>2. LogTypeOK
  <2>1. headerDue \in [Queues -> BOOLEAN]
    BY <1>1
  <2>2. update \in [at : Nat, upTo : Nat, index : Int] /\ update.upTo <= Len(logs)
    BY <1>1
  <2> QED
    BY <1>1, <2>1, <2>2 DEF LogTypeOK
<1>3. /\ DOMAIN disk = {directory} /\ DOMAIN buffer = Files
      /\ \A q \in Queues : buffer[q] = <<>> /\ disk[directory][q] = <<>>
  BY <1>1 DEF Files
<1>4. FilesTypeOK
  BY <1>3, EmptySeq DEF FilesTypeOK
<1>5. Numbered
  <2>1. 0 \in 0 .. Boots /\ \A d \in {} : d[2] \in Nat /\ d[2] < 0
    BY LoggingAssumption
  <2>2. directory[2] \in 0 .. 0
    BY <1>1, <2>1, FreshIsNew
  <2> QED
    BY <1>1, <1>3, <2>2 DEF Numbered
<1>6. IndexOK
  BY <1>1 DEF IndexOK
<1>7. \A q \in Queues : Len(InFile(q)) = 0 /\ headerDue[q]
  BY <1>1, <1>3, ConcatEmptySeq, EmptySeq DEF InFile
<1>8. FilesAreTables /\ \A q \in Queues : Continued(InFile(q), headerDue[q], next[q])
  BY <1>3, <1>7 DEF FilesAreTables, IsTable, Continued
<1> QED
  BY <1>2, <1>4, <1>5, <1>6, <1>8 DEF LogInv

\* Where the next message is read from.
LEMMA CoercedType ==
  ASSUME NEW q \in Queues, LogTypeOK
  PROVE  /\ Coerced(q) \in Nat /\ next[q] <= Coerced(q)
         /\ next[q] < written[q] => Coerced(q) < written[q]
<1>1. written[q] \in Nat /\ next[q] \in Nat /\ Size \in Nat \ {0}
  BY LoggingAssumption DEF LogTypeOK
<1> QED
  BY <1>1 DEF Coerced, Oldest

\* A read of the logger: the file goes on.
LEMMA LogMessageKeeps == LogInv /\ LogMessage => LogInv'
<1> SUFFICES ASSUME LogInv, LogMessage PROVE LogInv'
  OBVIOUS
<1>0. LogTypeOK /\ FilesTypeOK /\ Numbered /\ IndexOK /\ FilesAreTables
      /\ \A k \in Queues : Continued(InFile(k), headerDue[k], next[k])
  BY DEF LogInv
<1>1. PICK q \in Queues : q = Log
  BY <1>0 DEF LogMessage, InQueues, Log, LogTypeOK
<1> DEFINE c == Coerced(q)
           row == Row(c, update.index)
           added == IF headerDue[q] THEN <<Header, row>> ELSE <<row>>
           s == disk[directory][q] \o buffer[q]
<1>2. /\ next' = [next EXCEPT ![q] = c + 1] /\ headerDue' = [headerDue EXCEPT ![q] = FALSE]
      /\ buffer' = [buffer EXCEPT ![q] = buffer[q] \o added]
      /\ update' = [update EXCEPT !.index = -1]
      /\ UNCHANGED <<logs, written, directory, disk, boots>>
  BY <1>1 DEF LogMessage, queueVars, diskVars
<1>3. /\ update.index # -1 /\ next[q] < written[q] /\ next[q] <= update.index /\ update.index <= c
  BY <1>0, <1>1 DEF LogMessage, IndexOK
<1>4. c \in Nat /\ c < written[q] /\ next[q] \in Nat /\ update.index \in Nat
  BY <1>0, <1>3, CoercedType DEF LogTypeOK
<1> HIDE DEF c
<1>5. Header \in Lines /\ row \in Lines
  BY <1>4 DEF Lines, Header, Row
<1>6. added \in Seq(Lines)
  <2> HIDE DEF row
  <2>1. <<Header, row>> \in Seq(Lines) /\ <<row>> \in Seq(Lines)
    BY <1>5
  <2> QED
    BY <2>1
<1> HIDE DEF added
<1>7. LogTypeOK'
  <2>1. next' \in [Queues -> Nat] /\ headerDue' \in [Queues -> BOOLEAN]
    BY <1>0, <1>2, <1>4 DEF LogTypeOK
  <2>2. update' = [at |-> update.at, upTo |-> update.upTo, index |-> -1]
    BY <1>0, <1>2 DEF LogTypeOK
  <2>3. update' \in [at : Nat, upTo : Nat, index : Int] /\ update'.upTo = update.upTo
    BY <1>0, <2>2 DEF LogTypeOK
  <2> QED
    BY <1>0, <1>2, <2>1, <2>3 DEF LogTypeOK
<1>8. /\ buffer[q] \in Seq(Lines) /\ disk[directory][q] \in Seq(Lines)
      /\ DOMAIN buffer = Files /\ q \in Files /\ Queues \subseteq Files
  BY <1>0 DEF FilesTypeOK, Files
<1>9. buffer[q] \o added \in Seq(Lines)
  BY <1>6, <1>8, ConcatProperties
<1>10. /\ buffer'[q] = buffer[q] \o added /\ DOMAIN buffer' = Files
       /\ \A k \in Queues : k # q => buffer'[k] = buffer[k]
  BY <1>2, <1>8
<1>11. FilesTypeOK'
  BY <1>0, <1>2, <1>9, <1>10 DEF FilesTypeOK
<1>12. Numbered' /\ FilesAreTables'
  BY <1>0, <1>2 DEF Numbered, FilesAreTables
<1>13. IndexOK'
  <2>1. update'.index = -1
    BY <1>0, <1>2 DEF LogTypeOK
  <2> QED
    BY <2>1 DEF IndexOK
<1>14. Continued(disk[directory][q] \o buffer'[q], headerDue'[q], next'[q])
  <2> DEFINE u == disk[directory][q] \o buffer'[q]
  <2>1. u = s \o added
    <3> DEFINE a == disk[directory][q]
               b == buffer[q]
    <3>1. a \in Seq(Lines) /\ b \in Seq(Lines)
      BY <1>8
    <3>2. u = a \o (b \o added) /\ s = a \o b
      BY <1>10
    <3> HIDE DEF a, b, s, u
    <3> QED
      BY <1>6, <3>1, <3>2, ConcatAssociative
  <2>2. s \in Seq(Lines)
    BY <1>8, ConcatProperties
  <2>3. u \in Seq(Lines)
    BY <1>6, <2>1, <2>2, ConcatProperties
  <2>4. /\ IsTable(s) /\ (headerDue[q] <=> Len(s) = 0)
        /\ Len(s) > 1 => s[Len(s)].at < next[q]
    BY <1>0 DEF Continued, InFile
  <2>5. u = s \o NewLines(Len(s), c, update.index)
    BY <2>1, <2>4 DEF added, NewLines
  <2> HIDE DEF s, u
  <2>6. Len(s) > 1 => s[Len(s)].at < update.index
    <3> SUFFICES ASSUME Len(s) > 1 PROVE s[Len(s)].at < update.index
      OBVIOUS
    <3>1. Len(s) \in Nat /\ Len(s) \in 1 .. Len(s) /\ s[Len(s)] \in Lines
      BY <2>2
    <3>2. s[Len(s)].kind # "header"
      BY <2>4, <3>1 DEF IsTable
    <3>3. s[Len(s)].at \in Nat
      BY <3>1, <3>2 DEF Lines
    <3> QED
      BY <1>3, <1>4, <2>4, <3>3
  <2>7. IsTable(u) /\ Len(u) > 1 /\ u[Len(u)] = Row(c, update.index)
    <3> DEFINE k == update.index
    <3>1. /\ k \in Nat /\ k <= c /\ (Len(s) > 1 => s[Len(s)].at < k)
          /\ u = s \o NewLines(Len(s), c, k)
      BY <1>3, <1>4, <2>5, <2>6
    <3> HIDE DEF k
    <3>2. IsTable(u) /\ Len(u) > 1 /\ u[Len(u)] = Row(c, k)
      BY <1>4, <2>2, <2>3, <2>4, <3>1, TableGrows
    <3> QED
      BY <3>2 DEF k
  <2>8. headerDue'[q] = FALSE /\ next'[q] = c + 1 /\ Row(c, update.index).at = c /\ Len(u) \in Nat
    BY <1>0, <1>2, <2>3 DEF LogTypeOK, Row
  <2>9. Continued(u, headerDue'[q], next'[q])
    BY <1>4, <2>7, <2>8 DEF Continued
  <2> QED
    BY <2>9 DEF u
<1>15. ASSUME NEW k \in Queues, k # q
       PROVE  Continued(disk[directory][k] \o buffer'[k], headerDue'[k], next'[k])
  <2>1. headerDue'[k] = headerDue[k] /\ next'[k] = next[k] /\ buffer'[k] = buffer[k]
    BY <1>0, <1>2, <1>10, <1>15 DEF LogTypeOK
  <2> QED
    BY <1>0, <2>1 DEF InFile
<1>16. ASSUME NEW k \in Queues PROVE Continued(InFile(k), headerDue[k], next[k])'
  BY <1>2, <1>14, <1>15 DEF InFile
<1> QED
  BY <1>7, <1>11, <1>12, <1>13, <1>16 DEF LogInv

\* How many lines are flushed when all of those of some files are.
Whole(kept) == [f \in Files |-> IF f \in kept THEN Len(buffer[f]) ELSE 0]

\* Flushed files have all of their lines or none of those that were not flushed.
LEMMA FlushedLines ==
  ASSUME FilesTypeOK, NEW kept \in SUBSET Files, NEW n, n = Whole(kept)
  PROVE  /\ DOMAIN Flushed(n) = DOMAIN disk
         /\ \A d \in DOMAIN disk : d # directory => Flushed(n)[d] = disk[d]
         /\ \A q \in Queues :
              Flushed(n)[directory][q] = IF q \in kept THEN InFile(q) ELSE disk[directory][q]
<1>1. /\ directory \in DOMAIN disk /\ Queues \subseteq Files
      /\ \A q \in Queues : buffer[q] \in Seq(Lines) /\ disk[directory][q] \in Seq(Lines)
  BY DEF FilesTypeOK, Files
<1> DEFINE now == [f \in Files |-> disk[directory][f] \o SubSeq(buffer[f], 1, n[f])]
<1>2. Flushed(n) = [disk EXCEPT ![directory] = now]
  BY DEF Flushed
<1>3. ASSUME NEW q \in Queues
      PROVE  now[q] = IF q \in kept THEN InFile(q) ELSE disk[directory][q]
  <2>1. now[q] = disk[directory][q] \o SubSeq(buffer[q], 1, n[q])
    BY <1>1
  <2>2. CASE q \in kept
    <3>1. n[q] = Len(buffer[q])
      BY <1>1, <2>2 DEF Whole
    <3>2. SubSeq(buffer[q], 1, n[q]) = buffer[q]
      BY <1>1, <3>1, SubSeqFull
    <3> QED
      BY <2>1, <2>2, <3>2 DEF InFile
  <2>3. CASE q \notin kept
    <3>1. n[q] = 0
      BY <1>1, <2>3 DEF Whole
    <3>2. SubSeq(buffer[q], 1, n[q]) = <<>>
      BY <3>1, SubSeqEmpty
    <3> QED
      BY <1>1, <2>1, <2>3, <3>2, ConcatEmptySeq
  <2> QED
    BY <2>2, <2>3
<1> HIDE DEF now
<1> QED
  BY <1>1, <1>2, <1>3

\* An update that ends has all of its lines on the disk.
LEMMA EndUpdateKeeps == LogInv /\ EndUpdate => LogInv'
<1> SUFFICES ASSUME LogInv, EndUpdate PROVE LogInv'
  OBVIOUS
<1> DEFINE n == [f \in Files |-> Len(buffer[f])]
<1>1. /\ disk' = Flushed(n) /\ buffer' = [f \in Files |-> <<>>]
      /\ update' = [at |-> 0, upTo |-> 0, index |-> -1]
      /\ UNCHANGED <<logs, written, next, headerDue, directory, boots>>
  BY DEF EndUpdate, FlushAllFiles, NoLines, Idle, queueVars
<1>2. n = Whole(Files)
  BY DEF Whole
<1> HIDE DEF n
<1>3. /\ DOMAIN disk' = DOMAIN disk
      /\ \A d \in DOMAIN disk : d # directory => disk'[d] = disk[d]
      /\ \A q \in Queues : disk'[directory][q] = InFile(q) /\ buffer'[q] = <<>>
  <2>1. Files \in SUBSET Files /\ Queues \subseteq Files /\ FilesTypeOK
    BY DEF LogInv, Files
  <2>2. /\ DOMAIN Flushed(n) = DOMAIN disk
        /\ \A d \in DOMAIN disk : d # directory => Flushed(n)[d] = disk[d]
        /\ \A q \in Queues :
             Flushed(n)[directory][q] = IF q \in Files THEN InFile(q) ELSE disk[directory][q]
    BY <1>2, <2>1, FlushedLines
  <2> QED
    BY <1>1, <2>1, <2>2
<1>4. \A q \in Queues : InFile(q) \in Seq(Lines)
  BY ConcatProperties DEF LogInv, FilesTypeOK, InFile
<1>5. LogTypeOK'
  BY <1>1 DEF LogInv, LogTypeOK
<1>6. FilesTypeOK'
  <2>1. FilesTypeOK
    BY DEF LogInv
  <2>2. DOMAIN buffer' = Files /\ \A q \in Queues : buffer'[q] \in Seq(Lines)
    BY <1>1, <1>3, EmptySeq
  <2>3. ASSUME NEW d \in DOMAIN disk, NEW q \in Queues PROVE disk'[d][q] \in Seq(Lines)
    BY <1>3, <1>4, <2>1 DEF FilesTypeOK
  <2> QED
    BY <1>1, <1>3, <2>1, <2>2, <2>3 DEF FilesTypeOK
<1>7. Numbered' /\ IndexOK'
  BY <1>1, <1>3 DEF LogInv, Numbered, IndexOK
<1>8. FilesAreTables'
  <2> SUFFICES ASSUME NEW d \in DOMAIN disk, NEW q \in Queues PROVE IsTable(disk'[d][q])
    BY <1>3 DEF FilesAreTables
  <2>1. CASE d = directory
    BY <1>3, <2>1 DEF LogInv, Continued
  <2>2. CASE d # directory
    BY <1>3, <2>2 DEF LogInv, FilesAreTables
  <2> QED
    BY <2>1, <2>2
<1>9. ASSUME NEW q \in Queues PROVE Continued(InFile(q), headerDue[q], next[q])'
  <2>1. disk'[directory'][q] \o buffer'[q] = InFile(q)
    BY <1>1, <1>3, <1>4, ConcatEmptySeq
  <2> QED
    BY <1>1, <2>1 DEF LogInv, InFile
<1> QED
  BY <1>5, <1>6, <1>7, <1>8, <1>9 DEF LogInv

\* The power is cut and comes back: every old file stays a table, and the new ones are of
\* another directory.
LEMMA PowerCycleKeeps == LogInv /\ PowerCycle => LogInv'
<1> SUFFICES ASSUME LogInv, PowerCycle PROVE LogInv'
  OBVIOUS
<1>1. PICK kept \in SUBSET Files, present \in Sticks :
        /\ directory' = FreshDirectory(present, DOMAIN disk)
        /\ LET flushed == Flushed([f \in Files |-> IF f \in kept THEN Len(buffer[f]) ELSE 0])
           IN  disk' = [d \in DOMAIN disk \cup {directory'} |->
                          IF d \in DOMAIN disk THEN flushed[d] ELSE NoLines]
  BY DEF PowerCycle
<1> DEFINE n == [f \in Files |-> IF f \in kept THEN Len(buffer[f]) ELSE 0]
<1>2. /\ boots < Boots /\ boots' = boots + 1 /\ logs' = <<>> /\ written' = [q \in Queues |-> 0]
      /\ update' = [at |-> 0, upTo |-> 0, index |-> -1]
      /\ next' = [q \in Queues |-> 0] /\ headerDue' = [q \in Queues |-> TRUE]
      /\ buffer' = [f \in Files |-> <<>>]
  BY DEF PowerCycle, Idle, NoLines
<1>3. /\ boots \in 0 .. Boots /\ directory \in DOMAIN disk /\ Queues \subseteq Files
      /\ \A d \in DOMAIN disk : d[2] \in Nat /\ d[2] < boots
  BY <1>2, LoggingAssumption DEF LogInv, Numbered, FilesTypeOK, Files
<1>4. directory' \notin DOMAIN disk /\ directory'[2] \in 0 .. boots
  BY <1>1, <1>3, FreshIsNew
<1>5. /\ DOMAIN disk' = DOMAIN disk \cup {directory'}
      /\ \A d \in DOMAIN disk : disk'[d] = Flushed(n)[d]
      /\ disk'[directory'] = [f \in Files |-> <<>>]
  BY <1>1, <1>4 DEF NoLines
<1> HIDE DEF n
<1>6. /\ \A d \in DOMAIN disk : d # directory => disk'[d] = disk[d]
      /\ \A q \in Queues :
           disk'[directory][q] = IF q \in kept THEN InFile(q) ELSE disk[directory][q]
      /\ \A q \in Queues : disk'[directory'][q] = <<>> /\ buffer'[q] = <<>>
  <2>1. /\ \A d \in DOMAIN disk : d # directory => Flushed(n)[d] = disk[d]
        /\ \A q \in Queues :
             Flushed(n)[directory][q] = IF q \in kept THEN InFile(q) ELSE disk[directory][q]
    <3>1. FilesTypeOK /\ kept \in SUBSET Files
      BY DEF LogInv
    <3>2. n = Whole(kept)
      BY DEF n, Whole
    <3> QED
      BY <3>1, <3>2, FlushedLines
  <2> QED
    BY <1>2, <1>3, <1>5, <2>1
<1>7. \A q \in Queues : InFile(q) \in Seq(Lines)
  BY ConcatProperties DEF LogInv, FilesTypeOK, InFile
<1>8. LogTypeOK'
  <2>1. headerDue' \in [Queues -> BOOLEAN]
    BY <1>2
  <2>2. logs' = <<>> /\ update' \in [at : Nat, upTo : Nat, index : Int] /\ update'.upTo <= Len(logs')
    BY <1>2
  <2> QED
    BY <1>2, <2>1, <2>2 DEF LogTypeOK
<1>9. ASSUME NEW d \in DOMAIN disk', NEW q \in Queues
      PROVE  disk'[d][q] \in Seq(Lines) /\ IsTable(disk'[d][q])
  <2>1. CASE d = directory'
    <3>1. disk'[d][q] = <<>>
      BY <1>6, <2>1
    <3> QED
      BY <3>1, EmptySeq DEF IsTable
  <2>2. CASE d = directory
    BY <1>3, <1>6, <1>7, <2>2 DEF LogInv, FilesTypeOK, FilesAreTables, Continued
  <2>3. CASE d \in DOMAIN disk /\ d # directory
    BY <1>6, <2>3 DEF LogInv, FilesTypeOK, FilesAreTables
  <2> QED
    BY <1>5, <2>1, <2>2, <2>3
<1>10. FilesTypeOK' /\ FilesAreTables'
  BY <1>2, <1>5, <1>6, <1>9 DEF FilesTypeOK, FilesAreTables
<1>11. Numbered'
  <2>1. boots' \in Nat /\ boots' = boots + 1 /\ directory'[2] \in Nat /\ directory'[2] < boots'
    BY <1>2, <1>3, <1>4
  <2> QED
    BY <1>3, <1>5, <2>1 DEF Numbered
<1>12. IndexOK'
  BY <1>2 DEF IndexOK
<1>13. ASSUME NEW q \in Queues PROVE Continued(InFile(q), headerDue[q], next[q])'
  <2>1. disk'[directory'][q] \o buffer'[q] = <<>>
    BY <1>6, ConcatEmptySeq, EmptySeq
  <2>2. headerDue'[q] = TRUE /\ Len(<<>>) = 0
    BY <1>2
  <2>3. Continued(<<>>, headerDue'[q], next'[q])
    BY <2>2 DEF Continued, IsTable
  <2> QED
    BY <2>1, <2>3 DEF InFile
<1> QED
  BY <1>8, <1>10, <1>11, <1>12, <1>13 DEF LogInv

\* The steps that touch no file of a queue.
LEMMA OtherStepsKeep ==
  ASSUME LogInv, UNCHANGED <<next, headerDue, directory, disk, boots>>,
         \A q \in Queues : buffer'[q] = buffer[q], DOMAIN buffer' = Files,
         LogTypeOK', IndexOK'
  PROVE  LogInv'
<1>1. FilesTypeOK' /\ Numbered' /\ FilesAreTables'
  BY DEF LogInv, FilesTypeOK, Numbered, FilesAreTables
<1>2. ASSUME NEW q \in Queues PROVE Continued(InFile(q), headerDue[q], next[q])'
  BY DEF LogInv, InFile
<1> QED
  BY <1>1, <1>2 DEF LogInv

\* Every step keeps the invariant.
LEMMA LogNextInv == LogInv /\ [LoggingNext]_loggingVars => LogInv'
<1> SUFFICES ASSUME LogInv, [LoggingNext]_loggingVars PROVE LogInv'
  OBVIOUS
<1>0. LogTypeOK /\ IndexOK /\ DOMAIN buffer = Files
  BY DEF LogInv, FilesTypeOK
<1>1. ASSUME NEW q \in Queues, Fetch(q) PROVE LogInv'
  <2>1. /\ logs' = Append(logs, q) /\ UNCHANGED <<written, update, next, headerDue, buffer, directory, disk, boots>>
    BY <1>1 DEF Fetch, queueVars, readerVars, diskVars
  <2>2. /\ logs' \in Seq(Queues) /\ Len(logs') = Len(logs) + 1 /\ Len(logs) \in Nat
        /\ \A i \in 1 .. Len(logs) : logs'[i] = logs[i]
    BY <1>0, <2>1 DEF LogTypeOK
  <2>3. LogTypeOK'
    BY <1>0, <2>1, <2>2 DEF LogTypeOK
  <2>4. IndexOK'
    <3> SUFFICES ASSUME update.index # -1 PROVE IndexOK'
      BY <2>1 DEF IndexOK
    <3>1. InQueues /\ update.at \in 1 .. Len(logs)
      BY <1>0, <2>2 DEF IndexOK, InQueues, LogTypeOK
    <3>2. Log' = Log
      BY <2>1, <2>2, <3>1 DEF Log
    <3> QED
      BY <1>0, <2>1, <3>1, <3>2 DEF IndexOK, InQueues, Coerced, Oldest
  <2> QED
    BY <1>0, <2>1, <2>3, <2>4, OtherStepsKeep
<1>2. ASSUME NEW q \in Queues, WriteMessage(q) PROVE LogInv'
  <2>1. /\ written' = [written EXCEPT ![q] = @ + 1]
        /\ UNCHANGED <<logs, update, next, headerDue, buffer, directory, disk, boots>>
    BY <1>2 DEF WriteMessage, readerVars, diskVars
  <2>2. LogTypeOK'
    BY <1>0, <2>1 DEF LogTypeOK
  <2>3. IndexOK'
    <3> SUFFICES ASSUME update.index # -1 PROVE IndexOK'
      BY <2>1 DEF IndexOK
    <3>1. InQueues /\ Log \in Queues /\ next[Log] <= update.index /\ update.index <= Coerced(Log)
          /\ update.index \in Int /\ InQueues' /\ Log' = Log
      BY <1>0, <2>1 DEF IndexOK, InQueues, LogTypeOK, Log
    <3>2. written[Log] \in Nat /\ written'[Log] \in Nat /\ written[Log] <= written'[Log]
      BY <1>0, <2>1, <3>1 DEF LogTypeOK
    <3>3. next[Log] \in Nat /\ Size \in Nat
      BY <1>0, <3>1, LoggingAssumption DEF LogTypeOK
    <3>4. Coerced(Log)' >= Coerced(Log) /\ Coerced(Log)' \in Nat /\ Coerced(Log) \in Nat
      BY <2>1, <3>1, <3>2, <3>3 DEF Coerced, Oldest
    <3> QED
      BY <2>1, <3>1, <3>4 DEF IndexOK
  <2> QED
    BY <1>0, <2>1, <2>2, <2>3, OtherStepsKeep
<1>3. ASSUME LogText PROVE LogInv'
  <2>1. UNCHANGED <<logs, written, update, next, headerDue, buffer, directory, disk, boots>>
    BY <1>3 DEF LogText, readerVars, diskVars
  <2>2. LogTypeOK' /\ IndexOK'
    BY <1>0, <2>1 DEF LogTypeOK, IndexOK, InQueues, Log, Coerced, Oldest
  <2> QED
    BY <1>0, <2>1, <2>2, OtherStepsKeep
<1>4. ASSUME BeginUpdate PROVE LogInv'
  <2>1. /\ update' = [at |-> 1, upTo |-> Len(logs), index |-> -1]
        /\ UNCHANGED <<logs, written, next, headerDue, buffer, directory, disk, boots>>
    BY <1>4 DEF BeginUpdate, queueVars, diskVars
  <2>2. LogTypeOK' /\ IndexOK'
    BY <1>0, <2>1 DEF LogTypeOK, IndexOK
  <2> QED
    BY <1>0, <2>1, <2>2, OtherStepsKeep
<1>5. ASSUME AskIndex PROVE LogInv'
  <2>1. /\ InQueues /\ update' = [update EXCEPT !.index = Coerced(Log)]
        /\ UNCHANGED <<logs, written, next, headerDue, buffer, directory, disk, boots>>
    BY <1>5 DEF AskIndex, GetNextMessageIndex, queueVars, diskVars
  <2>2. Log \in Queues
    BY <1>0, <2>1 DEF InQueues, Log, LogTypeOK
  <2>3. Coerced(Log) \in Nat /\ next[Log] <= Coerced(Log)
    BY <1>0, <2>2, CoercedType
  <2>4. update' = [at |-> update.at, upTo |-> update.upTo, index |-> Coerced(Log)]
    BY <1>0, <2>1 DEF LogTypeOK
  <2>5. /\ update'.index = Coerced(Log) /\ update'.at = update.at /\ update'.upTo = update.upTo
        /\ LogTypeOK'
    <3>1. PICK i \in Nat : i = Coerced(Log)
      BY <2>3
    <3>2. update' = [at |-> update.at, upTo |-> update.upTo, index |-> i]
      BY <2>4, <3>1
    <3>3. /\ update' \in [at : Nat, upTo : Nat, index : Int] /\ update'.index = i
          /\ update'.at = update.at /\ update'.upTo = update.upTo
      BY <1>0, <3>2 DEF LogTypeOK
    <3>4. LogTypeOK'
      BY <1>0, <2>1, <3>3 DEF LogTypeOK
    <3> QED
      BY <3>1, <3>3, <3>4
  <2>6. InQueues' /\ Log' = Log /\ Coerced(Log)' = Coerced(Log)
    BY <2>1, <2>5 DEF InQueues, Log, Coerced, Oldest
  <2>7. IndexOK'
    BY <2>1, <2>3, <2>5, <2>6 DEF IndexOK
  <2> QED
    BY <1>0, <2>1, <2>5, <2>7, OtherStepsKeep
<1>6. ASSUME NothingNew PROVE LogInv'
  <2>1. /\ update' = [update EXCEPT !.at = @ + 1, !.index = -1]
        /\ UNCHANGED <<logs, written, next, headerDue, buffer, directory, disk, boots>>
    BY <1>6 DEF NothingNew, queueVars, diskVars
  <2>2. update' = [at |-> update.at + 1, upTo |-> update.upTo, index |-> -1]
    BY <1>0, <2>1 DEF LogTypeOK
  <2>3. LogTypeOK' /\ IndexOK'
    BY <1>0, <2>1, <2>2 DEF LogTypeOK, IndexOK
  <2> QED
    BY <1>0, <2>1, <2>3, OtherStepsKeep
<1>7. ASSUME LogLine PROVE LogInv'
  <2>1. /\ buffer' = [buffer EXCEPT !["text"] = Append(@, [kind |-> "text", at |-> nextText])]
        /\ UNCHANGED <<logs, written, update, next, headerDue, directory, disk, boots>>
    BY <1>7 DEF LogLine, queueVars, diskVars
  <2>2. LogTypeOK' /\ IndexOK'
    BY <1>0, <2>1 DEF LogTypeOK, IndexOK, InQueues, Log, Coerced, Oldest
  <2>3. DOMAIN buffer' = Files /\ \A q \in Queues : buffer'[q] = buffer[q]
    BY <1>0, <2>1, LoggingAssumption DEF Files
  <2> QED
    BY <1>0, <2>1, <2>2, <2>3, OtherStepsKeep
<1>8. CASE UNCHANGED loggingVars
  <2>1. UNCHANGED <<logs, written, update, next, headerDue, buffer, directory, disk, boots>>
    BY <1>8 DEF loggingVars, queueVars, readerVars, diskVars
  <2>2. LogTypeOK' /\ IndexOK'
    BY <1>0, <2>1 DEF LogTypeOK, IndexOK, InQueues, Log, Coerced, Oldest
  <2> QED
    BY <1>0, <2>1, <2>2, OtherStepsKeep
<1> QED
  BY <1>1, <1>2, <1>3, <1>4, <1>5, <1>6, <1>7, <1>8, LogMessageKeeps, EndUpdateKeeps, PowerCycleKeeps
  DEF LoggingNext, LoggerUpdate

\* The inductive invariant of the logs, through every power cut and every lapped reader.
THEOREM LoggingInvariance == LoggingSpec => []LogInv
  BY LogInitInv, LogNextInv, PTL DEF LoggingSpec

\* Every file that is found on the disk is a table.
THEOREM TablesOnDisk == LoggingSpec => []FilesAreTables
<1>1. LogInv => FilesAreTables
  BY DEF LogInv
<1> QED
  BY <1>1, LoggingInvariance, PTL
=============================================================================
