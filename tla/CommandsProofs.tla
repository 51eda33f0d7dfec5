--------------------------- MODULE CommandsProofs ---------------------------
(***************************************************************************)
(* Proofs about Commands, for every set of threads: the driver is locked   *)
(* out only while a command is on its way, and as long as threads start in *)
(* time, teleop and the commands do not get in each other's way.           *)
(*                                                                         *)
(* The argument: as long as no tick was late there is at most one command, *)
(* the status is true while it runs, and so every tick of teleop has seen  *)
(* it by the time it could send or click anything.                         *)
(***************************************************************************)
EXTENDS Commands, TLAPS

\* The steps of DriveStraight in which the last drivetrain goal can be a velocity.
Moving == {5, 12, 13, 14, 16}

OneAlive == \A t, u \in Threads : Alive(t) /\ Alive(u) => t = u
Announced == \A t \in Threads : Entered(t) => running
Noticed == pc \in {"send", "buttons"} => \A t \in Threads : Alive(t) => seen
Steered == drive.kind = "VELOCITY" =>
  /\ drive.by \in Threads
  /\ command[drive.by] = "DRIVE_STRAIGHT" /\ step[drive.by] \in Moving

InTime == OneAlive /\ Announced /\ Noticed /\ Steered

IInv == TypeOK /\ NoLockout /\ GoalStands /\ (~late => InTime)

-----------------------------------------------------------------------------
\* How long the programs are.
Length(c) == Len(Program[c])

\* How long the programs of TestAuto and DriveStraight are, and which steps they have.
LEMMA Lengths ==
  /\ Length("TEST_AUTO") = 4 /\ Length("DRIVE_STRAIGHT") = 18
  /\ \A c \in CommandNames : Length(c) \in Nat /\ Length(c) >= 2
  /\ \A c \in CommandNames, s \in Nat : 1 <= s /\ s <= Length(c) <=> s \in Calling(c)
<1>1. Length("TEST_AUTO") = 4 /\ Length("DRIVE_STRAIGHT") = 18
  BY DEF Program, Length
<1>2. \A c \in CommandNames : Length(c) \in Nat /\ Length(c) >= 2
  BY <1>1 DEF CommandNames
<1>3. \A c \in CommandNames, s \in Nat : 1 <= s /\ s <= Length(c) <=> s \in Calling(c)
  BY <1>2 DEF Calling, Length
<1> QED BY <1>1, <1>2, <1>3

\* Where a thread is when it makes a call.
LEMMA Places ==
  ASSUME TypeOK, NEW t \in Threads, Alive(t)
  PROVE  /\ command[t] \in CommandNames /\ step[t] \in Nat /\ step[t] >= 1
         /\ step[t] <= Length(command[t])
         /\ Calls(t, "Enter") <=> step[t] = 1
         /\ Calls(t, "Exit") <=> step[t] = Length(command[t])
<1>1. command[t] \in CommandNames /\ step[t] \in 1 .. Length(command[t])
  <2>1. command[t] \in CommandNames /\ step[t] \in Nat /\ step[t] \in Calling(command[t])
    BY DEF TypeOK, Alive
  <2> QED BY <2>1, Lengths
<1>2. CASE command[t] = "TEST_AUTO"
  <2>1. step[t] \in {1, 2, 3, 4}
    BY <1>1, <1>2, Lengths
  <2> QED BY <2>1, <1>2, Lengths DEF Calls, Program, CommandNames, Alive
<1>3. CASE command[t] = "DRIVE_STRAIGHT"
  <2>1. step[t] \in {1, 2, 3, 4, 5, 6, 7, 8, 9, 10, 11, 12, 13, 14, 15, 16, 17, 18}
    BY <1>1, <1>3, Lengths
  <2> QED BY <2>1, <1>3, Lengths DEF Calls, Program, CommandNames, Alive
<1> QED BY <1>1, <1>2, <1>3 DEF CommandNames

\* The calls of DriveStraight around the vision loops.
LEMMA VisionPlaces ==
  ASSUME TypeOK, NEW t \in Threads, Alive(t)
  PROVE  /\ Seeks(t) => command[t] = "DRIVE_STRAIGHT" /\ step[t] \in {5, 12, 16}
         /\ Calls(t, "VisionBackwards") => step[t] = 12
         /\ command[t] = "DRIVE_STRAIGHT" /\ step[t] \in Moving =>
              \/ step[t] \in {5, 16} /\ Calls(t, "Vision")
              \/ step[t] = 12 /\ Calls(t, "VisionBackwards")
              \/ step[t] = 13 /\ Calls(t, "GoTo")
              \/ step[t] = 14 /\ Calls(t, "Path")
<1>1. command[t] \in CommandNames /\ step[t] \in 1 .. Length(command[t])
  <2>1. command[t] \in CommandNames /\ step[t] \in Nat /\ step[t] \in Calling(command[t])
    BY DEF TypeOK, Alive
  <2> QED BY <2>1, Lengths
<1>2. CASE command[t] = "TEST_AUTO"
  <2>1. step[t] \in {1, 2, 3, 4}
    BY <1>1, <1>2, Lengths
  <2> QED BY <2>1, <1>2 DEF Seeks, Calls, Program, Alive
<1>3. CASE command[t] = "DRIVE_STRAIGHT"
  <2>1. step[t] \in {1, 2, 3, 4, 5, 6, 7, 8, 9, 10, 11, 12, 13, 14, 15, 16, 17, 18}
    BY <1>1, <1>3, Lengths
  <2> QED BY <2>1, <1>3 DEF Seeks, Calls, Program, Alive, Moving
<1> QED BY <1>1, <1>2, <1>3 DEF CommandNames

-----------------------------------------------------------------------------
\* What a thread's step does to itself: it begins, ends, stays or goes on.
Begins(t) == step[t] = 1 /\ step'[t] = 2 /\ command'[t] = command[t] /\ running' = TRUE
Ends(t) == command'[t] = "NONE" /\ step'[t] = 1 /\ running' = FALSE
GoesOn(t) == /\ command'[t] = command[t] /\ running' = running
             /\ step[t] > 1 /\ step[t] < Length(command[t])
             /\ step'[t] \in {step[t], step[t] + 1}

\* A thread's step leaves teleop and the other threads alone.
LEMMA ThreadFrame ==
  ASSUME TypeOK, NEW t \in Threads, ThreadStep(t)
  PROVE  /\ Alive(t)
         /\ UNCHANGED <<enabled, active, goal, teleopVars, history>>
         /\ command' \in [Threads -> CommandNames \cup {"NONE"}]
         /\ step' \in [Threads -> Nat] /\ cleared' \in [Threads -> BOOLEAN]
         /\ \A u \in Threads : u # t => command'[u] = command[u] /\ step'[u] = step[u]
         /\ drive' \in [by : Threads \cup {Teleop}, kind : Kinds]
         /\ armBy' \in Threads \cup {Teleop}
<1> USE DEF Calls, Seeks
<1>1. Alive(t)
  BY DEF ThreadStep, Call, Arrive, EnterAutonomous, ExitAutonomous, Check, StartDrivePath,
         ScoreHatch, GoTo, Wait, DriveVision, WaitUntilDrivetrainNear, StopVision,
         EndVisionBackwards
<1>2. UNCHANGED <<enabled, active, goal, teleopVars, history>>
  BY DEF ThreadStep, Call, Arrive, EnterAutonomous, ExitAutonomous, Check, StartDrivePath,
         ScoreHatch, GoTo, Wait, DriveVision, WaitUntilDrivetrainNear, StopVision,
         EndVisionBackwards
<1>3. \/ Return(t)
      \/ UNCHANGED threadVars
      \/ UNCHANGED <<command, step>> /\ cleared' = [cleared EXCEPT ![t] = TRUE]
      \/ /\ command' = [command EXCEPT ![t] = "NONE"] /\ step' = [step EXCEPT ![t] = 1]
         /\ UNCHANGED cleared
  BY DEF ThreadStep, Call, Arrive, EnterAutonomous, ExitAutonomous, Check, StartDrivePath,
         ScoreHatch, GoTo, Wait, DriveVision, WaitUntilDrivetrainNear, StopVision,
         EndVisionBackwards
<1>4. /\ command' \in [Threads -> CommandNames \cup {"NONE"}]
      /\ step' \in [Threads -> Nat] /\ cleared' \in [Threads -> BOOLEAN]
      /\ \A u \in Threads : u # t => command'[u] = command[u] /\ step'[u] = step[u]
  <2>1. /\ command \in [Threads -> CommandNames \cup {"NONE"}]
        /\ step \in [Threads -> Nat] /\ cleared \in [Threads -> BOOLEAN]
    BY DEF TypeOK
  <2>2. CASE Return(t)
    BY <2>1, <2>2 DEF Return
  <2>3. CASE UNCHANGED threadVars
    BY <2>1, <2>3 DEF threadVars
  <2>4. CASE UNCHANGED <<command, step>> /\ cleared' = [cleared EXCEPT ![t] = TRUE]
    BY <2>1, <2>4
  <2>5. CASE /\ command' = [command EXCEPT ![t] = "NONE"] /\ step' = [step EXCEPT ![t] = 1]
             /\ UNCHANGED cleared
    BY <2>1, <2>5
  <2> QED BY <1>3, <2>2, <2>3, <2>4, <2>5
<1>5. armBy' \in {armBy, t} /\ (drive' = drive \/ \E k \in Kinds : Drive(t, k))
  BY DEF ThreadStep, Call, Arrive, EnterAutonomous, ExitAutonomous, Check, StartDrivePath,
         ScoreHatch, GoTo, Wait, DriveVision, WaitUntilDrivetrainNear, StopVision,
         EndVisionBackwards, goalVars, Kinds
<1>6. armBy' \in Threads \cup {Teleop} /\ drive' \in [by : Threads \cup {Teleop}, kind : Kinds]
  BY <1>5 DEF TypeOK, Drive
<1> QED BY <1>1, <1>2, <1>4, <1>6

\* It begins, ends or goes on.
LEMMA ThreadProgress ==
  ASSUME TypeOK, NEW t \in Threads, ThreadStep(t)
  PROVE  Begins(t) \/ Ends(t) \/ GoesOn(t)
<1>1. Alive(t)
  BY ThreadFrame
<1>2. /\ command[t] \in CommandNames /\ step[t] \in Nat /\ step[t] >= 1
      /\ step[t] <= Length(command[t]) /\ Length(command[t]) \in Nat
      /\ Calls(t, "Enter") <=> step[t] = 1
      /\ Calls(t, "Exit") <=> step[t] = Length(command[t])
  BY <1>1, Places, Lengths
<1>3. CASE EnterAutonomous(t)
  BY <1>2, <1>3 DEF EnterAutonomous, Return, Begins, TypeOK
<1>4. CASE ExitAutonomous(t)
  BY <1>4 DEF ExitAutonomous, Ends, TypeOK
<1>5. CASE ~EnterAutonomous(t) /\ ~ExitAutonomous(t)
  <2>1. ~Calls(t, "Enter") /\ ~Calls(t, "Exit") /\ running' = running
    BY <1>5 DEF ThreadStep, Call, Arrive, Check, StartDrivePath, Calls, Seeks,
         ScoreHatch, GoTo, Wait, DriveVision, WaitUntilDrivetrainNear, StopVision,
         EndVisionBackwards
  <2>2. Return(t) \/ UNCHANGED <<command, step>>
    BY <1>5 DEF ThreadStep, Call, Arrive, Check, StartDrivePath, threadVars,
         ScoreHatch, GoTo, Wait, DriveVision, WaitUntilDrivetrainNear, StopVision,
         EndVisionBackwards
  <2> QED BY <1>2, <2>1, <2>2 DEF Return, GoesOn, TypeOK
<1> QED BY <1>3, <1>4, <1>5

\* What it does to the drivetrain: a velocity is sent only in a vision loop, and
\* is replaced by another goal before the thread leaves the steps after it.
LEMMA ThreadSteers ==
  ASSUME TypeOK, NEW t \in Threads, ThreadStep(t)
  PROVE  \/ drive'.kind \in {"PATH", "STOP"}
         \/ /\ drive' = [by |-> t, kind |-> "VELOCITY"] /\ UNCHANGED <<command, step>>
            /\ command[t] = "DRIVE_STRAIGHT" /\ step[t] \in Moving
         \/ /\ drive' = drive
            /\ command[t] = "DRIVE_STRAIGHT" /\ step[t] \in Moving =>
                 command'[t] = "DRIVE_STRAIGHT" /\ step'[t] \in Moving
<1> DEFINE here == command[t] = "DRIVE_STRAIGHT" /\ step[t] \in Moving
<1>1. Alive(t)
  BY ThreadFrame
<1>2. /\ Seeks(t) => here
      /\ Calls(t, "VisionBackwards") => step[t] = 12
      /\ here => \/ step[t] \in {5, 16} /\ Calls(t, "Vision")
                 \/ step[t] = 12 /\ Calls(t, "VisionBackwards")
                 \/ step[t] = 13 /\ Calls(t, "GoTo")
                 \/ step[t] = 14 /\ Calls(t, "Path")
  BY <1>1, VisionPlaces DEF Moving
<1>3. CASE StartDrivePath(t) \/ StopVision(t)
  BY <1>3 DEF StartDrivePath, StopVision, Drive
<1>4. CASE DriveVision(t)
  BY <1>2, <1>4 DEF DriveVision, Drive, threadVars
<1>5. CASE Check(t)
  <2>1. here => IsAutonomous(t)
    BY DEF IsAutonomous
  <2> QED BY <1>5, <2>1 DEF Check, goalVars
<1>6. CASE EndVisionBackwards(t)
  BY <1>2, <1>6 DEF EndVisionBackwards, Return, goalVars, TypeOK, Moving
<1>7. CASE GoTo(t)
  BY <1>2, <1>7 DEF GoTo, Calls, Return, goalVars, TypeOK, Moving
<1>8. CASE EnterAutonomous(t) \/ ExitAutonomous(t) \/ ScoreHatch(t) \/ Wait(t)
           \/ WaitUntilDrivetrainNear(t)
  <2>1. ~here /\ drive' = drive
    BY <1>2, <1>8 DEF EnterAutonomous, ExitAutonomous, ScoreHatch, Wait,
                      WaitUntilDrivetrainNear, Calls, goalVars
  <2> QED BY <2>1
<1> QED BY <1>3, <1>4, <1>5, <1>6, <1>7, <1>8 DEF ThreadStep, Call, Arrive

-----------------------------------------------------------------------------
\* Nothing runs at the start.
LEMMA InitIInv == Init => IInv
<1> SUFFICES ASSUME Init PROVE IInv
  OBVIOUS
<1>1. \A t \in Threads : ~Alive(t) /\ ~Entered(t)
  BY DEF Init, Alive, Entered
<1>2. TypeOK
  BY <1>1 DEF Init, TypeOK, Kinds
<1>3. NoLockout /\ GoalStands
  BY <1>1 DEF Init, NoLockout, GoalStands
<1>4. InTime
  BY <1>1 DEF Init, InTime, OneAlive, Announced, Noticed, Steered
<1> QED BY <1>2, <1>3, <1>4 DEF IInv

\* A call of a command's thread keeps the invariant.
LEMMA ThreadIInv ==
  ASSUME IInv, NEW t \in Threads, ThreadStep(t)
  PROVE  IInv'
<1> USE DEF IInv
<1>1. /\ Alive(t)
      /\ UNCHANGED <<enabled, active, goal, teleopVars, history>>
      /\ command' \in [Threads -> CommandNames \cup {"NONE"}]
      /\ step' \in [Threads -> Nat] /\ cleared' \in [Threads -> BOOLEAN]
      /\ \A u \in Threads : u # t => command'[u] = command[u] /\ step'[u] = step[u]
      /\ drive' \in [by : Threads \cup {Teleop}, kind : Kinds]
      /\ armBy' \in Threads \cup {Teleop}
  BY ThreadFrame
<1>2. Begins(t) \/ Ends(t) \/ GoesOn(t)
  BY ThreadProgress
<1>3. /\ command[t] \in CommandNames /\ step[t] \in Nat /\ step[t] >= 1
      /\ step[t] <= Length(command[t]) /\ Length(command[t]) \in Nat
      /\ Length(command[t]) >= 2
  BY <1>1, Places, Lengths
<1>4. \A u \in Threads : u # t => (Alive(u)' <=> Alive(u)) /\ (Entered(u)' <=> Entered(u))
  BY <1>1 DEF Alive, Entered
<1>5. /\ Alive(t)' => command'[t] = command[t]
      /\ Entered(t)' => running' \/ (Entered(t) /\ running' = running)
      /\ running' \in BOOLEAN
      /\ IF Alive(t)' THEN step'[t] \in Calling(command'[t]) ELSE step'[t] = 1
  <2>1. CASE Begins(t)
    <3>1. 2 \in Calling(command[t])
      BY <1>3, Lengths
    <3>2. command'[t] = command[t] /\ step'[t] = 2 /\ running' = TRUE
      BY <2>1 DEF Begins
    <3>3. IF Alive(t)' THEN step'[t] \in Calling(command'[t]) ELSE step'[t] = 1
      BY <1>1, <3>1, <3>2 DEF Alive
    <3>4. command'[t] = command[t]
      BY <3>2
    <3>5. running' /\ running' \in BOOLEAN
      BY <3>2
    <3> QED BY <3>3, <3>4, <3>5
  <2>2. CASE Ends(t)
    BY <2>2 DEF Ends, Alive, Entered
  <2>3. CASE GoesOn(t)
    <3>1. step'[t] \in Nat /\ 1 <= step'[t] /\ step'[t] <= Length(command[t])
      BY <1>3, <2>3 DEF GoesOn, Length
    <3>2. step'[t] \in Calling(command[t])
      BY <1>3, <3>1, Lengths
    <3>3. Entered(t) /\ running' = running
      BY <1>1, <2>3 DEF GoesOn, Entered
    <3>4. command'[t] = command[t] /\ running' \in BOOLEAN
      BY <2>3, <3>3 DEF GoesOn, TypeOK
    <3>5. IF Alive(t)' THEN step'[t] \in Calling(command'[t]) ELSE step'[t] = 1
      BY <1>1, <3>2, <3>4 DEF Alive
    <3> QED BY <3>3, <3>4, <3>5
  <2> QED BY <1>2, <2>1, <2>2, <2>3
<1>6. TypeOK'
  <2>1. \A u \in Threads : IF Alive(u)' THEN step'[u] \in Calling(command'[u]) ELSE step'[u] = 1
    BY <1>1, <1>4, <1>5 DEF TypeOK
  <2> QED BY <1>1, <1>5, <2>1 DEF TypeOK, teleopVars, history
<1>7. NoLockout'
  <2>1. CASE Ends(t)
    BY <2>1 DEF Ends, NoLockout
  <2>2. CASE Begins(t)
    <3>1. Entered(t)'
      BY <1>1, <2>2 DEF Begins, Alive, Entered
    <3> QED BY <3>1 DEF NoLockout
  <2>3. CASE GoesOn(t)
    <3>1. Entered(t)'
      <4>1. step'[t] > 1
        BY <1>3, <2>3 DEF GoesOn
      <4> QED BY <1>1, <2>3, <4>1 DEF GoesOn, Alive, Entered
    <3> QED BY <3>1 DEF NoLockout
  <2> QED BY <1>2, <2>1, <2>2, <2>3
<1>8. GoalStands'
  <2>1. \A u \in Threads : Alive(u)' => Alive(u) /\ command'[u] = command[u]
    BY <1>1, <1>4, <1>5
  <2> QED BY <1>1, <2>1 DEF GoalStands, history
<1>9. ~late' => InTime'
  <2> SUFFICES ASSUME ~late' PROVE InTime'
    OBVIOUS
  <2>1. InTime /\ \A u \in Threads : Alive(u) => u = t
    BY <1>1 DEF InTime, OneAlive, history
  <2>2. \A u \in Threads : Alive(u)' => u = t
    BY <1>4, <2>1
  <2>3. OneAlive'
    BY <2>2 DEF OneAlive
  <2>4. Announced'
    BY <1>5, <2>1, <2>2 DEF Announced, InTime, Entered
  <2>5. Noticed'
    BY <1>1, <2>1, <2>2 DEF Noticed, InTime, teleopVars
  <2>6. Steered'
    <3>1. CASE drive'.kind \in {"PATH", "STOP"}
      BY <3>1 DEF Steered
    <3>2. CASE /\ drive' = [by |-> t, kind |-> "VELOCITY"] /\ UNCHANGED <<command, step>>
               /\ command[t] = "DRIVE_STRAIGHT" /\ step[t] \in Moving
      BY <3>2 DEF Steered, Moving
    <3>3. CASE /\ drive' = drive
               /\ command[t] = "DRIVE_STRAIGHT" /\ step[t] \in Moving =>
                    command'[t] = "DRIVE_STRAIGHT" /\ step'[t] \in Moving
      <4>1. drive.kind = "VELOCITY" => drive.by \in Threads /\ Alive(drive.by)
        BY <2>1 DEF InTime, Steered, Alive
      <4> QED BY <2>1, <3>3, <4>1 DEF InTime, Steered, Moving
    <3> QED BY <3>1, <3>2, <3>3, ThreadSteers
  <2> QED BY <2>3, <2>4, <2>5, <2>6 DEF InTime
<1> QED BY <1>6, <1>7, <1>8, <1>9

\* A quarter of teleop's Update keeps it.
LEMMA TeleopIInv == ASSUME IInv, TeleopStep PROVE IInv'
<1> USE DEF IInv
<1>1. CASE ReadStatus
  <2>1. UNCHANGED <<goal, running, goalVars, threadVars, exited>> /\ (~late' => ~late)
    BY <1>1 DEF ReadStatus, TypeOK
  <2>2. TypeOK'
    BY <1>1 DEF ReadStatus, TypeOK, goalVars, threadVars, Alive
  <2>3. NoLockout' /\ GoalStands' /\ (~late' => (OneAlive /\ Announced /\ Steered)')
    BY <2>1 DEF NoLockout, GoalStands, InTime, OneAlive, Announced, Steered, Alive, Entered,
                goalVars, threadVars
  <2>4. ~late' => Noticed'
    BY <1>1, <2>1 DEF ReadStatus, InTime, Announced, Noticed, Alive, Entered, threadVars
  <2> QED BY <2>2, <2>3, <2>4 DEF InTime
<1>2. CASE SendGoals
  <2>1. UNCHANGED <<goal, running, seen, threadVars, history>> /\ pc = "send"
    BY <1>2 DEF SendGoals
  <2>2. drive' = drive \/ drive' = [by |-> Teleop, kind |-> "TELEOP"]
    BY <1>2 DEF SendGoals, goalVars
  <2>3. TypeOK'
    BY <1>2 DEF SendGoals, TypeOK, goalVars, threadVars, history, Kinds, Alive
  <2>4. NoLockout' /\ GoalStands' /\ (~late' => (OneAlive /\ Announced /\ Noticed)')
    BY <2>1 DEF NoLockout, GoalStands, InTime, OneAlive, Announced, Noticed, Alive, Entered,
                threadVars, history
  <2>5. ~late' => Steered'
    BY <2>1, <2>2 DEF InTime, Steered, threadVars, history
  <2> QED BY <2>3, <2>4, <2>5 DEF InTime
<1>3. CASE Buttons
  <2>1. UNCHANGED <<running, goalVars, seen, late>> /\ pc = "buttons" /\ pc' = "report"
    BY <1>3 DEF Buttons
  <2>2. CASE ClickExit \/ NoClick
    <3>0. UNCHANGED threadVars
      BY <2>2 DEF ClickExit, NoClick
    <3>1. \/ goal' = NoCommand /\ exited' = TRUE
          \/ goal' = goal /\ exited' = exited
          \/ goal' = NoCommand /\ exited' = exited /\ ~seen
      BY <2>2 DEF ClickExit, NoClick
    <3>2. TypeOK'
      BY <1>3, <2>1, <3>0, <3>1 DEF Buttons, TypeOK, goalVars, threadVars, Alive
    <3>3. NoLockout' /\ (~late' => (OneAlive /\ Announced /\ Noticed /\ Steered)')
      BY <2>1, <3>0 DEF NoLockout, InTime, OneAlive, Announced, Noticed, Steered, Alive,
                        Entered, goalVars, threadVars
    <3>4. GoalStands'
      <4>1. CASE exited'
        BY <4>1 DEF GoalStands
      <4>2. CASE goal' = goal /\ exited' = exited
        BY <2>1, <3>0, <4>2 DEF GoalStands, Alive, threadVars
      <4>3. CASE ~seen
        <5>1. ~late => \A u \in Threads : ~Alive(u)
          BY <2>1, <4>3 DEF InTime, Noticed
        <5> QED BY <2>1, <3>0, <5>1 DEF GoalStands, Alive, threadVars
      <4> QED BY <3>1, <4>1, <4>2, <4>3
    <3> QED BY <3>2, <3>3, <3>4 DEF InTime
  <2>3. ASSUME NEW c \in CommandNames, ClickCommand(c) PROVE IInv'
    <3>1. PICK t \in Threads : /\ ~Alive(t)
                               /\ command' = [command EXCEPT ![t] = c]
                               /\ step' = [step EXCEPT ![t] = 1]
                               /\ cleared' = [cleared EXCEPT ![t] = FALSE]
      BY <2>3 DEF ClickCommand
    <3>2. ~seen /\ goal' = Request(c) /\ exited' = FALSE
      BY <2>3 DEF ClickCommand
    <3>3. /\ command'[t] = c /\ step'[t] = 1 /\ c # "NONE"
          /\ \A u \in Threads : u # t => command'[u] = command[u] /\ step'[u] = step[u]
          /\ \A u \in Threads : Entered(u)' <=> Entered(u)
      BY <3>1 DEF TypeOK, CommandNames, Alive, Entered
    <3>4. \A u \in Threads : IF Alive(u)' THEN step'[u] \in Calling(command'[u]) ELSE step'[u] = 1
      <4>1. 1 \in Calling(c)
        BY Lengths
      <4> QED BY <3>3, <4>1 DEF TypeOK, Alive
    <3>5. TypeOK'
      <4>1. /\ command' \in [Threads -> CommandNames \cup {"NONE"}]
            /\ step' \in [Threads -> Nat] /\ cleared' \in [Threads -> BOOLEAN]
        BY <3>1 DEF TypeOK
      <4> QED BY <1>3, <2>1, <3>2, <3>4, <4>1 DEF Buttons, TypeOK, goalVars
    <3>6. NoLockout'
      BY <2>1, <3>3 DEF NoLockout
    <3>7. ~late => \A u \in Threads : ~Alive(u)
      BY <2>1, <3>2 DEF InTime, Noticed
    <3>8. ~late => \A u \in Threads : Alive(u)' => u = t
      BY <3>3, <3>7 DEF Alive
    <3>9. GoalStands'
      BY <2>1, <3>2, <3>3, <3>8 DEF GoalStands
    <3>10. ~late' => InTime'
      <4> SUFFICES ASSUME ~late' PROVE InTime'
        OBVIOUS
      <4>1. OneAlive'
        BY <2>1, <3>8 DEF OneAlive
      <4>2. Announced'
        BY <2>1, <3>3, <3>7 DEF Announced, Entered
      <4>3. Noticed'
        BY <2>1 DEF Noticed
      <4>4. Steered'
        BY <2>1, <3>7 DEF InTime, Steered, Alive, goalVars
      <4> QED BY <4>1, <4>2, <4>3, <4>4 DEF InTime
    <3> QED BY <3>5, <3>6, <3>9, <3>10
  <2> QED BY <1>3, <2>2, <2>3 DEF Buttons, ClickExit, NoClick
<1>4. CASE ReportStation
  <2>1. UNCHANGED <<goal, running, goalVars, seen, threadVars, history>> /\ pc' = "read"
    BY <1>4 DEF ReportStation
  <2>2. TypeOK'
    BY <1>4 DEF ReportStation, TypeOK, goalVars, threadVars, history, Alive
  <2> QED BY <2>1, <2>2 DEF NoLockout, GoalStands, InTime, OneAlive, Announced, Noticed,
                Steered, Alive, Entered, goalVars, threadVars, history
<1> QED BY <1>1, <1>2, <1>3, <1>4 DEF TeleopStep

\* Every step keeps it.
LEMMA NextIInv == IInv /\ [Next]_vars => IInv'
<1> SUFFICES ASSUME IInv, [Next]_vars PROVE IInv'
  OBVIOUS
<1>1. CASE TeleopStep
  BY <1>1, TeleopIInv
<1>2. CASE ToggleEnabled \/ UNCHANGED vars
  <2>1. UNCHANGED <<active, goal, running, goalVars, teleopVars, threadVars, history>>
        /\ enabled' \in BOOLEAN
    BY <1>2 DEF ToggleEnabled, vars, IInv, TypeOK
  <2>2. TypeOK'
    BY <2>1 DEF IInv, TypeOK, goalVars, teleopVars, threadVars, history, Alive
  <2> QED BY <2>1, <2>2 DEF IInv, NoLockout, GoalStands, InTime, OneAlive, Announced, Noticed,
                Steered, Alive, Entered, goalVars, teleopVars, threadVars, history
<1>3. CASE \E t \in Threads : ThreadStep(t)
  BY <1>3, ThreadIInv
<1> QED BY <1>1, <1>2, <1>3 DEF Next

\* The inductive invariant, for every set of threads.
THEOREM Invariance == Spec => []IInv
<1> QED BY InitIInv, NextIInv, PTL DEF Spec

\* Type correctness; in particular no thread runs past the end of its program.
THEOREM TypeCorrect == Spec => []TypeOK
<1>1. IInv => TypeOK
  BY DEF IInv
<1> QED BY <1>1, Invariance, PTL

\* The driver is locked out only while some command is on its way.
THEOREM LockoutEnds == Spec => []NoLockout
<1>1. IInv => NoLockout
  BY DEF IInv
<1> QED BY <1>1, Invariance, PTL

\* The goal that started a command stands until it ends or the driver takes it
\* back.
THEOREM GoalKept == Spec => []GoalStands
<1>1. IInv => GoalStands
  BY DEF IInv
<1> QED BY <1>1, Invariance, PTL

\* No command ends with the drivetrain left at a velocity.
THEOREM Standstill == Spec => []NoRunaway
<1>1. IInv => NoRunaway
  BY DEF IInv, InTime, Steered, NoRunaway, Alive
<1> QED BY <1>1, Invariance, PTL

\* Teleop does not take anything away from a command that is still running.
THEOREM Yielding == Spec => TeleopYields
<1> DEFINE Keeps == \A t \in Threads : ~late /\ Entered(t) =>
       /\ drive.by = t => drive'.by # Teleop
       /\ armBy = t => armBy' # Teleop
<1>1. IInv /\ [Next]_vars => [Keeps]_vars
  <2> SUFFICES ASSUME IInv, Next, NEW t \in Threads, ~late, Entered(t)
               PROVE  /\ drive.by = t => drive'.by # Teleop
                      /\ armBy = t => armBy' # Teleop
    BY DEF vars
  <2>1. t # Teleop
    BY ThreadsAssumption
  <2>2. CASE UNCHANGED goalVars
    BY <2>1, <2>2 DEF goalVars
  <2>3. CASE SendGoals
    <3>1. seen
      BY <2>3 DEF SendGoals, IInv, InTime, Noticed, Entered
    <3> QED BY <2>1, <2>3, <3>1 DEF SendGoals, goalVars
  <2>4. CASE ReadStatus \/ Buttons \/ ReportStation \/ ToggleEnabled
    BY <2>2, <2>4 DEF ReadStatus, Buttons, ReportStation, ToggleEnabled
  <2>5. CASE \E u \in Threads : ThreadStep(u)
    <3>1. PICK u \in Threads : ThreadStep(u)
      BY <2>5
    <3>2. armBy' \in {armBy, u} /\ (drive' = drive \/ drive'.by = u)
      BY <3>1 DEF ThreadStep, Call, Arrive, EnterAutonomous, ExitAutonomous, Check,
         StartDrivePath, ScoreHatch, GoTo, Wait, DriveVision, WaitUntilDrivetrainNear,
         StopVision, EndVisionBackwards, goalVars, Drive
    <3> QED BY <2>1, <3>2, ThreadsAssumption
  <2> QED BY <2>3, <2>4, <2>5 DEF Next, TeleopStep
<1> QED BY <1>1, Invariance, PTL DEF Spec, TeleopYields
=============================================================================
