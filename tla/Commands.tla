------------------------------ MODULE Commands ------------------------------
(***************************************************************************)
(* c2019/teleop and c2019/commands: who drives the robot.                  *)
(*                                                                         *)
(* Teleop's loop reads the driver's controls every 20 ms and sends goals   *)
(* to the drivetrain and the superstructure, unless a command runs.  A     *)
(* click starts a command, which is a detached thread of its own.  The two *)
(* talk through two queues of which everybody reads the last message: the  *)
(* auto goal (what should run, by teleop) and the auto status (whether     *)
(* something runs, by the commands).                                       *)
(*                                                                         *)
(* Teleop's Update is four steps, with the other threads in between, and   *)
(* IsAutonomous and the write it guards are two (but for the vision loops, *)
(* which only DriveStraight has: its IsAutonomous cannot change).          *)
(* Geometry is left out: SetFieldPosition touches the thread's own         *)
(* transform only.                                                         *)
(***************************************************************************)
EXTENDS Integers, Sequences

CONSTANT Threads  \* command threads that can be alive at the same time (a bound)

Teleop == "TELEOP"
ASSUME ThreadsAssumption == Teleop \notin Threads

\* The commands, as the calls they make in turn.
Program == [
  TEST_AUTO |-> <<"Enter", "Path", "Wait", "Exit">>,
  DRIVE_STRAIGHT |->
    <<"Enter", "GoTo", "Path", "Near", "Vision", "Score", "Wait", "Path", "Wait", "GoTo",
      "Near", "VisionBackwards", "GoTo", "Path", "Near", "Vision", "Score", "Exit">>]

CommandNames == {"TEST_AUTO", "DRIVE_STRAIGHT"}

VARIABLES
  enabled,      \* RobotController::IsSysActive
  active,       \* the last driver station message: is_sys_active
  goal,         \* the last auto goal: [run, command]
  running,      \* the last auto status: running_command
  drive,        \* the last drivetrain goal: [by, kind]
  armBy,        \* who sent the last superstructure goal
  pc,           \* teleop: "read" | "send" | "buttons" | "report"
  seen,         \* teleop: running, as read in this tick
  command,      \* per thread: what it runs, "NONE" if it is not alive
  step,         \* per thread: the call it is in, an index into its program
  cleared,      \* per thread: IsAutonomous has returned true, the write is to come
  late,         \* history: a tick has read the status with a thread not entered yet
  exited        \* history: exit_auto was clicked after the last command's start

teleopVars == <<pc, seen>>
threadVars == <<command, step, cleared>>
goalVars == <<drive, armBy>>
history == <<late, exited>>
vars == <<enabled, active, goal, running, goalVars, teleopVars, threadVars, history>>

NoCommand == [run |-> FALSE, command |-> "NONE"]
Request(c) == [run |-> TRUE, command |-> c]

Init ==
  /\ enabled \in BOOLEAN /\ active = FALSE
  /\ goal = NoCommand /\ running = FALSE
  /\ drive = [by |-> Teleop, kind |-> "NONE"] /\ armBy = Teleop
  /\ pc = "read" /\ seen = FALSE
  /\ command = [t \in Threads |-> "NONE"]
  /\ step = [t \in Threads |-> 1]
  /\ cleared = [t \in Threads |-> FALSE]
  /\ late = FALSE /\ exited = FALSE

Alive(t) == command[t] # "NONE"
Entered(t) == Alive(t) /\ step[t] > 1

-----------------------------------------------------------------------------
(* Teleop: one Update.                                                      *)

\* Mutant: a status that was once read stays.
ReadStatusSticky ==
  /\ pc = "read" /\ pc' = "send" /\ seen' = (seen \/ running)
  /\ late' = (late \/ \E t \in Threads : Alive(t) /\ ~Entered(t))
  /\ UNCHANGED <<enabled, active, goal, running, goalVars, threadVars, exited>>

ReadStatus ==
  /\ pc = "read" /\ pc' = "send"
  /\ seen' = running
  /\ late' = (late \/ \E t \in Threads : Alive(t) /\ ~Entered(t))
  /\ UNCHANGED <<enabled, active, goal, running, goalVars, threadVars, exited>>

\* Mutant: the driver's goals are sent whether a command runs or not.
SendGoalsAlways ==
  /\ pc = "send" /\ pc' = "buttons"
  /\ IF enabled THEN drive' = [by |-> Teleop, kind |-> "TELEOP"] /\ armBy' = Teleop
                ELSE UNCHANGED goalVars
  /\ UNCHANGED <<enabled, active, goal, running, seen, threadVars, history>>

SendGoals ==
  /\ pc = "send" /\ pc' = "buttons"
  /\ IF enabled /\ ~seen THEN drive' = [by |-> Teleop, kind |-> "TELEOP"] /\ armBy' = Teleop
                         ELSE UNCHANGED goalVars
  /\ UNCHANGED <<enabled, active, goal, running, seen, threadVars, history>>

ClickExit ==
  /\ goal' = NoCommand /\ exited' = TRUE
  /\ UNCHANGED threadVars

\* The goal is written, then the thread is spawned.
ClickCommand(c) ==
  /\ ~seen
  /\ goal' = Request(c) /\ exited' = FALSE
  /\ \E t \in Threads :
       /\ ~Alive(t)
       /\ command' = [command EXCEPT ![t] = c]
       /\ step' = [step EXCEPT ![t] = 1]
       /\ cleared' = [cleared EXCEPT ![t] = FALSE]

\* Mutant: the goal is taken back although a command runs.
NoClickAlways == goal' = NoCommand /\ UNCHANGED <<exited, threadVars>>

\* Without a click the goal is taken back, in every tick in which nothing runs.
NoClick ==
  /\ goal' = IF seen THEN goal ELSE NoCommand
  /\ UNCHANGED <<exited, threadVars>>

Buttons ==
  /\ pc = "buttons" /\ pc' = "report"
  /\ ClickExit \/ NoClick \/ \E c \in CommandNames : ClickCommand(c)
  /\ UNCHANGED <<enabled, active, running, goalVars, seen, late>>

ReportStation ==
  /\ pc = "report" /\ pc' = "read"
  /\ active' = enabled
  /\ UNCHANGED <<enabled, goal, running, goalVars, seen, threadVars, history>>

TeleopStep == ReadStatus \/ SendGoals \/ Buttons \/ ReportStation

\* The field management, or the driver, enables or disables the robot.
ToggleEnabled ==
  /\ enabled' = ~enabled
  /\ UNCHANGED <<active, goal, running, goalVars, teleopVars, threadVars, history>>

-----------------------------------------------------------------------------
(* A command's thread.                                                      *)

Calls(t, call) == Alive(t) /\ Program[command[t]][step[t]] = call

\* TestAuto looks at the driver station and at the goal; DriveStraight returns
\* true before it looks at anything.
IsAutonomous(t) ==
  \/ command[t] = "DRIVE_STRAIGHT"
  \/ command[t] = "TEST_AUTO" /\ active /\ goal = Request("TEST_AUTO")

Return(t) ==
  /\ step' = [step EXCEPT ![t] = @ + 1]
  /\ cleared' = [cleared EXCEPT ![t] = FALSE]
  /\ UNCHANGED command

Drive(t, kind) == drive' = [by |-> t, kind |-> kind]

EnterAutonomous(t) ==
  /\ Calls(t, "Enter")
  /\ running' = TRUE
  /\ Return(t)
  /\ UNCHANGED <<enabled, active, goal, goalVars, teleopVars, history>>

\* Mutant: the status is left as it is.
ExitSilently(t) ==
  /\ Calls(t, "Exit")
  /\ command' = [command EXCEPT ![t] = "NONE"]
  /\ step' = [step EXCEPT ![t] = 1]
  /\ UNCHANGED <<enabled, active, goal, running, goalVars, teleopVars, cleared, history>>

ExitAutonomous(t) ==
  /\ Calls(t, "Exit")
  /\ running' = FALSE
  /\ command' = [command EXCEPT ![t] = "NONE"]
  /\ step' = [step EXCEPT ![t] = 1]
  /\ UNCHANGED <<enabled, active, goal, goalVars, teleopVars, cleared, history>>

\* IsAutonomous, in a call that does nothing if it returns false.
Check(t) ==
  /\ Calls(t, "Path") \/ Calls(t, "Score")
  /\ ~cleared[t]
  /\ IF IsAutonomous(t)
     THEN cleared' = [cleared EXCEPT ![t] = TRUE] /\ UNCHANGED <<command, step>>
     ELSE Return(t)
  /\ UNCHANGED <<enabled, active, goal, running, goalVars, teleopVars, history>>

StartDrivePath(t) ==
  /\ Calls(t, "Path") /\ cleared[t]
  /\ Drive(t, "PATH")
  /\ Return(t)
  /\ UNCHANGED <<enabled, active, goal, running, armBy, teleopVars, history>>

\* ScoreHatch sends the same goal num_ticks times; once is enough here.
ScoreHatch(t) ==
  /\ Calls(t, "Score") /\ cleared[t]
  /\ armBy' = t
  /\ Return(t)
  /\ UNCHANGED <<enabled, active, goal, running, drive, teleopVars, history>>

GoTo(t) ==
  /\ Calls(t, "GoTo")
  /\ armBy' = t
  /\ Return(t)
  /\ UNCHANGED <<enabled, active, goal, running, drive, teleopVars, history>>

\* Wait ends after its cycles, or when IsAutonomous does not hold.
Wait(t) ==
  /\ Calls(t, "Wait")
  /\ Return(t)
  /\ UNCHANGED <<enabled, active, goal, running, goalVars, teleopVars, history>>

\* The drivetrain's status says that the place is reached.  Nothing else ends
\* this loop.
WaitUntilDrivetrainNear(t) ==
  /\ Calls(t, "Near")
  /\ Return(t)
  /\ UNCHANGED <<enabled, active, goal, running, goalVars, teleopVars, history>>

\* The vision loops: while there is a target and it is far ...
Seeks(t) == Calls(t, "Vision") \/ Calls(t, "VisionBackwards")

DriveVision(t) ==
  /\ Seeks(t) /\ IsAutonomous(t)
  /\ Drive(t, "VELOCITY")
  /\ UNCHANGED <<enabled, active, goal, running, armBy, teleopVars, threadVars, history>>

\* Mutant: the robot is not stopped in front of the target.
StopVisionMoving(t) ==
  /\ Calls(t, "Vision") /\ Return(t)
  /\ UNCHANGED <<enabled, active, goal, running, goalVars, teleopVars, history>>

\* ... and then stop.  Driving backwards ends without a goal of its own.
StopVision(t) ==
  /\ Calls(t, "Vision")
  /\ Drive(t, "STOP")
  /\ Return(t)
  /\ UNCHANGED <<enabled, active, goal, running, armBy, teleopVars, history>>

EndVisionBackwards(t) ==
  /\ Calls(t, "VisionBackwards")
  /\ Return(t)
  /\ UNCHANGED <<enabled, active, goal, running, goalVars, teleopVars, history>>

Call(t) == \/ EnterAutonomous(t) \/ ExitAutonomous(t)
           \/ Check(t) \/ StartDrivePath(t) \/ ScoreHatch(t)
           \/ GoTo(t) \/ Wait(t)

\* Where the robot has to get somewhere first.
Arrive(t) == WaitUntilDrivetrainNear(t) \/ StopVision(t) \/ EndVisionBackwards(t)

ThreadStep(t) == Call(t) \/ DriveVision(t) \/ Arrive(t)

-----------------------------------------------------------------------------
Next == \/ TeleopStep
        \/ ToggleEnabled
        \/ \E t \in Threads : ThreadStep(t)

\* The loops and the threads go on.  A robot that is enabled and driven by the
\* command's own goal arrives; one whose drivetrain follows another goal, or
\* none, need not.
Fairness ==
  /\ WF_vars(TeleopStep)
  /\ \A t \in Threads : /\ WF_vars(Call(t))
                        /\ WF_vars(Arrive(t) /\ enabled /\ drive.by = t)

Spec == Init /\ [][Next]_vars /\ Fairness

-----------------------------------------------------------------------------
(* Properties.  Most need the operating system's help: a thread that is     *)
(* started gets to its first call before teleop's next tick, 20 ms later.   *)
(* late records the first tick of which that is not true.                   *)

Kinds == {"NONE", "TELEOP", "PATH", "VELOCITY", "STOP"}
Calling(c) == 1 .. Len(Program[c])

\* Type invariant.
TypeOK ==
  /\ enabled \in BOOLEAN /\ active \in BOOLEAN /\ running \in BOOLEAN
  /\ goal \in {NoCommand} \cup {Request(c) : c \in CommandNames}
  /\ drive \in [by : Threads \cup {Teleop}, kind : Kinds]
  /\ armBy \in Threads \cup {Teleop}
  /\ pc \in {"read", "send", "buttons", "report"} /\ seen \in BOOLEAN
  /\ command \in [Threads -> CommandNames \cup {"NONE"}]
  /\ step \in [Threads -> Nat] /\ cleared \in [Threads -> BOOLEAN]
  /\ \A t \in Threads : IF Alive(t) THEN step[t] \in Calling(command[t]) ELSE step[t] = 1
  /\ late \in BOOLEAN /\ exited \in BOOLEAN

\* The driver is locked out only while some command is on its way, however many
\* were started and in whatever order they began and ended.
NoLockout == running => \E t \in Threads : Entered(t)

\* Teleop does not take the drivetrain or the superstructure away from a command
\* that is still running.
TeleopYields ==
  [][\A t \in Threads : ~late /\ Entered(t) =>
       /\ drive.by = t => drive'.by # Teleop
       /\ armBy = t => armBy' # Teleop]_vars

\* The goal that started a command stands until the command ends or the driver
\* clicks exit_auto: teleop's own loop does not cancel it.
GoalStands ==
  ~late => \A t \in Threads : Alive(t) => goal = Request(command[t]) \/ exited

\* A command that has ended has not left the drivetrain with a velocity: the
\* robot does not run on by itself, with the driver gone or disabled.
NoRunaway ==
  ~late /\ drive.kind = "VELOCITY" => Alive(drive.by)

\* The driver gets the robot back, again and again, whatever commands were
\* started and wherever the robot was disabled meanwhile.
TeleopRegains ==
  <>[]enabled /\ []~late => []<>(pc = "send" /\ ~seen)
=============================================================================
