# Verification of the robots' programs

TLA+ models of the programs in this repository (FRC team 1678's robot code), the
TLC runs that check them, and theorems about them checked by TLAPS.  Paths are
relative to the repository's `src`.

Contents: [the system](#the-system), [what is hard](#what-is-hard),
[modules](#modules), [runs](#runs), [bounds](#bounds), [fairness](#fairness),
[proofs](#proofs), [findings](#findings), [not modelled](#not-modelled),
[plan](#plan).

## The system

`muan` is the team's library.  `c2017`, `c2018` and `c2019` are the programs of
three seasons' robots, `o2016` to `o2018` those of the off-season robots.  Each
program is one process with several threads.  In 2019:

| thread | period | what it does |
|---|---|---|
| `SubsystemRunner` | 10 ms | sensors, drivetrain, superstructure, actuators, in this order |
| `Limelight` | 15 ms | camera readings to a status |
| `TeleopBase` | 20 ms | driver's controls to goals; starts commands |
| a command | while it lasts | detached thread, sends goals in place of the driver |
| logger, dashboard | 20 ms, on request | copy queues to files and to a browser |

The earlier robots have an autonomous thread in place of the commands, which is
never joined, and 2017 and 2018 a thread for the CAN bus.  The threads share message
queues and little else: the gyro reader's state, the logger's list of queues and the
mask of solenoids.

| component | state | operations | talks to | correct if |
|---|---|---|---|---|
| message queue (`muan/queues`) | ring buffer, write position, lock; a position per reader | WriteMessage, ReadMessage, ReadLastMessage, GetNumMessagesSkipped, MakeReader, Reset | every thread | messages are given in order, once, unharmed; only overwritten ones are skipped, and a report of them bounds what the next read skips |
| queue manager, logger (`muan/queues`, `muan/logging`) | queues by type, list of logs, a directory and open files | Fetch, AddQueue, Update, DetermineBasePath, FlushAllFiles | every queue, the disk | every file is a table of the messages it was in time for, at every power cut |
| superstructure of 2019 (`c2019/subsystems/superstructure`) | state machine, unbounded goals, flags, last statuses | SetGoal, RunStateMachine, BoundGoal, Populate..., Update | teleop and commands (goals), six mechanisms (calls), interface (inputs, outputs) | nothing moves uncalibrated; intakes end; a goal that stays is reached; the wrist does not swing into the elevator |
| elevator, wrist, intakes, winch | one object each: goal, counters, state | SetGoal, Update | superstructure | brake and motor do not fight, a hatch is not dropped unasked |
| hall calibration (`muan/control/calibration`) | ranges of readings seen, offset | Update | wrists, elevators | calibrated means accurate; a full pass calibrates |
| teleop (`c2019/teleop`) with joysticks (`muan/teleop`) | buttons, last statuses | Update, SendSuperstructureMessage, SendDrivetrainMessage | auto goal and status queues, goal queues | it yields to commands, and gets the robot back |
| commands (`c2019/commands`) | program position of a thread, transform | EnterAutonomous, StartDrivePath, StartDriveVision, ..., ExitAutonomous | as teleop; drivetrain and limelight statuses | cancelled when the driver says so or the robot is disabled; do not leave the drivetrain running |
| interfaces (`c2019/interfaces`, `o2018/interfaces`) | zeroed or not, last outputs | ReadSensors, WriteActuators | motor controllers, solenoids | an elevator that was zeroed goes where it is sent |
| drivetrain (`muan/subsystems/drivetrain`) | the path followed, the controller in charge | SetGoal, Update | goals, statuses | the last goal selects the controller; a path is gone on with, not begun again |
| drive actions (`muan/actions`) | goal, constraints, which side is complete | ExecuteDrive, Update, IsTerminated | drivetrain goals and statuses | a drive ends |
| gyro reader (`muan/wpilib/gyro`) | state, ring of samples, drift | Init, RunCalibration, RunReader, Reset | drivetrain inputs, driver station | the drift is that of the longest time the robot stood still |
| robot of 2018 (`c2018`) | score subsystem, routine of the autonomous thread, climber, lights | SetGoal, RunStateMachine, BoundGoal, the routines' statements, Update | as 2019, and the announcement of the field | the wrist clears the elevator; a routine lets go of cube and robot when it should; everything that flashes or climbs ends |
| robot of 2017 (`c2017`) | shooter, two intakes, climber, lights, vision alignment | Update of each | goals, drivetrain | balls and gears do not meet; shots come out; the driver gets the drivetrain back |
| off-season robots (`o2017`, `o2018`) | arm, climber, program | Update of each | goals, drivetrain | programs end where they should, begun again or gone on with, after any interruption |

## What is hard

Concurrency: the queue looks at its write position outside its lock; teleop and
detached command threads decide on a status that another thread is about to
change; nothing joins the threads of commands and of autonomous, so they run on
when their time is over; solenoids are sent between two writes that belong together.
Time: the superstructures decide from readings that are a tick old while the
arm moves, and two mechanisms wait for each other.  Order: the driver can press any
buttons in any order, sensors come and go, calibration and enabling happen at any
time, and flags that last are set by the same switch as flags that every goal
clears.  Boundaries: readings on the edge of a magnet, a full ring buffer, a drive
that crosses its goal between two looks.  Failure: the power is cut while the
logger writes, encoders die, statuses are missing, autonomous is disabled half
way and enabled again.  The list, with lines, is under `hazards` in `PROJECT.json`.

## Modules

### The library

**`MessageLog`** is what a queue promises: a log, of which each reader is given the
next message or the oldest kept.  **`MessageQueue`** is `message_queue.hpp`.
`WriteMessage` is two steps (`StoreMessage`, `AdvanceBack`) under the lock, and
the reader's `ReadLastMessage` two (`SampleBack` outside the lock, `TakeLast`
inside): other threads run between them.  `NothingNew` and `TakeMessage` are the
two outcomes of `NextMessage`, and `AskSkipped` is `GetNumMessagesSkipped`, a locked
call of its own between which and the next read others may write; `askedAt` is what a
reader has seen of the queue when it asked.  A message is the number of the write that made
it, so loss and repetition can be seen.  `Log == INSTANCE MessageLog` is the
refinement.  `Reset`, which only tests call, is an action that the runs bound to 0.

**`Logging`** is the queue manager's `Fetch`, the logger and its file writer: `Fetch`
registers a queue at any time, an `Update` is a step for every look at a queue's index
and every read of it, and writers write in between.  `PowerCycle` loses what was not flushed, or part of it, and
starts again in the directory that `FreshDirectory` finds, on a stick that may have
come or gone.  **`ProtoText`** is `proto_utils.cpp`: a message as a row of CSV, the
header over it, and as JSON, defined by recursion over message types.
In `Logging` a line is what it is of, a header or the row of a message with its index; `FilesAreTables` is about
their order, and `LogsReachDisk` compares the texts of the rows on the disk with their header's and with the JSON.

**`GyroReader`** is the gyro's thread with the `History` it averages over, as a ring buffer
with the code's indices.  Samples may be still or moving, transactions may fail.  The drift is kept
as the samples that it is the mean of.

**`Joystick`** is every kind of button from what the device reads, with the edges of its two
last updates; `DriverButtons` and `Robot2018` build their drivers' buttons from it.
**`ButtonRules`** is how teleop turns a list of buttons into one field of a goal.

**`Drivetrain`** is which controller a goal selects, and the path follower: when a goal
is a new path, how far an old one has come, what the status says of it.
**`DrivetrainAction`** is a drive of so far and so many turns, up to its termination with
and without a final velocity, for two sides that need not go at the same speed.  What the controller
under `third_party/frc971` makes of its goal is `Profile`.  `CanEnd` says which drives can end: not those through a goal
that turn more than they go forwards, nor those on the spot, whose goal is not a number, nor those through a goal that wait
for the wheels to stand there.

**`HallCalibration`** is the calibration and, as an assumption, the mechanism
that passes the magnet: the encoder moves by at most `Step` per tick, less than the
magnet is wide, and the hall sensor follows it with a backlash `Slack`.

**`Interfaces`** is what sensors become and outputs do at the motor controllers of 2019, and at the
drivetrain of `o2018`: zeroing at the limit switch, messages that are missing, output modes, and brakes.

### The robot of 2019

**`Elevator`, `Wrist`, `HatchIntake`, `CargoIntake`, `GroundHatchIntake`, `Winch`**
hold one mechanism each: its variables are the object's members and what it puts
into the output message, `Tick` is SetGoal followed by Update, with the readings
as parameters.

**`Superstructure`** composes them (`INSTANCE` for each) as `Superstructure::Update`
does.  Update first drains the goal queue and then runs one control tick; the
model has an action for each: `HandleGoal(c)` is SetGoal (`GoalHeight`,
`GoalAngle`, `SetFlags`, `SetIntake`) and the RunStateMachine call at the end of
it, `Control(r)` is BoundGoal, the Populate functions, the mechanisms' `Tick`s and
the statuses.  One Update is any number of `HandleGoal`s followed by a `Control`;
both look at the statuses that the last `Control` left, as the code does.
Lengths are millimetres and angles milliradians, so the code's `1e-3` and `1e-5`
comparisons are comparisons of integers.

**`DriverButtons`** puts the driver in front of it: `SendSuperstructureMessage` and the
vision override of `SendDrivetrainMessage`, from what gamepad and limelight read.

**`SuperstructurePlant`** puts the superstructure in a loop with the arm it moves:
the next reading depends on the last setpoint.  The plant is an assumption,
stated at the head of the module: a powered mechanism stands still or moves
towards its setpoint by at most its travel per tick, the wrist does not reverse
without a tick of standing, an unpowered elevator sinks, an unpowered wrist
droops on its own side, the robot is calibrated by hand while it is disabled and not with
the wrist in the arc under a raised elevator, and no reading is exactly a
threshold.  **`Passage`** is the abstract specification: the wrist changes sides
only through the arc and only while the elevator is low.

**`Commands`** is who drives the robot: teleop's Update in four steps (`ReadStatus`,
`SendGoals`, `Buttons`, `ReportStation`), since a command's thread can run between
any two of its queue calls, and the commands as the calls they make in turn
(`Program`).  A check of `IsAutonomous` and the write it guards are two steps.
All the readers involved read the last message only, so a queue is its last
message.  `late` is a history variable: the operating system took longer to start
a command's thread than until teleop's next tick.

### The robot of 2018

**`ScoreSubsystem`** is the elevator, the wrist and the claw with the state machine over
them: goals (`HandleGoal`), a tick (`Tick`) with bounds, profiles, calibration, stall detection and
the timing of the claw.  A profile is a position and a speed (`Calculate`): it keeps its speed when the goal changes, brakes,
runs past a goal that it cannot stop at, and comes back.  Speeds are whole units per tick, and speeds change by whole units, so that
a length of a tick is a choice of the constants.  `TimeLeftUntil` counts the ticks that a profile takes
up to a height on its way to a goal above it; what the code's formula gives for one on its way to a goal below, which can be anything, and the
order of times that are the same number of ticks are left open (`ElevatorLate`).  **`AutonomousRoutines`** are the routines as sequences of
statements, and **`Robot2018`** the match: the autonomous thread takes a statement at a time
(`RunStatement`), teleop sends goals from its buttons, both into the score subsystem.
**`Actuators2018`** is the rest of that robot, from a button to a piston: climber, lights,
rumble, and the solenoids that the CAN thread sends.

### The robot of 2017

**`Superstructure2017`** is the shooter, the intakes and the climber that share motors and space,
and **`Robot2017`** has them and the lights over them in their loop with teleop and the vision
alignment, which take turns at the drivetrain.

### The off-season robots

**`OffSeason2018`** is the robot with an arm: teleop, the autonomous runner with its routines, arm and
arm interface, on `Drivetrain`.  **`CitrusRobot`** is the robot of 2017 with one gear: its
program, joysticks, drivetrain interface, and climber.

### Modules for TLC and TLAPS

`MC...` modules give sets of goals, readings and drills to the constants.  `MCArmAndDriver`, `MCLibrary` and
`MCOffSeason` check parts that share nothing in one run: a behaviour is one of one part, chosen in the
initial state, with that part's own next-state relation and fairness, while the others stand still.
`MCArmAndDriver` has the superstructure's two surroundings, the arm and the driver.
Modules named `...Proofs` extend the modules they prove things about.

Every definition of code has its lines in `PROJECT.json`; variables and constants are mapped to
the members they stand for.

## Runs

| run | question | properties |
|---|---|---|
| `queue` | Do two draining readers, a sampling reader and writers see a log through a window, when the buffer is overwritten twice over? | `WindowIntact`, `ImplementsLog`, `SkipReportBounds`, `EveryReaderCatchesUp` |
| `superstructure` | Goals on both sides of the elevator change under way: does the wrist swing only low, and does everything arrive?  A driver of 2019 picks up game pieces, climbs, or scores with vision: is a hatch let go unasked, does an intake go on for ever, do crawler, gear and brake agree? | `ArcOnlyWhenLow`, `KeepsPassage`, `GoalReached`, `CrawlersSafe`, `HatchReleasedOnRequest`, `IntakeEnds`, `BrakeWins` |
| `commands` | Commands and `exit_auto` are clicked, the robot enabled and disabled, at any time: do teleop and commands drive against each other, does the driver get the robot back? | `NoLockout`, `GoalStands`, `NoRunaway`, `TeleopYields`, `TeleopRegains` |
| `match2018` | Routines are ended at any statement and teleop takes over, while the elevator calibrates and stalls and cubes are found, lost and missed: do stalls end, and waits for cubes that the intake closes on, are cubes let go where it scores, does the routine let go of the robot? | `StallEnds`, `ScoresInPosture`, `AutonomousLetsGo`, `WaitForCubeEnds` |
| `arm2018` | Goals change while wrist and elevator still move: does an elevator that can halt high stay high under a wrist that is back, and does the wrist clear the elevator for goals that meet the arm at rest? | `PatientGoalsClear`, `StaysHighForWrist` |
| `robot2017` | A driver of 2017 shoots, collects, climbs and aligns with vision: do balls and gears meet, does every shot come out, does the drivetrain come back, is the climb's light seen? | `GearClearsBalls`, `ClimbLightShows`, `ShotsComeOut`, `TeleopDrives`, `GearRises` |
| `library` | Six parts that share nothing: is a calibration accurate and does a pass give it; is the gyro's drift that of the longest rest; do logs stay tables through power cuts, with rows that fit their headers, and get to the disk; does a drive that can end do so; does a zeroed elevator arrive; do a climb, lights and rumble end? | `CalibratedIsAccurate`, `FullPassCalibrates`, `DriftFromLongestStill`, `FilesAreTables`, `LogsReachDisk`, `DriveEnds`, `ArrivesAboveSwitch`, `EverythingEnds` |
| `offseason` | Matches that are disabled and enabled at any step: does a program that is begun again end one drive back from its peg, do routines that go on end, is a cube let go only near the switch, does the arm arrive, is a climb held with the low voltage? | `BacksOffFromPeg`, `LeftScoresNear`, `RoutineEnds`, `ArmArrives`, `ClimbEases` |

Every property of these runs comes with a mutant (an operator above the definition
it replaces, commented "Mutant") under which the run fails.  Four more runs (`queue_read_last`, `first_goal`,
`stow2018`, `momentum2018`) check one property each that the code does not have; see
[findings](#findings).  Type invariants and `CalibratedFirst` are proved for all values of the constants and
are no part of the runs.

Preconditions in the properties that a reader should know of:

- `PatientGoalsClear` is about goals, and cuts of the power, that meet the arm standing still and clear (`swerves` counts the others)
  and that nobody tilts by hand; `momentum2018` shows what happens on a moving arm, and of the tilt see [findings](#findings).
- `StaysHighForWrist` is about steps with the power on, from an elevator that is high and that its profile can halt there (`High`).
- `WaitForCubeEnds` is about a wait whose intake closes on the cube or has closed.  `BacksideSwitch` waits with the intake open
  (`c2018/autonomous/backside_switch.cpp:30-37`): no cube is reported before the claw has been closed for `kNumHasCubeTicks`, the routine closes it after the wait,
  and its wait ends with the autonomous period.
- `AutonomousLetsGo` leaves out the wait for the drivetrain to be near, which does not ask for
  autonomous (`c2018/autonomous/autonomous_base.cpp:216`).
- `DriftFromLongestStill` needs one still sample: without any the code has 0.0 / 0 for its drift
  (`gyro_reader.cpp:119`).
- `ClimbEases` leaves out a climb that is begun again on a taut rope: the spool cannot reach
  `kSpinUpVelocity`, so the low voltage of the top never comes.
- `BacksOffFromPeg` allows what the wheels moved between a status and the goal that is computed
  from it, and starts with the drivetrain's status published (`DriveGoal`).  A program begins again, at `kInit`, whenever
  autonomous is enabled (`RunAutonomous`, `o2017/citrus_robot/main.cpp:22`): the property is about one that then gets to its end.
- `DriveEnds` leaves out the drives that cannot end (`CanEnd`, see [findings](#findings)).
- `EverythingEnds` is about an enabled robot in operator control or a disabled one: the climber's last
  goal stays when operator control ends, and an autonomous period after it would go on with it.

## Bounds

- `queue`: a buffer of two slots and five writes overwrite every slot at least
  twice, so a reader can be lapped, be lapped in the middle of a read, and catch
  up; three readers of both kinds are enough for two readers to interfere
  through the lock.  The safety properties are proved for every size.
- `superstructure`, the driver: three drills, each with every set of its buttons that differs in what it sends;
  readings are every combination of which one sensor trips, calibration and enabling that the
  drill is about.  The tick counts (25, 20, 100, ... in the code) are 1 or 2: below,
  at and above a counter's limit all occur.  The safety properties are proved for every set of
  buttons, goals and readings and every tick count.
- `superstructure`, the arm: heights and angles are a grid that has the goals' own positions and
  values on both sides of every threshold; the elevator takes two or more ticks
  past each.  `WristTravel` lets the wrist cross an interval of the grid in a tick.
  `ArcOnlyWhenLow` and `KeepsPassage` are proved for every grid.
- `commands`: two threads are the fewest that overlap; the safety properties are
  proved for any set of threads.  `ScoreHatch` sends the same goal
  `num_ticks` times, once in the model; `Wait` ends whenever it likes.
- `match2018`: the profiles' constraints are the code's in ticks of a second, in which any posture is reached in a tick or two; goals
  that meet a moving arm are bounded to none here (`MaxSwerves`), since `arm2018` is about them.  The tick counts are 2; drills take
  autonomous and cubes, with calibration and stalls, in turn.
- `arm2018`: the constraints in ticks of a quarter of a second, so that the arm is under way for up to seven ticks
  between postures and cannot halt in one; two changes of goal meet it on its way; the power is on.  Five goals: both ends, the
  middle, behind and in front.  `momentum2018` has ticks of a tenth, so that its counterexample is not one of rounding, and a
  margin of three ticks' acceleration (12 cm) in `WristNearlyClears`. The safety
  properties of the two runs, `PatientGoalsClear` excepted, are proved for all accelerations and speeds, every tick count and every routine.
- `robot2017`: tick counts are 2; drills take shots, gears and balls, climbing and vision in turn.  The safety
  properties are proved for every drill and count.
- `library`: a magnet of seven units in a travel of sixteen, steps of up to two, backlash of one
  (proved for all of them); gyro samples up to twice and a half the ring
  (proved for every ring and every number of samples); queues of one slot, so that the logger
  is lapped, and two starts with and without a stick; drives forwards, backwards and
  turning, also more than they go forwards and on the spot, with both terminations, whose profile can jump over the goal; an elevator of three notches over a switch
  that closes on two; flashes of both periods.
- `offseason`: trajectories of three ticks of which the last are near; the
  drive forwards is longer than the one back, so that a wrong origin shows.  The safety properties are proved for
  every length of paths and drives.

## Fairness

Without fairness a robot may stop at any time, and every liveness property is
false.  What is assumed:

- Loops go on: every thread of the programs is a periodic loop (`TeleopStep`, `SubsystemTick`,
  `RunStatement`, `Update`, ...).  A writer that holds the queue's lock gives it back.  Nobody has to write a message.
- The driver owes nothing: where a teleop step is fair, it is so for the inputs that are held
  (`CitrusRobot`), for the step that reports a new driver station (`OffSeason2018`), or for a step on an intake
  that waits (`IntakeWaits` of `Superstructure` and `DriverButtons`: goals keep arriving, as teleop sends one in every tick).
- A disk brake that is given the time gets to its end (`disk' # "CHANGING"`), which is
  what its time constant does.
- Motors: a powered mechanism that is not where it was sent gets somewhere (`ElevatorMoves`, `WristMoves`,
  `Move`, `Profile`, `DriveOn`, `Rope`).  A particular goal is not assumed to arrive.
- `Commands`: an enabled robot whose drivetrain follows the command's own goal gets where a
  command waits for it (`Arrive`); one that is disabled or was given another goal need not.
- `Robot2018`: a cube that an intake is run for is found (`CubeEnters`); `Robot2017`: a wheel that is driven
  comes near its speed or its encoder is dead.

## Proofs

For every value of the constants (`TLAPS`, no unproved step):

| module | theorem | what it says |
|---|---|---|
| `MessageQueueProofs` | `Invariance`, `TypeCorrect`, `Window`, `Refinement`, `SkipReport` | a queue of any size with any readers holds its window, implements the log, and reports of the messages that the next read passes over no more than it does, and no fewer but for those written in between |
| `SuperstructureProofs` | `Invariance`, `TypeCorrect`, `CalibrationFirst`, `CrawlerSafety`, `ReleaseOnRequest` | crawlers run only when they are down in low gear, a hatch is let go only on request, and nothing leaves CALIBRATING early, for every set of goals, god mode included, every set of readings and all tick counts |
| | `DriverInvariance`, `DriverCrawlers`, `DriverReleases` | the same for the goals that teleop makes of what gamepad and limelight read |
| | `ArmInvariance`, `LowInArc`, `PassageKept` | the wrist swings only low and the arm implements `Passage`, for every grid of positions, every speed of the elevator, and every wrist that cannot jump the arc |
| `CommandsProofs` | `Invariance`, `TypeCorrect`, `LockoutEnds`, `GoalKept`, `Standstill`, `Yielding` | teleop and any number of command threads keep out of each other's way |
| `Robot2018Proofs` | `Invariance`, `TypeCorrect`, `StallIsFound` | an elevator that stands still is not driven on beyond the fault check |
| | `ElevatorStaysHigh` | an elevator that is high, and that can halt high, stays so under a wrist that is back, for every acceleration and speed of the two and every sequence of goals |
| | `AutonomousScores` | in every routine, wherever it waits and whatever it finds, a cube is let go only with the arm sent to where it scores |
| `Robot2017Proofs` | `Invariance`, `TypeCorrect`, `IntakesInBox`, `ClimbLightSeen` | for every order of the buttons, a gear intake that is out of its rest has the ball intake up, and the light of a climb that has arrived is seen |
| `OffSeasonProofs` | `BacksOff`, `LeftIsNear` | whatever was disabled before it, a program of 2017 that runs from its beginning to its end backs off from its peg by its drive, and a routine of 2018 that is disabled and goes on lets a cube go only near the switch |
| `LibraryProofs` | `Invariance`, `Accuracy`, `Completeness` | the hall calibration is right to half a step and the slack, and a full pass gives it |
| | `GyroInvariance`, `DriftIsFound` | the gyro's drift is that of the longest rest, for every length of a calibration, all rates and any number of samples |
| | `LoggingInvariance`, `TablesOnDisk` | every file of a log is a table, for all queues and messages, however often the power is cut |

`ButtonRulesProofs` has the lemma that the proofs about drivers share: `FirstOf` gives the value of the first rule
that applies, so a message made of rules is one of their values (`FirstOfOne`).

The inductive invariants, and why the properties alone are not inductive:

- Queue: `Positions` (the lock's state says whether one message more is stored
  than visible; nobody is ahead of the queue) and `Stored` (which message that
  is).  `WindowIntact` alone says nothing about the slot being written.  Two
  positions closer than `Size` have different slots (`SlotsDistinct`), which is
  arithmetic on `%` and the heart of the argument.  `SkipReport` needs `Told`: a reader is where it was when it
  asked, and what it was told is its distance to a front that only moves on, by at most one for every message written since.
- Superstructure: `CrawlReady` (crawling is asked for only together with low gear and
  crawlers out) and `GripKept` (closed flutes and the state of the hatch intake
  agree) tie what the flags say to what the outputs did a tick later.  The lemmas are over `AnyStep`, a step with
  any goal there is, and a driver's step is one (`DriverAny`), since rules of buttons only give goals
  (`MessagesKnown`).
- Arm: a tick's outputs come from the readings of the tick before, so the arm
  moves once more on what was right a tick ago.  `ElevatorYields`: a wrist that
  was sent across has the elevator low and coming down.  `LastClimb`: an elevator
  that climbs under a wrist in the arc has a tick to go at most.  Hence the two
  ticks of travel in `ArcOnlyWhenLow`.
- Robot of 2018: `StallEnds` needs that a count beyond the limit has raised the fault (`StallFaults`).
  `ElevatorStaysHigh` is an action property over type correctness.  With the wrist back `BoundHeight` is a goal at or above the safe height.  A
  profile that can halt there then takes a speed from which, after the tick, it can still halt above that (`CalculateStaysAbove`): towards
  a goal above, any upward speed and braking will do (`BrakeByTick`: a tick and what is left of the braking is the braking);
  towards one below, `TopSpeed` is the greatest speed that halts within the distance (`TopSpeedHalts`).
- Autonomous of 2018: `ScoresInPosture` is about the goal at the moment of a statement.  `AimHeld` says that while a thread
  is where the last goal it sent was a posture to score from (`Aimed`), the arm's goal is one: a goal's place changes
  only with a message, in autonomous only the thread sends any, and the robot is calibrated by then (`PeriodsInOrder`).
  That every statement that lets go is `Aimed` is shown routine by routine (`AimsBeforeLettingGo`).
- Robot of 2017: `LiftTimed` (a gear intake that is picking up has time left on its timer).
- Off-season: the program with a peg is followed by how far the goal lies from the origin in each of its states
  (`OnItsWay`), up to the step between wheels and status (`WheelsOK`); the routine with a
  cube by the only path that its goals can name (`LeftOK`) and by what a near status says of the follower (`NearOK`).
- Gyro: `RingOK` says which samples the slots hold, by position before the newest (positions closer than the
  ring's size have different slots, `PlacesDistinct`), `DriftOK` that some place in the history ended the
  rest the drift was taken from and no later one was as long.  Samples taken later do not change the rests before
  them (`RestStays`).
- Logs: `Continued` is about a file with what is not flushed of it, since the writer takes no notice of the disk: it is
  a table, its header is due as long as it is empty, and its last message is before the reader's next.  `IndexOK` says that an index
  that was asked for is between that and the message that is read, whoever wrote in between.  `Numbered` says that
  earlier directories have numbers below the count of starts, so there is a free one and no file begins in an old
  one (`FreshIsNew`).
- Hall: `FarSeen` and `NearSeen` (the range reaches the ends up to what a step can
  miss) are carried by which side the hall sensor is on and which readings lie
  beyond the range.
- Commands: as long as no tick was late there is at most one command
  (`OneAlive`), its status is announced while it runs (`Announced`), and so every
  tick has seen it by the time it could send or click (`Noticed`); a velocity is
  the drivetrain's last goal only in the steps between a vision loop and what
  replaces it (`Steered`).  `LockoutEnds` needs none of that and holds late or not.

Assumptions on constants are the named `ASSUME`s of the modules (sizes and tick counts are
positive, sets of goals, buttons and readings have their types, the wrist's travel is at
most the arc's width, a step is at most the magnet's width, teleop is not a
thread, drives have lengths, a calibration has at least one cycle and rates are integers, no queue has the name of
the text log's file); the runs evaluate them.

Model-checked only:

- liveness, which rests on fairness: `EveryReaderCatchesUp`, `GoalReached`, `IntakeEnds`, `BrakeWins`, `TeleopRegains`,
  `AutonomousLetsGo`, `WaitForCubeEnds`, `ShotsComeOut`, `TeleopDrives`, `GearRises`, `LogsReachDisk`, `DriveEnds`,
  `ArrivesAboveSwitch`, `EverythingEnds`, `RoutineEnds`, `ArmArrives`, `ClimbEases`;
- `PatientGoalsClear`, whose proof would need the times that two profiles take to be related for every constraint;
- the texts of rows, headers and JSON (in `LogsReachDisk`): `ProtoText` is a recursion over message types, whose
  results for every type need an induction over data that is out of the provers' reach.

## Findings

Each is a run that TLC refutes, with the line quoted in `PROJECT.json`.

- `queue_read_last`: the reader's `ReadLastMessage` samples `back_` before it
  takes the lock; a message written in between is returned and is not marked as
  read, although `message_queue.h:78-79` says that it is.
- `first_goal`: a robot of 2019 whose elevator is zeroed when it is enabled drives it to an uninitialised height
  (`superstructure.h:112`) until its first goal message: goals set the height, every control tick drives to it, and teleop, which sends
  goals on an enabled robot only, is slower than the ticks.
- `stow2018`: a goal message in the tick after the 2018 robot's hall sensors were found leaves
  CALIBRATING past the lines that stow (`score_subsystem.cpp:221`, "Stow after calibrating").
- `momentum2018`: "Elevator goal doesn't get too low if the wrist can't handle it" (`score_subsystem.cpp:22`) looks at the wrist's
  angle and not at where its profile is taking it.  When INTAKE_0 meets a wrist that swings back for SCALE_LOW_REVERSE and cannot stop, the
  elevator, at 97 cm, starts down, and the cap that comes once the wrist is past 90 degrees finds it too fast to stop at 93 cm.  With
  ticks of a tenth of a second it is found at 73 cm; the same motions of the continuous profiles end at some 83 cm.

Met while modelling, without a run of their own:

- `DriveStraight::IsAutonomous` returns true before it looks at anything (`drive_straight.cpp:15`), so the command goes on on a
  disabled robot, although the lines below it (`:21-23`) would end it there; nothing but its own end stops it.
- "Wrist doesn't try to go too far if the elevator can't handle it" (2018's `score_subsystem.cpp:36`) compares the
  time the elevator takes to its safe height with the wrist's.  The profile of an elevator at rest at a goal below that height
  never gets there, its time is negative (`trapezoidal_motion_profile.cpp:145-153`), and the wrist passes.  Postures with the
  wrist back have the elevator high; a tilt in god mode does not.
- `Reset` of a queue moves positions back, although `message_queue.h:38-39` says that they never
  decrease (`ResetSpec`); only tests call it.
- `drivetrain_action.cpp:210-213` replaces a zero velocity constraint by a dummy twice and never the
  acceleration's, so a turn on the spot is sent with no forward acceleration, which is what the comment above
  wants to avoid.  `DriveEnds` holds because the profile then jumps.
- A drive through its goal (`follow_through`) sends both sides on in the direction that the robot goes in (`drivetrain_action.cpp:60-65`).  If it turns more
  than it goes forwards, one side goes the other way, is sent away from its goal, never crosses it, and the drive does not end; a turn on
  the spot through its goal is sent to 0 / 0.  The vision alignment begins neither.
- `TimeLeftUntil` adds a time to a distance where it decides in which phase of the profile the target lies (`trapezoidal_motion_profile.cpp:133`);
  its time is off by less than a tenth of a second for an elevator on its way to the top.
- `BacksideSwitch` waits for a cube with its intake open, and no cube is reported before the intake has closed
  (`c2018/autonomous/backside_switch.cpp:30-37`, `wrist.cpp:50`): that wait ends with autonomous only.
- `AxisButton` compares an absolute value with its signed threshold (`button.cpp:55-56`): one with a
  negative threshold is pressed as soon as the axis leaves the middle on that side.
- A goal without vision target in 2017 keeps the default distance and counts as aligned
  (`c2017/vision/robot/vision.cpp:85`).
- If a thread starts late (`Commands`), the tick in between takes back the goal that started it, so `TestAuto`
  skips its path; the driver can also start a second command; teleop can overwrite a path,
  after which `WaitUntilDrivetrainNear`, which asks for nothing but the distance,
  does not return, and the driver is locked out as long as it does not.

## Not modelled

- Real arithmetic: controllers, estimators, motion profiles other than the arm's of 2018, splines, drivetrain models, the open loop
  drive, the joystick curves, the limelight's and the 2017 camera's geometry.  What makes them right is numerical.
- Pure I/O: motor controller configuration, SPI, camera and its streams, dashboard, driver station
  wrappers, sensors that are passed on as they are.
- The robot of 2016: what is left of it copies goals into outputs.
- In the mechanisms: encoder fault counters that nothing reads, feed-forward
  voltages, and the published copies of states on which only dashboards depend.
- Data races below the level of a statement: the logger's list, an append to which is one step, and
  the 64-bit position on a 32-bit processor, which can tear only at 2^32 messages.
- Early returns of subsystems that have no input message yet; then nothing changes.
- 2017's lemonscript routines (a language of its own, whose implementation is vendored under `third_party/lemonscript`), rollers and side magazine.
- Thread start-up order, process start, deployment, templates, test benches, vendored code.

## Plan

Done: the queue with its log and proofs; 2019's mechanisms, superstructure, arm,
calibration, driver, commands and interfaces; 2018's match and actuators; 2017's
robot; the off-season robots; logger, gyro, joysticks, drivetrain and drive actions.

Every safety property that a run checks is proved but for `PatientGoalsClear`; what else is left to TLC are the liveness properties.

Next, in this order:

1. `Commands` with a bound on how late a thread starts, in place of `late`.
2. `Commands` on `Drivetrain`, which would replace the fairness of `Arrive` by the drivetrain's own.
3. An abstract specification of the drivetrain's goals (the last one selects the controller; a path is gone on with) that `Drivetrain`
   implements, and the proof of it.
