------------------------------- MODULE Interfaces ------------------------------
(***************************************************************************)
(* The interfaces of the 2019 robot, and of the off-season robot of 2018   *)
(* for the drivetrain: sensors become the messages of the subsystems, and  *)
(* the subsystems' last outputs are what motor controllers are told.       *)
(*                                                                         *)
(* Positions are notches.  The motors (Move) are an assumption: an         *)
(* elevator that is sent to a position of its encoder moves there, one     *)
(* that is driven or disabled moves as it may, and a limit switch closes   *)
(* somewhere near the bottom.  Gains, ramps, and sensors that are passed   *)
(* on as they are, are left out.                                           *)
(***************************************************************************)
EXTENDS Integers

CONSTANTS
  Heights,      \* of the elevator, from the bottom
  Closed,       \* those at which its limit switch is closed
  Outputs,      \* of the superstructure: [elevator : [type, setpoint], wrist, rest]
  DriveOutputs  \* of the drivetrain: [type, setpoint]

VARIABLES
  program,   \* which robot's drivetrain this is
  height,    \* where the elevator is
  active,    \* the last driver station message
  written,   \* the last output messages of the superstructure and the drivetrain, if any
  encoder,   \* the height that the elevator's encoder has as its zero
  zeroed,    \* zeroed_
  sensed,    \* the last input messages: [encoder, zeroed]
  told,      \* what the motor controllers and solenoids were told last
  brakes,    \* whose motors brake when they are not driven
  switchedAt \* history: where the elevator was when it was first reported zeroed

robotVars == <<program, height, active>>
interfaceVars == <<robotVars, written, encoder, zeroed, sensed, told, brakes,
                   switchedAt>>

NoOutput == [type |-> "none", setpoint |-> 0]
NoOutputs == [elevator |-> NoOutput, wrist |-> NoOutput, rest |-> "none"]
Stopped == [type |-> "OPEN_LOOP", setpoint |-> 0]

\* The constructors reset the encoder to where it is, and let motors coast.
\* LoadGains lets the other motors of the elevator follow its master, but for one that
\* follows the winch.
InterfacesInit ==
  /\ program \in {"c2019", "o2018"}
  /\ height \in Heights /\ active = FALSE
  /\ written = [superstructure |-> NoOutputs, drive |-> NoOutput]
  /\ encoder = height /\ zeroed = FALSE
  /\ sensed = [encoder |-> 0, zeroed |-> FALSE]
  /\ told = [superstructure |-> NoOutputs, drive |-> NoOutput]
  /\ brakes = {}
  /\ switchedAt = -1

-----------------------------------------------------------------------------
\* Mutant: the encoder is zeroed whenever the switch is closed.
ZeroesAgain == height \in Closed

Zeroes == height \in Closed /\ ~zeroed

\* The encoder is read before it is zeroed, and zeroed_ is sent after that: the first
\* message that says zeroed has a height from before.
ReadElevator ==
  /\ encoder' = IF Zeroes THEN height ELSE encoder
  /\ zeroed' = (zeroed \/ Zeroes)
  /\ sensed' = [encoder |-> height - encoder, zeroed |-> zeroed']

ReadSensors ==
  /\ ReadElevator
  /\ switchedAt' = IF zeroed' /\ ~zeroed THEN height ELSE switchedAt
  /\ UNCHANGED <<robotVars, written, told, brakes>>

-----------------------------------------------------------------------------
Brake(who, on) == IF on THEN {who} ELSE {}

\* Without a message only the ground intake is told to stop, and all motors coast.
ToldSuperstructure ==
  IF written.superstructure = NoOutputs THEN [told.superstructure EXCEPT !.rest = "stopped"]
  ELSE written.superstructure

SuperstructureBrakes ==
  Brake("superstructure", written.superstructure # NoOutputs /\ active)

ToldDrive == IF written.drive = NoOutput THEN Stopped ELSE written.drive

\* In position control the brakes stay as they are, but for the c2019 robot when it is
\* not active.  The o2018 robot does not look.
DriveBrakes ==
  CASE written.drive.type = "VELOCITY" -> {"drive"}
    [] written.drive.type = "POSITION" ->
         IF program = "c2019" /\ ~active THEN {} ELSE brakes \cap {"drive"}
    [] OTHER -> {}

WriteActuators ==
  /\ told' = [superstructure |-> ToldSuperstructure, drive |-> ToldDrive]
  /\ brakes' = DriveBrakes \cup SuperstructureBrakes
  /\ UNCHANGED <<robotVars, written, encoder, zeroed, sensed, switchedAt>>

-----------------------------------------------------------------------------
\* The subsystems write, and the driver station.
Write ==
  /\ \/ \E o \in Outputs : written' = [written EXCEPT !.superstructure = o]
     \/ \E o \in DriveOutputs : written' = [written EXCEPT !.drive = o]
  /\ UNCHANGED <<robotVars, encoder, zeroed, sensed, told, brakes, switchedAt>>

Others == <<written, encoder, zeroed, sensed, told, brakes, switchedAt>>

SetStation ==
  /\ active' = ~active /\ UNCHANGED <<program, height, Others>>

Driven == active /\ told.superstructure.elevator.type = "POSITION"
Target == encoder + told.superstructure.elevator.setpoint

\* The elevator goes where it was sent, as far as it can.
Move ==
  /\ height' \in Heights \cap (height - 1 .. height + 1)
  /\ Driven /\ Target > height => height' >= height
  /\ Driven /\ Target < height => height' <= height
  /\ Driven /\ Target = height => height' = height
  /\ UNCHANGED <<program, active, Others>>

InterfacesNext == ReadSensors \/ WriteActuators \/ Write \/ SetStation \/ Move

InterfacesSpec ==
  /\ InterfacesInit /\ [][InterfacesNext]_interfaceVars
  /\ WF_interfaceVars(ReadSensors) /\ WF_interfaceVars(WriteActuators)
  /\ WF_interfaceVars(Driven /\ Move)

-----------------------------------------------------------------------------
(* Properties.                                                              *)

\* An elevator that is zeroed and sent to a position for good comes to be as far above
\* where its switch closed as it was sent, and its readings come to say so, wherever it
\* was powered on and however often it goes by the switch.
ArrivesAboveSwitch ==
  \A o \in Outputs :
    /\ o.elevator.type = "POSITION" /\ <>[](written.superstructure = o /\ active /\ zeroed)
    => \/ <>[](height = switchedAt + o.elevator.setpoint
               /\ sensed.encoder = o.elevator.setpoint)
       \/ o.elevator.setpoint + switchedAt \notin Heights
=============================================================================
