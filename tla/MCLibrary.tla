------------------------------- MODULE MCLibrary ------------------------------
(***************************************************************************)
(* Parts that share nothing, for TLC: a behaviour is one of one part,      *)
(* chosen at its beginning, and the others stand still.                    *)
(*                                                                         *)
(* The wrist of the hall calibration can leave its magnet at both ends,    *)
(* with readings on both sides of zero.  The gyro reads a rate that is     *)
(* still and one that is not.  Of two queues one stays empty, and the      *)
(* other's messages have submessages and fields that are set or not.       *)
(* Drives are to goals and through them, with one wheel standing or both   *)
(* moving, and some of those through cannot end.  The elevator's switch is *)
(* closed in two places.                                                   *)
(***************************************************************************)
EXTENDS HallCalibration, GyroReader, Logging

CONSTANTS Types  \* the message type of each queue
CONSTANTS Drives, Overshoot, Speed, Field
CONSTANTS Heights, Closed, Outputs, DriveOutputs
CONSTANTS Holds, Cubes, RumbleTicks, FlashTicks, Fast, Slow

VARIABLE part  \* which part this is a behaviour of
VARIABLES running, params, goalOf, constraints, complete, last, driveGoal, profiled, estimated,
          still
VARIABLES program, height, active, outputsOf, encoder, zeroed, sensed, told, brakes, switchedAt
VARIABLES drill, match, holds, cube, teleop, goals, active2018, lights, outputs, due, pcm, sent

proto == INSTANCE ProtoText
drive == INSTANCE DrivetrainAction
interface == INSTANCE Interfaces WITH written <- outputsOf
actuators == INSTANCE Actuators2018 WITH station <- active2018

driveVars == <<running, params, goalOf, constraints, complete, last, driveGoal, profiled,
               estimated, still>>
interfaceVars == <<program, height, active, outputsOf, encoder, zeroed, sensed, told, brakes,
                   switchedAt>>
actuatorVars == <<drill, match, holds, cube, teleop, goals, active2018, lights, outputs, due,
                  pcm, sent>>
libraryVars == <<part, vars, gyroVars, loggingVars, driveVars, interfaceVars, actuatorVars>>

\* Each part begins as it may in behaviours of its own, and in one way in others.
LibraryInit ==
  /\ part \in {"calibration", "gyro", "logger", "drive", "interface", "actuators"}
  /\ Init /\ GyroInit /\ LoggingInit /\ drive!ActionInit
  /\ interface!InterfacesInit /\ actuators!ActuatorsInit
  /\ part # "calibration" => sensor = Near - 1 /\ hall = sensor
  /\ part # "interface" => program = "c2019" /\ height = 0
  /\ part # "actuators" => drill = "climb" /\ cube

InPart(p, others) == part = p /\ UNCHANGED <<part, others>>
Calibration == InPart("calibration", <<gyroVars, loggingVars, driveVars, interfaceVars, actuatorVars>>)
Gyro == InPart("gyro", <<vars, loggingVars, driveVars, interfaceVars, actuatorVars>>)
Logger == InPart("logger", <<vars, gyroVars, driveVars, interfaceVars, actuatorVars>>)
Drive == InPart("drive", <<vars, gyroVars, loggingVars, interfaceVars, actuatorVars>>)
Interface == InPart("interface", <<vars, gyroVars, loggingVars, driveVars, actuatorVars>>)
Actuators == InPart("actuators", <<vars, gyroVars, loggingVars, driveVars, interfaceVars>>)

LibraryNext ==
  \/ Calibration /\ Next
  \/ Gyro /\ GyroNext
  \/ Logger /\ LoggingNext
  \/ Drive /\ drive!ActionNext
  \/ Interface /\ interface!InterfacesNext
  \/ Actuators /\ actuators!ActuatorsNext

\* The fairness that the parts are specified with.
LibrarySpec ==
  /\ LibraryInit /\ [][LibraryNext]_libraryVars
  /\ WF_libraryVars(Logger /\ LoggerUpdate)
  /\ WF_libraryVars(Drive /\ drive!UpdateAction) /\ WF_libraryVars(Drive /\ drive!Profile)
  /\ WF_libraryVars(Interface /\ interface!ReadSensors)
  /\ WF_libraryVars(Interface /\ interface!WriteActuators)
  /\ WF_libraryVars(Interface /\ interface!Driven /\ interface!Move)
  /\ WF_libraryVars(Actuators /\ actuators!TeleopTick)
  /\ WF_libraryVars(Actuators /\ actuators!SubsystemTick)
  /\ WF_libraryVars(Actuators /\ actuators!WriteSolenoid)
  /\ WF_libraryVars(Actuators /\ actuators!Flush)

-----------------------------------------------------------------------------
Travel == -2 .. 13

StillAndTurning == {2, 9}

Inner == <<proto!Number("id"), proto!Text("note")>>
MessageTypes == [
  goal   |-> <<proto!Text("name"), proto!Submessage("sub", Inner), proto!Number("sane"),
               proto!Submessage("other", <<proto!Text("id")>>)>>,
  status |-> <<proto!Number("val")>>]
Messages == [goal   |-> <<[name |-> "a", sub |-> [id |-> "1"]], [sane |-> "1", other |-> [id |-> "b"]]>>,
             status |-> <<>>]
StickThenHome == <<"stick", "home">>

ADrive(forward, turn, absolute, through, closed, literal) ==
  [forward |-> forward, turn |-> turn, absolute |-> absolute, through |-> through,
   closed |-> closed, literal |-> literal]
AllDrives == {ADrive(2, 0, FALSE, FALSE, TRUE, FALSE), ADrive(-3, 1, FALSE, TRUE, FALSE, FALSE),
              ADrive(3, -1, TRUE, TRUE, FALSE, TRUE), ADrive(0, 2, FALSE, FALSE, TRUE, TRUE),
              ADrive(0, -1, FALSE, FALSE, FALSE, FALSE), ADrive(2, 1, TRUE, FALSE, TRUE, FALSE),
              ADrive(1, -1, FALSE, TRUE, FALSE, FALSE), ADrive(1, 2, FALSE, TRUE, FALSE, FALSE),
              ADrive(0, 1, FALSE, TRUE, FALSE, FALSE), ADrive(2, 0, FALSE, TRUE, TRUE, FALSE)}

Talon(type, setpoint) == [type |-> type, setpoint |-> setpoint]
TwoOutputs == {[elevator |-> Talon("OPEN_LOOP", 0), wrist |-> Talon("OPEN_LOOP", 0), rest |-> "off"],
               [elevator |-> Talon("POSITION", 1), wrist |-> Talon("POSITION", 1), rest |-> "on"]}
DriveKinds == {Talon(type, 1) : type \in {"POSITION", "VELOCITY"}}

ClimbAndPickup == [climb |-> {{}, {"hook_up"}, {"hook_up", "batter_down"}},
                   pickup |-> {{}, {"request_cube"}}]
CubesMeanwhile == [climb |-> {TRUE}, pickup |-> BOOLEAN]

\* The text of a message has under each column of its header the value of the field that
\* the column names, submessages that are not set included; its JSON has the same values.
FitsHeader(type, message) ==
  LET cells == proto!Table(type, message)
  IN  /\ proto!ProtoToCsv(type, message) = cells
      /\ proto!Leaves(type, proto!ProtoToJson(type, message)) = cells

\* What is sent last to the queues gets to the disk, unless the power is cut, and what
\* proto_utils makes of every message that is there can be read by its header.
LogsReachDisk ==
  AllSent ~> LastOnDisk /\ \A q \in Queues : \A row \in RowsOnDisk(q) :
                             FitsHeader(Types[q], Sent[q][row.at + 1])

\* The properties of the parts that are instances.
DriveEnds == drive!DriveEnds
ArrivesAboveSwitch == interface!ArrivesAboveSwitch
EverythingEnds == actuators!EverythingEnds
=============================================================================
