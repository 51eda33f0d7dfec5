----------------------------- MODULE Actuators2018 -----------------------------
(***************************************************************************)
(* The 2018 robot's climber, lights and rumble from a button to a piston:  *)
(* teleop's goals, the subsystems' loop, and the CAN thread, which sends   *)
(* the solenoids that the loop has set in the meantime.                    *)
(*                                                                         *)
(* What the climber's encoder and current say is not used by anything, and *)
(* the gears and the score subsystem's actuators are left out.             *)
(***************************************************************************)
EXTENDS Integers

CONSTANTS
  Holds,        \* by drill, what the driver can hold
  Cubes,        \* and whether the robot can have a cube
  RumbleTicks,  \* kNumRumbleTicks
  FlashTicks,   \* kFlashTicks
  Fast, Slow    \* cycle periods of kBlinkHzFast and kBlinkHzSlow, in ticks

VARIABLES
  drill,      \* what the driver practises
  match,      \* the driver station: [operator, enabled]
  holds,      \* the buttons that are held
  cube,       \* the score subsystem's status: has_cube
  teleop,     \* [rumble, hadCube]
  goals,      \* the last goals: [climb, askForCube]
  station,    \* the last driver station message says active
  lights,     \* [pickup, request, hadCube]
  outputs,    \* the last output messages: [on, batter, hook, winch]
  due,        \* the solenoids that WriteActuators has yet to set
  pcm, sent   \* current_values_, and what the pneumatics were last sent

inputVars == <<drill, match, holds, cube>>
goalVars == <<teleop, goals, station>>
tickVars == <<lights, outputs>>
wireVars == <<due, pcm, sent>>
actuatorVars == <<inputVars, goalVars, tickVars, wireVars>>

ActuatorsInit ==
  /\ drill \in DOMAIN Holds /\ holds = {} /\ cube \in Cubes[drill]
  /\ match = [operator |-> FALSE, enabled |-> FALSE]
  /\ teleop = [rumble |-> 0, hadCube |-> FALSE]
  /\ goals = [climb |-> "NONE", askForCube |-> FALSE] /\ station = FALSE
  /\ lights = [pickup |-> 0, request |-> 0, hadCube |-> FALSE]
  /\ outputs = [on |-> FALSE, batter |-> FALSE, hook |-> FALSE, winch |-> FALSE]
  /\ due = {} /\ pcm = {} /\ sent = {}

-----------------------------------------------------------------------------
(* Teleop.                                                                  *)

ClimbGoal ==
  CASE {"hook_up", "batter_down"} \subseteq holds -> "CLIMBING"
    [] "hook_up" \in holds -> "APPROACHING"
    [] "batter_down" \in holds -> "BATTERING"
    [] OTHER -> "NONE"

\* Mutant: every tick with a cube is a pickup.
RumbleAlways(left) == IF cube THEN RumbleTicks - 1 ELSE IF left > 0 THEN left - 1 ELSE 0

\* The rumble is on in a tick that counts down.
Rumble(left) ==
  LET ticks == IF cube /\ ~teleop.hadCube THEN RumbleTicks ELSE left
  IN  IF ticks > 0 THEN ticks - 1 ELSE 0

\* Outside operator control the climber's last goal stays.
TeleopTick ==
  /\ teleop' = [rumble |-> Rumble(teleop.rumble), hadCube |-> cube]
  /\ goals' = [climb |-> IF match.operator THEN ClimbGoal ELSE goals.climb,
               askForCube |-> "request_cube" \in holds]
  /\ station' = match.enabled
  /\ UNCHANGED <<inputVars, tickVars, wireVars>>

-----------------------------------------------------------------------------
(* The subsystems.                                                          *)

FlashLights(period, ticks) == (ticks \div period) % 2 = 0

\* A request comes before a pickup, whose flashes wait for its end.  The count of a
\* request only matters modulo its cycle.
UpdateLights ==
  LET pickup == IF cube /\ ~lights.hadCube THEN FlashTicks ELSE lights.pickup
      request == (lights.request + 1) % (2 * Fast)
  IN  /\ lights' = [pickup |-> IF goals.askForCube \/ pickup = 0 THEN pickup ELSE pickup - 1,
                    request |-> IF goals.askForCube THEN request ELSE 0, hadCube |-> cube]
      /\ outputs'.on = IF goals.askForCube THEN FlashLights(Fast, request)
                       ELSE pickup > 0 /\ FlashLights(Slow, FlashTicks - pickup)

\* A piston of the climber is let go when the robot is disabled, and so is the winch.
UpdateClimber ==
  LET goal == IF station THEN goals.climb ELSE "NONE"
  IN  /\ outputs'.batter = (goal \in {"BATTERING", "CLIMBING"})
      /\ outputs'.hook = (goal = "APPROACHING")
      /\ outputs'.winch = (goal = "CLIMBING")

\* One cycle of the loop, up to where the actuators are written.
SubsystemTick ==
  /\ due = {} /\ due' = {"batter", "hook"}
  /\ outputs' \in [on : BOOLEAN, batter : BOOLEAN, hook : BOOLEAN, winch : BOOLEAN]
  /\ UpdateClimber /\ UpdateLights
  /\ UNCHANGED <<inputVars, goalVars, pcm, sent>>

\* One bit of current_values_, which is atomic: the others stay.
SetChannel(channel, on) == pcm' = IF on THEN pcm \cup {channel} ELSE pcm \ {channel}

\* WriteActuators: the batter is set before the hook.
WriteSolenoid ==
  /\ due # {}
  /\ LET channel == IF "batter" \in due THEN "batter" ELSE "hook"
     IN  SetChannel(channel, outputs[channel]) /\ due' = due \ {channel}
  /\ UNCHANGED <<inputVars, goalVars, tickVars, sent>>

\* The CAN thread sends what is set by now, maybe in the middle of WriteActuators.
Flush ==
  /\ sent' = pcm
  /\ UNCHANGED <<inputVars, goalVars, tickVars, due, pcm>>

-----------------------------------------------------------------------------
\* The driver, the field and the cube.
SomethingHappens ==
  /\ \/ match' \in [operator : BOOLEAN, enabled : BOOLEAN] /\ UNCHANGED <<holds, cube>>
     \/ holds' \in Holds[drill] /\ UNCHANGED <<match, cube>>
     \/ cube' \in Cubes[drill] /\ UNCHANGED <<match, holds>>
  /\ UNCHANGED <<drill, goalVars, tickVars, wireVars>>

ActuatorsNext == SomethingHappens \/ TeleopTick \/ SubsystemTick \/ WriteSolenoid \/ Flush

\* The three threads go on.
ActuatorsSpec ==
  /\ ActuatorsInit /\ [][ActuatorsNext]_actuatorVars
  /\ WF_actuatorVars(TeleopTick) /\ WF_actuatorVars(SubsystemTick)
  /\ WF_actuatorVars(WriteSolenoid) /\ WF_actuatorVars(Flush)

-----------------------------------------------------------------------------
(* Properties.                                                              *)

\* Once the driver holds nothing and the cube stays where it is, whatever was flashing,
\* rumbling or climbing ends for good, down to the pistons: on an enabled robot by the
\* goal, on a disabled one in any mode by the outputs.
EverythingEnds ==
  /\ <>[](holds = {} /\ (match.operator \/ ~match.enabled))
  /\ <>[]cube \/ <>[]~cube
  => <>[](teleop.rumble = 0 /\ ~outputs.on /\ ~outputs.winch /\ sent = {})
=============================================================================
