------------------------------- MODULE Drive --------------------------------
(***************************************************************************)
(* How Alex moves: loop(), handleCommand() and the encoder interrupts of   *)
(* Alex-a.ino with the motor routines of robotlib.ino.                     *)
(*                                                                         *)
(* The main loop reads a command, powers the motors, and from then on      *)
(* polls counters that the interrupt routines advance under its feet; the  *)
(* robot stops because a later pass of the loop notices that a counter has *)
(* reached a target computed when the command was read.  Interrupts are    *)
(* steps of their own here, and also fall inside the main loop's reads of  *)
(* multi-byte counters and between its stores.                             *)
(*                                                                         *)
(* Of the eight tick counters only the four that end a movement are kept,  *)
(* one per direction; the others are only reported.                        *)
(*                                                                         *)
(* ComputeDeltaTicksLess1, MeasureForwardOnly, StopWithoutSpeed,           *)
(* TargetFromZero and DistsForgotten are wrong on purpose: the runs must   *)
(* notice each of them in place of the definition that follows it.         *)
(***************************************************************************)
EXTENDS Integers

CONSTANTS
  Distances,    \* params[0] of the straight movements, in cm
  Angles,       \* params[0] of the turns, in degrees
  ByteBase,     \* values of a byte, 256 on the robot
  MaxCommands,  \* bound on the commands that change something
  MaxTicks      \* bound on the ticks from one movement to the next

ASSUME DriveAssumption ==
  /\ Distances \subseteq Nat /\ Angles \subseteq Nat
  /\ ByteBase \in Nat \ {0, 1}
  /\ MaxCommands \in Nat /\ MaxTicks \in Nat

VARIABLES
  pc,           \* where the main loop is
  dir,          \* TDirection
  manualMode,
  motor,        \* what the motors were last told: a Tdir
  deltaDist, newDist,
  deltaTicks, targetTicks,
  count,        \* leftForwardTicks, leftReverseTicks, leftReverseTicksTurns
                \* and rightReverseTicksTurns, by the direction they end
  dist,         \* forwardDist and reverseDist
  commands,     \* commands handled so far
  ticks,        \* history: ticks since the last movement began
  amount,       \* history: the cm or ticks it was to last
  undisturbed   \* history: nothing has touched what it is measured by

program == <<pc, dir, manualMode, motor, deltaDist, newDist,
             deltaTicks, targetTicks, count, dist>>
driveVars == <<program, commands, ticks, amount, undisturbed>>

Straight == {"FORWARD", "BACKWARD"}
Turns == {"LEFT", "RIGHT"}
Directions == Straight \cup Turns

(* TDirection and Tdir number their members alike: 1 is FORWARD and GO.    *)
MotorFor(d) ==
  CASE d = "FORWARD" -> "GO"  [] d = "BACKWARD" -> "BACK"
    [] d = "LEFT"    -> "CCW" [] d = "RIGHT"    -> "CW"

(* What left(), right(), forward() and backward() take 0 to mean.          *)
Unlimited == 9999999

(* n ticks in cm: WHEEL_CIRC / COUNTS_PER_REV is 5.3407.                   *)
Dist(n) == (n * 53407) \div 10000

(* computeDeltaTicks(): alexCirc * COUNTS_PER_REV / (360 * WHEEL_CIRC) is  *)
(* 0.048623 ticks per degree, and the conversion to an integer truncates.  *)
ComputeDeltaTicksLess1(angle) == (angle * 48623) \div 1000000 - 1
ComputeDeltaTicks(angle) == (angle * 48623) \div 1000000

DriveTypeOK ==
  /\ pc \in {"poll", "aim", "pulse", "clear", "clearDists", "tidy", "tidyDists",
             "distance", "turn"}
  /\ dir \in Directions \cup {"STOP"}
  /\ manualMode \in BOOLEAN
  /\ motor \in {"STOP", "GO", "BACK", "CCW", "CW"}
  /\ deltaDist \in Nat /\ newDist \in Nat
  /\ deltaTicks \in Nat /\ targetTicks \in Nat
  /\ count \in [Directions -> Nat]
  /\ dist \in [Straight -> Nat]
  /\ commands \in 0 .. MaxCommands
  /\ ticks \in Nat /\ amount \in Nat
  /\ undisturbed \in BOOLEAN

DriveInit ==
  /\ pc = "poll"
  /\ dir = "STOP"
  /\ manualMode = TRUE
  /\ motor = "STOP"
  /\ deltaDist = 0 /\ newDist = 0
  /\ deltaTicks = 0 /\ targetTicks = 0
  /\ count = [d \in Directions |-> 0]
  /\ dist = [d \in Straight |-> 0]
  /\ commands = 0
  /\ ticks = 0 /\ amount = 0 /\ undisturbed = FALSE

Powered == motor # "STOP"

-----------------------------------------------------------------------------
(* The encoder interrupts.                                                 *)

(* A wheel passes a magnet: driven, rolling on after a stop, or pushed.     *)
CanTick == ticks < MaxTicks

(* leftISR(), and rightISR() on a turn to the right: they go by dir, not   *)
(* by what the motors are doing.                                           *)
CountTick ==
  /\ count' = IF dir = "STOP" THEN count ELSE [count EXCEPT ![dir] = @ + 1]
  /\ dist' = IF dir \in Straight
             THEN [dist EXCEPT ![dir] = Dist(count[dir] + 1)] ELSE dist

Interrupt ==
  /\ CanTick
  /\ CountTick
  /\ ticks' = ticks + 1
  /\ UNCHANGED <<pc, dir, manualMode, motor, deltaDist, newDist, deltaTicks,
                 targetTicks, commands, amount, undisturbed>>

(* What a movement in direction d is measured by, now and after a tick.    *)
MeasureForwardOnly(d) == IF d \in Straight THEN dist["FORWARD"] ELSE count[d]
Measure(d) == IF d \in Straight THEN dist[d] ELSE count[d]
MeasureNext(d) == IF d \in Straight THEN dist'[d] ELSE count'[d]

(* A counter is read byte by byte, the low byte first.  A tick between two *)
(* of the bytes is noticed when it carries: the low byte is the old one    *)
(* and the rest are new.                                                   *)
Mixed(old, new) == ByteBase * (new \div ByteBase) + (old % ByteBase)

(* The value a read of Measure(d) gets, and the tick inside it if any.     *)
Seen(torn, d) == IF torn THEN Mixed(Measure(d), MeasureNext(d)) ELSE Measure(d)
DuringRead(torn, d) ==
  IF torn
  THEN /\ CanTick /\ CountTick
       /\ Measure(d) \div ByteBase # MeasureNext(d) \div ByteBase
  ELSE UNCHANGED <<count, dist>>

-----------------------------------------------------------------------------
(* Reading and handling one packet.                                        *)

AfterHandling(manual) == IF manual THEN "distance" ELSE "tidy"

(* stop(): the speeds are set to 0.  dir and the targets stay.             *)
StopWithoutSpeed == motor' = motor
Stop == motor' = "STOP"

(* Where a movement ends, from the reading at its start.                   *)
TargetFromZero(seen, delta) == delta
Target(seen, delta) == seen + delta

Command ==
  /\ pc = "poll"
  /\ commands < MaxCommands
  /\ commands' = commands + 1

(* No packet, a bad one, or a command that only answers.                   *)
Idle ==
  /\ pc = "poll"
  /\ pc' = AfterHandling(manualMode)
  /\ UNCHANGED <<dir, manualMode, motor, deltaDist, newDist, deltaTicks,
                 targetTicks, count, dist, commands, ticks, amount,
                 undisturbed>>

(* COMMAND_FORWARD and COMMAND_REVERSE in manual mode, up to the statement *)
(* that computes newDist.                                                  *)
StartStraight(d, cm) ==
  /\ Command
  /\ manualMode
  /\ dir' = d
  /\ deltaDist' = IF cm > 0 THEN cm ELSE Unlimited
  /\ pc' = "aim"
  /\ undisturbed' = FALSE
  /\ UNCHANGED <<manualMode, motor, newDist, deltaTicks, targetTicks, count,
                 dist, ticks, amount>>

(* newDist = forwardDist + deltaDist, and the motors start.  The distance  *)
(* is out of step with the ticks if one of them fell into clearCounters(). *)
Aim(torn) ==
  /\ pc = "aim"
  /\ DuringRead(torn, dir)
  /\ newDist' = Target(Seen(torn, dir), deltaDist)
  /\ motor' = MotorFor(dir)
  /\ pc' = "distance"
  /\ ticks' = 0
  /\ amount' = deltaDist
  /\ undisturbed' = (~torn /\ dist[dir] = Dist(count[dir]))
  /\ UNCHANGED <<dir, manualMode, deltaDist, deltaTicks, targetTicks, commands>>

(* COMMAND_TURN_LEFT and COMMAND_TURN_RIGHT.  The target is set in either  *)
(* mode.                                                                   *)
StartTurn(d, angle, torn) ==
  /\ Command
  /\ deltaTicks' = IF angle = 0 THEN Unlimited ELSE ComputeDeltaTicks(angle)
  /\ DuringRead(torn, d)
  /\ targetTicks' = Target(Seen(torn, d), deltaTicks')
  /\ dir' = d
  /\ motor' = MotorFor(d)
  /\ pc' = IF manualMode THEN "distance" ELSE "pulse"
  /\ ticks' = 0
  /\ amount' = deltaTicks'
  /\ undisturbed' = ~torn
  /\ UNCHANGED <<manualMode, deltaDist, newDist>>

(* The straight movements in teleop mode run the motors for a fixed time.  *)
PulseStraight(d) ==
  /\ Command
  /\ ~manualMode
  /\ dir' = d
  /\ motor' = MotorFor(d)
  /\ pc' = "pulse"
  /\ ticks' = 0
  /\ undisturbed' = FALSE
  /\ UNCHANGED <<manualMode, deltaDist, newDist, deltaTicks, targetTicks,
                 count, dist, amount>>

(* The delay() of a teleop movement ends.                                  *)
EndPulse ==
  /\ pc = "pulse"
  /\ Stop
  /\ pc' = "tidy"
  /\ UNCHANGED <<dir, manualMode, deltaDist, newDist, deltaTicks, targetTicks,
                 count, dist, commands, ticks, amount, undisturbed>>

CommandStop ==
  /\ Command
  /\ Stop
  /\ pc' = AfterHandling(manualMode)
  /\ UNCHANGED <<dir, manualMode, deltaDist, newDist, deltaTicks, targetTicks,
                 count, dist, ticks, amount, undisturbed>>

(* COMMAND_TOGGLE_MANUAL leaves the motors as they are.                    *)
ToggleManual ==
  /\ Command
  /\ manualMode' = ~manualMode
  /\ pc' = AfterHandling(~manualMode)
  /\ undisturbed' = FALSE
  /\ UNCHANGED <<dir, motor, deltaDist, newDist, deltaTicks, targetTicks,
                 count, dist, ticks, amount>>

CommandClearStats ==
  /\ Command
  /\ pc' = "clear"
  /\ undisturbed' = FALSE
  /\ UNCHANGED <<dir, manualMode, motor, deltaDist, newDist, deltaTicks,
                 targetTicks, count, dist, ticks, amount>>

-----------------------------------------------------------------------------
(* clearCounters(): the tick counters first, the distances last.           *)
(* COMMAND_CLEAR_STATS calls it, and so does every pass of the loop in     *)
(* teleop mode.                                                            *)
ClearTicks ==
  /\ pc \in {"clear", "tidy"}
  /\ count' = [d \in Directions |-> 0]
  /\ pc' = IF pc = "clear" THEN "clearDists" ELSE "tidyDists"
  /\ UNCHANGED <<dir, manualMode, motor, deltaDist, newDist, deltaTicks,
                 targetTicks, dist, commands, ticks, amount, undisturbed>>

DistsForgotten == dist
DistsCleared == [d \in Straight |-> 0]

ClearDists ==
  /\ pc \in {"clearDists", "tidyDists"}
  /\ dist' = DistsCleared
  /\ pc' = IF pc = "clearDists" THEN AfterHandling(manualMode) ELSE "poll"
  /\ UNCHANGED <<dir, manualMode, motor, deltaDist, newDist, deltaTicks,
                 targetTicks, count, commands, ticks, amount, undisturbed>>

-----------------------------------------------------------------------------
(* The two checks at the end of loop() in manual mode.  Their branches for *)
(* dir == STOP are never taken with a target set: stop() leaves dir alone. *)
DistanceCheck(torn) ==
  /\ pc = "distance"
  /\ deltaDist > 0 /\ dir \in Straight
  /\ DuringRead(torn, dir)
  /\ IF Seen(torn, dir) > newDist
     THEN deltaDist' = 0 /\ newDist' = 0 /\ Stop
     ELSE UNCHANGED <<deltaDist, newDist, motor>>
  /\ pc' = "turn"
  /\ ticks' = IF torn THEN ticks + 1 ELSE ticks
  /\ undisturbed' = (undisturbed /\ ~torn)
  /\ UNCHANGED <<dir, manualMode, deltaTicks, targetTicks, commands, amount>>

TurnCheck(torn) ==
  /\ pc = "turn"
  /\ deltaTicks > 0 /\ dir \in Turns
  /\ DuringRead(torn, dir)
  /\ IF Seen(torn, dir) >= targetTicks
     THEN deltaTicks' = 0 /\ targetTicks' = 0 /\ Stop
     ELSE UNCHANGED <<deltaTicks, targetTicks, motor>>
  /\ pc' = "poll"
  /\ ticks' = IF torn THEN ticks + 1 ELSE ticks
  /\ undisturbed' = (undisturbed /\ ~torn)
  /\ UNCHANGED <<dir, manualMode, deltaDist, newDist, commands, amount>>

(* No target of that kind, or the robot moves the other way.               *)
SkipDistanceCheck ==
  /\ pc = "distance"
  /\ ~(deltaDist > 0 /\ dir \in Straight)
  /\ pc' = "turn"
  /\ UNCHANGED <<dir, manualMode, motor, deltaDist, newDist, deltaTicks,
                 targetTicks, count, dist, commands, ticks, amount, undisturbed>>

SkipTurnCheck ==
  /\ pc = "turn"
  /\ ~(deltaTicks > 0 /\ dir \in Turns)
  /\ pc' = "poll"
  /\ UNCHANGED <<dir, manualMode, motor, deltaDist, newDist, deltaTicks,
                 targetTicks, count, dist, commands, ticks, amount, undisturbed>>

-----------------------------------------------------------------------------
(* The steps the processor takes whether or not a command arrives.         *)
LoopStep ==
  \/ Idle \/ EndPulse \/ ClearTicks \/ ClearDists
  \/ SkipDistanceCheck \/ SkipTurnCheck
  \/ \E torn \in BOOLEAN : Aim(torn) \/ DistanceCheck(torn) \/ TurnCheck(torn)

CommandStep ==
  \/ CommandStop \/ CommandClearStats \/ ToggleManual
  \/ \E d \in Straight :
       PulseStraight(d) \/ \E cm \in Distances : StartStraight(d, cm)
  \/ \E d \in Turns, angle \in Angles, torn \in BOOLEAN :
       StartTurn(d, angle, torn)

DriveNext == LoopStep \/ CommandStep \/ Interrupt

(* The processor keeps running, and a powered wheel keeps turning.         *)
DriveFairness ==
  /\ WF_driveVars(LoopStep)
  /\ WF_driveVars(Interrupt /\ Powered)

DriveSpec == DriveInit /\ [][DriveNext]_driveVars /\ DriveFairness

-----------------------------------------------------------------------------
(* Whatever commands came before, in whatever mode: between two commands   *)
(* in manual mode a moving robot moves the way dir says and the check for  *)
(* that direction is armed (Alex-a.ino:633-690), unless the turn asked for *)
(* was shorter than a tick.                                                *)
TerminatorArmed ==
  pc = "poll" /\ manualMode /\ Powered /\ amount > 0 =>
    /\ motor = MotorFor(dir)
    /\ dir \in Straight => deltaDist > 0
    /\ dir \in Turns => deltaTicks > 0

(* The checks of loop(), as steps.                                         *)
Checking == \/ pc = "distance" /\ pc' = "turn" /\ dir \in Straight
            \/ pc = "turn" /\ pc' = "poll" /\ dir \in Turns

(* Has the wheel turned as far as the movement was to go?  A distance is   *)
(* kept in whole cm, so near its end it may be off by one.                 *)
PastEnd == IF dir \in Straight THEN Dist(ticks) > amount ELSE ticks >= amount
AtEnd == IF dir \in Straight THEN Dist(ticks) >= amount ELSE ticks >= amount

(* The first pass of the loop that comes after the last tick of a movement *)
(* stops the motors, wherever the counters stood when it began and         *)
(* whatever the ones of the other directions say.                          *)
StopsOnTime ==
  [][ Checking /\ Powered /\ manualMode /\ undisturbed' /\ amount > 0 /\ PastEnd
      => motor' = "STOP" ]_driveVars

(* And none before it does: the targets of earlier movements, which stop() *)
(* leaves behind, and the ticks of wheels that rolled on do not count.     *)
NeverStopsEarly ==
  [][ Powered /\ undisturbed' /\ pc \in {"distance", "turn"} /\ motor' = "STOP"
      => AtEnd ]_driveVars

(* Except while they are being cleared, the distances never claim more     *)
(* than the ticks they are computed from (Alex-a.ino:271-280, 369-383),    *)
(* although a tick may fall between any two stores of clearCounters().     *)
DistanceNeverAhead ==
  pc \notin {"clearDists", "tidyDists"} =>
    \A d \in Straight : dist[d] <= Dist(count[d])

(* A movement in manual mode that is not unlimited, and not touched while  *)
(* it lasts, ends: the loop cannot miss the moment.                        *)
Underway == Powered /\ manualMode /\ undisturbed /\ amount < Unlimited
BoundedMoveStops ==
  Underway /\ amount > 0 ~> ~Powered \/ ~undisturbed \/ ~(0 < amount /\ amount < Unlimited)

(* The same of every turn by an angle, however small.                      *)
EveryTurnStops ==
  Underway /\ dir \in Turns ~> ~Powered \/ ~undisturbed \/ dir \in Straight \/ amount >= Unlimited

(* The robot moves the distance it was told to, undisturbed or not: when   *)
(* the loop has checked, a movement past its end is over.                  *)
MovesTheDistanceAsked ==
  [][ Checking /\ Powered /\ 0 < amount /\ PastEnd => motor' = "STOP" ]_driveVars

=============================================================================
