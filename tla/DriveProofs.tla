---------------------------- MODULE DriveProofs -----------------------------
(***************************************************************************)
(* Proofs about Drive, for every set of distances and angles, every width  *)
(* of a byte and every number of commands and ticks: the check that ends a *)
(* movement stays armed, and an undisturbed movement ends where it should. *)
(***************************************************************************)
EXTENDS Drive, TLAPS

USE DriveAssumption

(* Between the two halves of a straight movement its direction and its     *)
(* distance are set.                                                       *)
AimingStraight == pc = "aim" => dir \in Straight /\ deltaDist > 0

(* TerminatorArmed wherever the loop is and in either mode: it is only     *)
(* suspended while a new movement takes over from the old one and during   *)
(* the delay() of a teleop movement, which ends with the motors off.       *)
ArmedUntilStopped ==
  pc \notin {"aim", "pulse"} /\ Powered /\ amount > 0 =>
    /\ motor = MotorFor(dir)
    /\ dir \in Straight => deltaDist > 0
    /\ dir \in Turns => deltaTicks > 0

(* The inductive invariant.                                                *)
DriveIInv ==
  /\ DriveTypeOK
  /\ AimingStraight
  /\ ArmedUntilStopped
  /\ DistanceNeverAhead

-----------------------------------------------------------------------------
LEMMA DistIsNat == \A n \in Nat : Dist(n) \in Nat
  BY DEF Dist

LEMMA TicksAreNat == \A angle \in Nat : ComputeDeltaTicks(angle) \in Nat
  BY DEF ComputeDeltaTicks

(* A product of naturals, as the provers need it for Mixed.                *)
LEMMA ProductIsNat == \A m, n \in Nat : m * n \in Nat
  OBVIOUS

LEMMA MixedIsNat == \A old, new \in Nat : Mixed(old, new) \in Nat
<1> SUFFICES ASSUME NEW old \in Nat, NEW new \in Nat
             PROVE  Mixed(old, new) \in Nat
  OBVIOUS
<1>1. new \div ByteBase \in Nat /\ old % ByteBase \in Nat
  OBVIOUS
<1>2. ByteBase * (new \div ByteBase) \in Nat
  BY <1>1, ProductIsNat
<1>. QED BY <1>1, <1>2 DEF Mixed

(* A read of a counter, torn or not, leaves types intact and yields a      *)
(* number.                                                                 *)
LEMMA ReadTypes ==
  ASSUME DriveTypeOK, NEW torn \in BOOLEAN, NEW d \in Directions,
         DuringRead(torn, d)
  PROVE  /\ count' \in [Directions -> Nat]
         /\ dist' \in [Straight -> Nat]
         /\ Seen(torn, d) \in Nat
<1>1. count' \in [Directions -> Nat] /\ dist' \in [Straight -> Nat]
  <2>1. CASE torn
    <3>1. dir \in Straight => dir \in Directions
      BY DEF Directions
    <3>2. dir \in Directions => count[dir] + 1 \in Nat
      BY DEF DriveTypeOK
    <3>3. dir \in Straight => Dist(count[dir] + 1) \in Nat
      BY <3>1, <3>2, DistIsNat
    <3>. QED BY <2>1, <3>1, <3>2, <3>3 DEF DriveTypeOK, DuringRead, CountTick
  <2>2. CASE ~torn
    BY <2>2 DEF DriveTypeOK, DuringRead
  <2>. QED BY <2>1, <2>2
<1>2. Measure(d) \in Nat /\ MeasureNext(d) \in Nat
  BY <1>1 DEF DriveTypeOK, Measure, MeasureNext
<1>. QED BY <1>1, <1>2, MixedIsNat DEF Seen

LEMMA DriveInitType == DriveInit => DriveTypeOK
<1> SUFFICES ASSUME DriveInit PROVE DriveTypeOK
  OBVIOUS
<1>1. manualMode \in BOOLEAN /\ undisturbed \in BOOLEAN
  BY Zenon DEF DriveInit
<1>2. /\ count \in [Directions -> Nat] /\ dist \in [Straight -> Nat]
      /\ deltaDist \in Nat /\ newDist \in Nat
      /\ deltaTicks \in Nat /\ targetTicks \in Nat
      /\ commands \in 0 .. MaxCommands /\ ticks \in Nat /\ amount \in Nat
  BY DEF DriveInit
<1>. QED BY <1>1, <1>2 DEF DriveInit, DriveTypeOK

-----------------------------------------------------------------------------
LEMMA DriveTypeStep ==
  ASSUME DriveTypeOK, AimingStraight, [DriveNext]_driveVars
  PROVE  DriveTypeOK'
<1>. USE DEF AfterHandling, Stop, Command
<1>1. CASE Idle
  BY <1>1 DEF DriveTypeOK, Idle
<1>2. CASE EndPulse
  BY <1>2 DEF DriveTypeOK, EndPulse
<1>3. CASE ClearTicks
  BY <1>3 DEF DriveTypeOK, ClearTicks
<1>4. CASE ClearDists
  BY <1>4 DEF DriveTypeOK, ClearDists, DistsCleared
<1>5. CASE SkipDistanceCheck \/ SkipTurnCheck
  BY <1>5 DEF DriveTypeOK, SkipDistanceCheck, SkipTurnCheck
<1>6. ASSUME NEW torn \in BOOLEAN, Aim(torn) PROVE DriveTypeOK'
  <2>1. dir \in Straight /\ dir \in Directions
    BY <1>6 DEF Aim, AimingStraight, Directions
  <2>2. /\ count' \in [Directions -> Nat] /\ dist' \in [Straight -> Nat]
        /\ Seen(torn, dir) \in Nat
    BY <1>6, <2>1, ReadTypes DEF Aim
  <2>3. newDist' \in Nat
    BY <1>6, <2>2 DEF Aim, Target, DriveTypeOK
  <2>4. motor' \in {"STOP", "GO", "BACK", "CCW", "CW"}
    BY <1>6, <2>1 DEF Aim, MotorFor, Straight
  <2>5. undisturbed' \in BOOLEAN
    BY <1>6, Zenon DEF Aim
  <2>. QED BY <1>6, <2>2, <2>3, <2>4, <2>5 DEF Aim, DriveTypeOK
<1>7. ASSUME NEW torn \in BOOLEAN, DistanceCheck(torn) PROVE DriveTypeOK'
  <2>1. dir \in Directions
    BY <1>7 DEF DistanceCheck, Directions
  <2>2. count' \in [Directions -> Nat] /\ dist' \in [Straight -> Nat]
    BY <1>7, <2>1, ReadTypes DEF DistanceCheck
  <2>3. undisturbed' \in BOOLEAN
    BY <1>7, Zenon DEF DistanceCheck
  <2>4. deltaDist' \in Nat /\ newDist' \in Nat
        /\ motor' \in {"STOP", "GO", "BACK", "CCW", "CW"} /\ ticks' \in Nat
    BY <1>7 DEF DistanceCheck, DriveTypeOK
  <2>. QED BY <1>7, <2>2, <2>3, <2>4 DEF DistanceCheck, DriveTypeOK
<1>8. ASSUME NEW torn \in BOOLEAN, TurnCheck(torn) PROVE DriveTypeOK'
  <2>1. dir \in Directions
    BY <1>8 DEF TurnCheck, Directions
  <2>2. count' \in [Directions -> Nat] /\ dist' \in [Straight -> Nat]
    BY <1>8, <2>1, ReadTypes DEF TurnCheck
  <2>3. undisturbed' \in BOOLEAN
    BY <1>8, Zenon DEF TurnCheck
  <2>4. deltaTicks' \in Nat /\ targetTicks' \in Nat
        /\ motor' \in {"STOP", "GO", "BACK", "CCW", "CW"} /\ ticks' \in Nat
    BY <1>8 DEF TurnCheck, DriveTypeOK
  <2>. QED BY <1>8, <2>2, <2>3, <2>4 DEF TurnCheck, DriveTypeOK
<1>9. CASE CommandStop
  BY <1>9 DEF DriveTypeOK, CommandStop
<1>10. CASE CommandClearStats
  <2>1. undisturbed' \in BOOLEAN
    BY <1>10, Zenon DEF CommandClearStats
  <2>2. commands' \in 0 .. MaxCommands
    BY <1>10 DEF CommandClearStats, DriveTypeOK
  <2>. QED BY <1>10, <2>1, <2>2 DEF DriveTypeOK, CommandClearStats
<1>11. CASE ToggleManual
  <2>1. undisturbed' \in BOOLEAN /\ manualMode' \in BOOLEAN
    BY <1>11, Zenon DEF ToggleManual
  <2>2. commands' \in 0 .. MaxCommands /\ pc' \in {"distance", "tidy"}
    BY <1>11 DEF ToggleManual, DriveTypeOK
  <2>. QED BY <1>11, <2>1, <2>2 DEF DriveTypeOK, ToggleManual
<1>12. ASSUME NEW d \in Straight, PulseStraight(d) PROVE DriveTypeOK'
  <2>1. d \in Directions /\ MotorFor(d) \in {"STOP", "GO", "BACK", "CCW", "CW"}
    BY DEF MotorFor, Straight, Directions
  <2>2. undisturbed' \in BOOLEAN
    BY <1>12, Zenon DEF PulseStraight
  <2>. QED BY <1>12, <2>1, <2>2 DEF DriveTypeOK, PulseStraight
<1>13. ASSUME NEW d \in Straight, NEW cm \in Distances, StartStraight(d, cm)
       PROVE  DriveTypeOK'
  <2>1. d \in Directions /\ cm \in Nat /\ Unlimited \in Nat
    BY DEF Directions, Unlimited
  <2>2. undisturbed' \in BOOLEAN
    BY <1>13, Zenon DEF StartStraight
  <2>. QED BY <1>13, <2>1, <2>2 DEF DriveTypeOK, StartStraight
<1>14. ASSUME NEW d \in Turns, NEW angle \in Angles, NEW torn \in BOOLEAN,
              StartTurn(d, angle, torn)
       PROVE  DriveTypeOK'
  <2>1. /\ d \in Directions
        /\ MotorFor(d) \in {"STOP", "GO", "BACK", "CCW", "CW"}
    BY DEF MotorFor, Turns, Straight, Directions
  <2>2. /\ count' \in [Directions -> Nat] /\ dist' \in [Straight -> Nat]
        /\ Seen(torn, d) \in Nat
    BY <1>14, <2>1, ReadTypes DEF StartTurn
  <2>3. deltaTicks' \in Nat
    <3>1. angle \in Nat /\ Unlimited \in Nat
      BY DEF Unlimited
    <3>2. ComputeDeltaTicks(angle) \in Nat
      BY <3>1, TicksAreNat
    <3>. QED BY <1>14, <3>1, <3>2 DEF StartTurn
  <2>4. targetTicks' \in Nat
    BY <1>14, <2>2, <2>3 DEF StartTurn, Target
  <2>5. undisturbed' \in BOOLEAN
    BY <1>14, Zenon DEF StartTurn
  <2>. QED BY <1>14, <2>1, <2>2, <2>3, <2>4, <2>5 DEF StartTurn, DriveTypeOK
<1>15. CASE Interrupt
  <2>1. dir \in Straight => dir \in Directions
    BY DEF Directions
  <2>2. dir # "STOP" => count[dir] + 1 \in Nat
    BY DEF DriveTypeOK
  <2>3. dir \in Straight => Dist(count[dir] + 1) \in Nat
    BY <2>1, <2>2, DistIsNat DEF Straight
  <2>4. count' \in [Directions -> Nat] /\ dist' \in [Straight -> Nat]
    BY <1>15, <2>1, <2>2, <2>3 DEF Interrupt, CountTick, DriveTypeOK
  <2>. QED BY <1>15, <2>4 DEF Interrupt, DriveTypeOK
<1>16. CASE UNCHANGED driveVars
  BY <1>16 DEF driveVars, program, DriveTypeOK
<1>. QED BY <1>1, <1>2, <1>3, <1>4, <1>5, <1>6, <1>7, <1>8, <1>9, <1>10, <1>11,
            <1>12, <1>13, <1>14, <1>15, <1>16
     DEF DriveNext, LoopStep, CommandStep

(* No step leaves a straight movement half begun.                          *)
LEMMA AimingStep ==
  ASSUME DriveTypeOK, AimingStraight, [DriveNext]_driveVars
  PROVE  AimingStraight'
<1>1. ASSUME NEW d \in Straight, NEW cm \in Distances, StartStraight(d, cm)
      PROVE  AimingStraight'
  <2>1. cm \in Nat
    OBVIOUS
  <2>. QED BY <1>1, <2>1 DEF StartStraight, AimingStraight, Unlimited
<1>2. ASSUME NEW d \in Turns, NEW angle \in Angles, NEW torn \in BOOLEAN,
             StartTurn(d, angle, torn)
      PROVE  AimingStraight'
  BY <1>2 DEF StartTurn, AimingStraight
<1>3. ASSUME NEW d \in Straight, PulseStraight(d) PROVE AimingStraight'
  BY <1>3 DEF PulseStraight, AimingStraight
<1>4. CASE CommandStop \/ CommandClearStats \/ ToggleManual
  BY <1>4 DEF CommandStop, CommandClearStats, ToggleManual, AfterHandling,
              AimingStraight
<1>5. CASE LoopStep
  BY <1>5 DEF LoopStep, Idle, EndPulse, ClearTicks, ClearDists,
              SkipDistanceCheck, SkipTurnCheck, Aim, DistanceCheck, TurnCheck,
              AfterHandling, AimingStraight
<1>6. CASE Interrupt
  BY <1>6 DEF Interrupt, AimingStraight
<1>7. CASE UNCHANGED driveVars
  BY <1>7 DEF driveVars, program, AimingStraight
<1>. QED BY <1>1, <1>2, <1>3, <1>4, <1>5, <1>6, <1>7 DEF DriveNext, CommandStep

(* Every step that powers the motors arms the check of its direction, and  *)
(* every step that disarms it stops the motors.                            *)
LEMMA ArmedStep ==
  ASSUME DriveTypeOK, AimingStraight, ArmedUntilStopped, [DriveNext]_driveVars
  PROVE  ArmedUntilStopped'
<1>. USE DEF ArmedUntilStopped, Powered
<1>1. ASSUME NEW d \in Straight, NEW cm \in Distances, StartStraight(d, cm)
      PROVE  ArmedUntilStopped'
  BY <1>1 DEF StartStraight
<1>2. ASSUME NEW d \in Turns, NEW angle \in Angles, NEW torn \in BOOLEAN,
             StartTurn(d, angle, torn)
      PROVE  ArmedUntilStopped'
  <2>1. d \notin Straight
    BY DEF Straight, Turns
  <2>2. dir' = d /\ motor' = MotorFor(d) /\ amount' = deltaTicks'
    BY <1>2 DEF StartTurn
  <2>. QED BY <2>1, <2>2 DEF MotorFor
<1>3. ASSUME NEW d \in Straight, PulseStraight(d) PROVE ArmedUntilStopped'
  BY <1>3 DEF PulseStraight
<1>4. CASE CommandStop \/ EndPulse
  BY <1>4 DEF CommandStop, EndPulse, Stop
<1>5. CASE CommandClearStats \/ ToggleManual \/ Idle
  BY <1>5 DEF CommandClearStats, ToggleManual, Idle, Command, MotorFor
<1>6. CASE ClearTicks \/ ClearDists \/ SkipDistanceCheck \/ SkipTurnCheck
  BY <1>6 DEF ClearTicks, ClearDists, SkipDistanceCheck, SkipTurnCheck, MotorFor
<1>7. ASSUME NEW torn \in BOOLEAN, Aim(torn) PROVE ArmedUntilStopped'
  <2>1. /\ dir \in Straight /\ deltaDist > 0
        /\ dir' = dir /\ deltaDist' = deltaDist /\ motor' = MotorFor(dir)
    BY <1>7 DEF Aim, AimingStraight
  <2>2. dir \notin Turns
    BY <2>1 DEF Straight, Turns
  <2>. QED BY <2>1, <2>2 DEF MotorFor
<1>8. ASSUME NEW torn \in BOOLEAN, DistanceCheck(torn) PROVE ArmedUntilStopped'
  BY <1>8 DEF DistanceCheck, Stop, MotorFor
<1>9. ASSUME NEW torn \in BOOLEAN, TurnCheck(torn) PROVE ArmedUntilStopped'
  BY <1>9 DEF TurnCheck, Stop, MotorFor
<1>10. CASE Interrupt
  BY <1>10 DEF Interrupt, MotorFor
<1>11. CASE UNCHANGED driveVars
  BY <1>11 DEF driveVars, program, MotorFor
<1>. QED BY <1>1, <1>2, <1>3, <1>4, <1>5, <1>6, <1>7, <1>8, <1>9, <1>10, <1>11
     DEF DriveNext, LoopStep, CommandStep

(* A tick recomputes the distance from the ticks; only clearing takes the  *)
(* ticks back, and the distances follow before the loop goes on.           *)
LEMMA TickKeepsDistance ==
  ASSUME DriveTypeOK, CountTick,
         \A d \in Straight : dist[d] <= Dist(count[d])
  PROVE  \A d \in Straight : dist'[d] <= Dist(count'[d])
<1> SUFFICES ASSUME NEW d \in Straight PROVE dist'[d] <= Dist(count'[d])
  OBVIOUS
<1>1. d \in Directions
  BY DEF Directions
<1>2. CASE dir = d
  <2>1. dist'[d] = Dist(count[d] + 1) /\ count'[d] = count[d] + 1
    BY <1>1, <1>2 DEF CountTick, DriveTypeOK, Straight
  <2>2. Dist(count[d] + 1) \in Nat
    BY <1>1, DistIsNat DEF DriveTypeOK
  <2>. QED BY <2>1, <2>2
<1>3. CASE dir # d
  BY <1>1, <1>3 DEF CountTick, DriveTypeOK
<1>. QED BY <1>2, <1>3

LEMMA DistanceStep ==
  ASSUME DriveTypeOK, DistanceNeverAhead, [DriveNext]_driveVars
  PROVE  DistanceNeverAhead'
<1>. USE DEF DistanceNeverAhead
<1>1. CASE ClearTicks
  BY <1>1 DEF ClearTicks
<1>2. CASE ClearDists
  <2>1. ASSUME NEW d \in Straight PROVE dist'[d] <= Dist(count'[d])
    <3>1. dist'[d] = 0 /\ count'[d] = count[d] /\ count[d] \in Nat
      BY <1>2 DEF ClearDists, DistsCleared, DriveTypeOK, Directions
    <3>2. Dist(count[d]) \in Nat
      BY <3>1, DistIsNat
    <3>. QED BY <3>1, <3>2
  <2>. QED BY <2>1
<1>3. CASE Interrupt
  <2>1. CountTick /\ pc' = pc
    BY <1>3 DEF Interrupt
  <2>. QED BY <2>1, TickKeepsDistance
<1>4. ASSUME NEW torn \in BOOLEAN, NEW d \in Directions, DuringRead(torn, d),
             pc \notin {"clearDists", "tidyDists"}
      PROVE  DistanceNeverAhead'
  <2>1. CASE torn
    <3>1. CountTick
      BY <1>4, <2>1 DEF DuringRead
    <3>. QED BY <1>4, <3>1, TickKeepsDistance
  <2>2. CASE ~torn
    BY <1>4, <2>2 DEF DuringRead
  <2>. QED BY <2>1, <2>2
<1>5. CASE UNCHANGED <<count, dist>> /\ pc \notin {"clearDists", "tidyDists"}
  BY <1>5
<1>6. CASE UNCHANGED driveVars
  BY <1>6 DEF driveVars, program
<1>7. ASSUME NEW torn \in BOOLEAN, Aim(torn) \/ DistanceCheck(torn) \/ TurnCheck(torn)
      PROVE  DistanceNeverAhead'
  <2>1. pc \notin {"clearDists", "tidyDists"} /\ DuringRead(torn, dir)
    BY <1>7 DEF Aim, DistanceCheck, TurnCheck
  <2>2. CASE dir \in Directions
    BY <1>4, <2>1, <2>2
  <2>3. CASE dir \notin Directions
    <3>1. dir = "STOP"
      BY <2>3 DEF DriveTypeOK
    <3>2. UNCHANGED <<count, dist>>
      BY <2>1, <3>1 DEF DuringRead, CountTick, Straight
    <3>. QED BY <1>5, <2>1, <3>2
  <2>. QED BY <2>2, <2>3
<1>8. ASSUME NEW d \in Turns, NEW angle \in Angles, NEW torn \in BOOLEAN,
             StartTurn(d, angle, torn)
      PROVE  DistanceNeverAhead'
  <2>1. /\ pc \notin {"clearDists", "tidyDists"}
        /\ DuringRead(torn, d) /\ d \in Directions
    BY <1>8 DEF StartTurn, Command, Directions
  <2>. QED BY <1>4, <2>1
<1>9. CASE Idle \/ EndPulse \/ SkipDistanceCheck \/ SkipTurnCheck
  BY <1>5, <1>9 DEF Idle, EndPulse, SkipDistanceCheck, SkipTurnCheck
<1>10. CASE CommandStop \/ CommandClearStats \/ ToggleManual
  BY <1>5, <1>10 DEF CommandStop, CommandClearStats, ToggleManual, Command
<1>11. ASSUME NEW d \in Straight,
              PulseStraight(d) \/ \E cm \in Distances : StartStraight(d, cm)
       PROVE  DistanceNeverAhead'
  BY <1>5, <1>11 DEF PulseStraight, StartStraight, Command
<1>. QED BY <1>1, <1>2, <1>3, <1>6, <1>7, <1>8, <1>9, <1>10, <1>11
     DEF DriveNext, LoopStep, CommandStep

-----------------------------------------------------------------------------
LEMMA DriveInvariant == DriveSpec => []DriveIInv
<1>1. DriveInit => DriveIInv
  <2> SUFFICES ASSUME DriveInit PROVE DriveIInv
    OBVIOUS
  <2>1. DriveTypeOK
    BY DriveInitType
  <2>2. AimingStraight /\ ArmedUntilStopped
    BY DEF DriveInit, AimingStraight, ArmedUntilStopped, Powered
  <2>3. DistanceNeverAhead
    <3>1. ASSUME NEW d \in Straight PROVE dist[d] <= Dist(count[d])
      <4>1. dist[d] = 0 /\ count[d] = 0
        BY DEF DriveInit, Directions
      <4>2. Dist(0) \in Nat
        BY DistIsNat
      <4>. QED BY <4>1, <4>2
    <3>. QED BY <3>1 DEF DistanceNeverAhead
  <2>. QED BY <2>1, <2>2, <2>3 DEF DriveIInv
<1>2. DriveIInv /\ [DriveNext]_driveVars => DriveIInv'
  BY DriveTypeStep, AimingStep, ArmedStep, DistanceStep DEF DriveIInv
<1>. QED BY <1>1, <1>2, PTL DEF DriveSpec

(* The state of the drive keeps its types, a torn read of a counter        *)
(* included.                                                               *)
THEOREM DriveTypeCorrect == DriveSpec => []DriveTypeOK
<1>1. DriveIInv => DriveTypeOK
  BY DEF DriveIInv
<1>. QED BY <1>1, DriveInvariant, PTL

(* Whatever commands came before, a robot that moves in manual mode has    *)
(* the check that ends its movement armed.                                 *)
THEOREM MovingMeansArmed == DriveSpec => []TerminatorArmed
<1>1. DriveIInv => TerminatorArmed
  BY DEF DriveIInv, ArmedUntilStopped, TerminatorArmed
<1>. QED BY <1>1, DriveInvariant, PTL

(* The distances never overstate the ticks, whatever ticks fall into       *)
(* clearCounters().                                                        *)
THEOREM DistanceIsBehindTicks == DriveSpec => []DistanceNeverAhead
<1>1. DriveIInv => DistanceNeverAhead
  BY DEF DriveIInv
<1>. QED BY <1>1, DriveInvariant, PTL


-----------------------------------------------------------------------------
(* Movements that nothing disturbs.                                        *)

(* A movement in teleop mode is over when the loop comes round; the checks *)
(* at its end are made in manual mode only.                                *)
ModeOfPlace ==
  /\ pc \in {"aim", "distance", "turn"} => manualMode
  /\ pc \in {"pulse", "tidy", "tidyDists"} => ~manualMode

(* While a movement lasts in manual mode and nothing has disturbed it, the *)
(* target is as far from the counter as the movement has left to go.       *)
Undisturbed == Powered /\ undisturbed /\ manualMode
Straightened ==
  /\ dist[dir] = Dist(count[dir]) /\ deltaDist = amount
  /\ newDist = Dist(count[dir] - ticks) + amount
Turned ==
  deltaTicks = amount /\ targetTicks = (count[dir] - ticks) + amount
Measured ==
  Undisturbed =>
    /\ pc \in {"poll", "distance", "turn"}
    /\ dir \in Directions /\ ticks <= count[dir]
    /\ dir \in Straight => Straightened
    /\ dir \in Turns => Turned

(* Whole cm are lost at most once between two readings.                    *)
LEMMA DistOfSum ==
  ASSUME NEW m \in Nat, NEW n \in Nat
  PROVE  Dist(m + n) \in Dist(m) + Dist(n) .. Dist(m) + Dist(n) + 1
BY DEF Dist

LEMMA ModeOfPlaceStep ==
  ASSUME DriveTypeOK, ModeOfPlace, [DriveNext]_driveVars
  PROVE  ModeOfPlace'
<1>. USE DEF ModeOfPlace, AfterHandling
<1>1. CASE LoopStep
  BY <1>1 DEF LoopStep, Idle, EndPulse, ClearTicks, ClearDists, SkipDistanceCheck,
              SkipTurnCheck, Aim, DistanceCheck, TurnCheck
<1>2. CASE CommandStop \/ CommandClearStats
  BY <1>2 DEF CommandStop, CommandClearStats
<1>3. CASE ToggleManual
  <2>1. manualMode' = ~manualMode /\ pc' = IF ~manualMode THEN "distance" ELSE "tidy"
    BY <1>3 DEF ToggleManual
  <2>. QED BY <2>1
<1>4. ASSUME NEW d \in Straight, PulseStraight(d) PROVE ModeOfPlace'
  BY <1>4 DEF PulseStraight
<1>5. ASSUME NEW d \in Straight, NEW cm \in Distances, StartStraight(d, cm)
      PROVE  ModeOfPlace'
  BY <1>5 DEF StartStraight
<1>6. ASSUME NEW d \in Turns, NEW angle \in Angles, NEW torn \in BOOLEAN,
             StartTurn(d, angle, torn)
      PROVE  ModeOfPlace'
  BY <1>6 DEF StartTurn
<1>7. CASE Interrupt
  BY <1>7 DEF Interrupt
<1>8. CASE UNCHANGED driveVars
  BY <1>8 DEF driveVars, program
<1>. QED BY <1>1, <1>2, <1>3, <1>4, <1>5, <1>6, <1>7, <1>8 DEF DriveNext, CommandStep

(* A tick brings the counter, and the end of the movement, one nearer.     *)
LEMMA TickIsMeasured ==
  ASSUME DriveTypeOK, Measured, Interrupt
  PROVE  Measured'
<1>. SUFFICES ASSUME Undisturbed'
     PROVE  /\ pc' \in {"poll", "distance", "turn"}
            /\ dir' \in Directions /\ ticks' <= count'[dir']
            /\ dir' \in Straight => Straightened'
            /\ dir' \in Turns => Turned'
  BY DEF Measured
<1>1. /\ CountTick /\ ticks' = ticks + 1
      /\ UNCHANGED <<pc, dir, manualMode, motor, deltaDist, newDist, deltaTicks,
                     targetTicks, amount, undisturbed>>
  BY DEF Interrupt
<1>2. Undisturbed
  BY <1>1 DEF Undisturbed, Powered
<1>3. /\ pc \in {"poll", "distance", "turn"}
      /\ dir \in Directions /\ ticks <= count[dir]
      /\ dir \in Straight => Straightened
      /\ dir \in Turns => Turned
  BY <1>2 DEF Measured
<1>4. count[dir] \in Nat /\ ticks \in Nat /\ dir # "STOP"
  BY <1>3 DEF DriveTypeOK, Directions, Straight, Turns
<1>5. count'[dir] = count[dir] + 1
  BY <1>1, <1>3, <1>4 DEF CountTick, DriveTypeOK
<1>6. dir \in Straight => dist'[dir] = Dist(count[dir] + 1)
  BY <1>1 DEF CountTick, DriveTypeOK
<1>7. count'[dir] - ticks' = count[dir] - ticks /\ ticks' <= count'[dir]
  BY <1>1, <1>3, <1>4, <1>5
<1>8. dir \in Straight => Straightened'
  BY <1>1, <1>3, <1>5, <1>6, <1>7 DEF Straightened
<1>9. dir \in Turns => Turned'
  BY <1>1, <1>3, <1>7 DEF Turned
<1>. QED BY <1>1, <1>3, <1>7, <1>8, <1>9

(* A read without a tick in it gets what is there.                         *)
LEMMA WholeRead ==
  ASSUME NEW d, DuringRead(FALSE, d)
  PROVE  count' = count /\ dist' = dist /\ Seen(FALSE, d) = Measure(d)
BY DEF DuringRead, Seen

LEMMA MeasuredStep ==
  ASSUME DriveTypeOK, AimingStraight, ModeOfPlace, Measured, [DriveNext]_driveVars
  PROVE  Measured'
<1>1. CASE /\ UNCHANGED <<dir, manualMode, deltaDist, newDist, deltaTicks, targetTicks,
                          count, dist, ticks, amount>>
           /\ (Powered /\ undisturbed)' => Powered /\ undisturbed
           /\ pc' \in {"poll", "distance", "turn"} \/ ~undisturbed' \/ ~Powered'
              \/ ~manualMode
  BY <1>1 DEF Measured, Undisturbed, Straightened, Turned
<1>2. CASE ~Undisturbed'
  BY <1>2 DEF Measured
<1>3. CASE Idle
  BY <1>1, <1>3 DEF Idle, AfterHandling, Powered
<1>4. CASE EndPulse \/ CommandStop
  BY <1>2, <1>4 DEF EndPulse, CommandStop, Stop, Undisturbed, Powered
<1>5. CASE ClearTicks \/ ClearDists
  <2>1. ~Undisturbed
    BY <1>5 DEF ClearTicks, ClearDists, Measured, ModeOfPlace, Undisturbed
  <2>2. Undisturbed' = Undisturbed
    BY <1>5 DEF ClearTicks, ClearDists, Undisturbed, Powered
  <2>. QED BY <1>2, <2>1, <2>2
<1>6. CASE SkipDistanceCheck \/ SkipTurnCheck
  BY <1>1, <1>6 DEF SkipDistanceCheck, SkipTurnCheck, Powered
<1>7. ASSUME NEW torn \in BOOLEAN, Aim(torn) PROVE Measured'
  <2>1. CASE torn
    <3>1. undisturbed' = (~torn /\ dist[dir] = Dist(count[dir]))
      BY <1>7 DEF Aim
    <3>2. ~undisturbed'
      BY <2>1, <3>1, Zenon
    <3>. QED BY <1>2, <3>2 DEF Undisturbed
  <2>2. CASE ~torn
    <3>1. /\ dir \in Straight /\ dir' = dir /\ dir \in Directions /\ dir \notin Turns
          /\ pc' = "distance" /\ ticks' = 0 /\ amount' = deltaDist
          /\ deltaDist' = deltaDist /\ newDist' = Seen(FALSE, dir) + deltaDist
          /\ DuringRead(FALSE, dir)
          /\ undisturbed' = (dist[dir] = Dist(count[dir]))
      <4>1. torn = FALSE
        BY <2>2
      <4>2. dir \in Straight /\ dir \in Directions /\ dir \notin Turns
        BY <1>7 DEF Aim, AimingStraight, Directions, Straight, Turns
      <4>3. undisturbed' = (dist[dir] = Dist(count[dir]))
        BY <1>7, <4>1, Zenon DEF Aim
      <4>. QED BY <1>7, <4>1, <4>2, <4>3 DEF Aim, Target
    <3>2. count' = count /\ dist' = dist /\ Seen(FALSE, dir) = dist[dir]
      BY <3>1, WholeRead DEF Measure
    <3>3. CASE undisturbed'
      <4>1. dist[dir] = Dist(count[dir])
        BY <3>1, <3>3
      <4>2. count[dir] \in Nat
        BY <3>1 DEF DriveTypeOK
      <4>3. count'[dir'] - ticks' = count[dir] /\ ticks' <= count'[dir']
        BY <3>1, <3>2, <4>2
      <4>4. Straightened'
        BY <3>1, <3>2, <4>1, <4>3 DEF Straightened
      <4>. QED BY <3>1, <4>3, <4>4 DEF Measured
    <3>4. CASE ~undisturbed'
      BY <1>2, <3>4 DEF Undisturbed
    <3>. QED BY <3>3, <3>4
  <2>. QED BY <2>1, <2>2
<1>8. ASSUME NEW torn \in BOOLEAN, DistanceCheck(torn) \/ TurnCheck(torn)
      PROVE  Measured'
  <2>1. undisturbed' = (undisturbed /\ ~torn)
    BY <1>8 DEF DistanceCheck, TurnCheck
  <2>2. CASE torn \/ ~undisturbed
    <3>1. ~undisturbed'
      BY <2>1, <2>2, Zenon
    <3>. QED BY <1>2, <3>1 DEF Undisturbed
  <2>3. CASE ~torn /\ undisturbed
    <3>1. torn = FALSE /\ count' = count /\ dist' = dist
      BY <1>8, <2>3, WholeRead DEF DistanceCheck, TurnCheck, DuringRead
    <3>2. CASE Powered'
      BY <1>1, <1>8, <2>3, <3>1, <3>2
         DEF DistanceCheck, TurnCheck, Stop, Powered
    <3>3. CASE ~Powered'
      BY <1>2, <3>3 DEF Undisturbed
    <3>. QED BY <3>2, <3>3
  <2>. QED BY <2>2, <2>3
<1>9. CASE CommandClearStats \/ ToggleManual
  <2>1. ~undisturbed'
    BY <1>9 DEF CommandClearStats, ToggleManual
  <2>. QED BY <1>2, <2>1 DEF Undisturbed
<1>10. ASSUME NEW d \in Straight,
              PulseStraight(d) \/ \E cm \in Distances : StartStraight(d, cm)
       PROVE  Measured'
  <2>1. ~undisturbed'
    BY <1>10 DEF PulseStraight, StartStraight
  <2>. QED BY <1>2, <2>1 DEF Undisturbed
<1>11. ASSUME NEW d \in Turns, NEW angle \in Angles, NEW torn \in BOOLEAN,
              StartTurn(d, angle, torn)
       PROVE  Measured'
  <2>1. undisturbed' = ~torn
    BY <1>11 DEF StartTurn
  <2>2. CASE torn
    <3>1. ~undisturbed'
      BY <2>1, <2>2, Zenon
    <3>. QED BY <1>2, <3>1 DEF Undisturbed
  <2>3. CASE ~torn /\ manualMode
    <3>1. torn = FALSE /\ d \in Directions /\ d \notin Straight
      BY <2>3 DEF Directions, Straight, Turns
    <3>2. /\ dir' = d /\ pc' = "distance" /\ ticks' = 0 /\ amount' = deltaTicks'
          /\ DuringRead(FALSE, d) /\ targetTicks' = Seen(FALSE, d) + deltaTicks'
      BY <1>11, <2>3, <3>1 DEF StartTurn, Target
    <3>3. count' = count /\ Seen(FALSE, d) = count[d]
      BY <3>1, <3>2, WholeRead DEF Measure
    <3>4. count[d] \in Nat
      BY <3>1 DEF DriveTypeOK
    <3>5. count'[dir'] - ticks' = count[d] /\ ticks' <= count'[dir']
      BY <3>2, <3>3, <3>4
    <3>6. Turned'
      BY <3>2, <3>3, <3>5 DEF Turned
    <3>. QED BY <3>1, <3>2, <3>5, <3>6 DEF Measured
  <2>4. CASE ~manualMode
    BY <1>2, <1>11, <2>4 DEF StartTurn, Undisturbed
  <2>. QED BY <2>2, <2>3, <2>4
<1>12. CASE Interrupt
  BY <1>12, TickIsMeasured
<1>13. CASE UNCHANGED driveVars
  BY <1>13 DEF driveVars, program, Measured, Undisturbed, Powered, Straightened, Turned
<1>. QED BY <1>3, <1>4, <1>5, <1>6, <1>7, <1>8, <1>9, <1>10, <1>11, <1>12, <1>13
     DEF DriveNext, LoopStep, CommandStep

MoveIInv == DriveIInv /\ ModeOfPlace /\ Measured

LEMMA MoveInvariant == DriveSpec => []MoveIInv
<1>1. DriveInit => ModeOfPlace /\ Measured
  BY DEF DriveInit, ModeOfPlace, Measured, Undisturbed, Powered
<1>2. DriveIInv /\ ModeOfPlace /\ Measured /\ [DriveNext]_driveVars
        => (ModeOfPlace /\ Measured)'
  BY ModeOfPlaceStep, MeasuredStep DEF DriveIInv
<1>. QED BY DriveInvariant, <1>1, <1>2, PTL DEF DriveSpec, MoveIInv

(* What the check of a direction sees of an undisturbed movement, and what *)
(* it makes of it.                                                         *)
LEMMA CheckOfStraight ==
  ASSUME MoveIInv, Powered, undisturbed', pc = "distance", dir \in Straight,
         NEW torn \in BOOLEAN, DistanceCheck(torn)
  PROVE  /\ motor' = "STOP" => Dist(ticks) >= amount
         /\ Dist(ticks) > amount => motor' = "STOP"
<1>1. undisturbed /\ ~torn
  <2>1. undisturbed' = (undisturbed /\ ~torn)
    BY DEF DistanceCheck
  <2>. QED BY <2>1, Zenon
<1>2. manualMode /\ DriveTypeOK
  BY DEF MoveIInv, ModeOfPlace, DriveIInv
<1>3. dir \in Directions /\ ticks <= count[dir] /\ Straightened
  BY <1>1, <1>2 DEF MoveIInv, Measured, Undisturbed
<1>4. torn = FALSE /\ Seen(FALSE, dir) = dist[dir]
  BY <1>1 DEF DistanceCheck, Seen, Measure
<1>5. motor' = IF dist[dir] > newDist THEN "STOP" ELSE motor
  BY <1>4 DEF DistanceCheck, Stop
<1>6. ticks \in Nat /\ count[dir] \in Nat /\ amount \in Nat /\ count[dir] - ticks \in Nat
  BY <1>2, <1>3 DEF DriveTypeOK
<1>7. Dist(count[dir]) \in Dist(count[dir] - ticks) + Dist(ticks) ..
                           Dist(count[dir] - ticks) + Dist(ticks) + 1
  <2>1. (count[dir] - ticks) + ticks = count[dir]
    BY <1>6
  <2>. QED BY <1>6, <2>1, DistOfSum
<1>8. dist[dir] = Dist(count[dir]) /\ newDist = Dist(count[dir] - ticks) + amount
  BY <1>3 DEF Straightened
<1>. DEFINE a == Dist(count[dir] - ticks)  b == Dist(ticks)  c == Dist(count[dir])
<1>9. a \in Nat /\ b \in Nat /\ c \in Nat /\ c >= a + b /\ c <= a + b + 1
      /\ (motor' = "STOP" <=> c > a + amount)
  BY <1>5, <1>6, <1>7, <1>8, DistIsNat DEF Powered
<1>. HIDE DEF a, b, c
<1>10. (motor' = "STOP" => b >= amount) /\ (b > amount => motor' = "STOP")
  BY <1>6, <1>9
<1>. QED BY <1>10 DEF b

LEMMA CheckOfTurn ==
  ASSUME MoveIInv, Powered, undisturbed', pc = "turn", dir \in Turns,
         NEW torn \in BOOLEAN, TurnCheck(torn)
  PROVE  motor' = "STOP" <=> ticks >= amount
<1>1. undisturbed /\ ~torn
  <2>1. undisturbed' = (undisturbed /\ ~torn)
    BY DEF TurnCheck
  <2>. QED BY <2>1, Zenon
<1>2. manualMode /\ DriveTypeOK /\ dir \notin Straight
  BY DEF MoveIInv, ModeOfPlace, DriveIInv, Straight, Turns
<1>3. dir \in Directions /\ ticks <= count[dir] /\ Turned
  BY <1>1, <1>2 DEF MoveIInv, Measured, Undisturbed
<1>4. torn = FALSE /\ Seen(FALSE, dir) = count[dir]
  BY <1>1, <1>2 DEF TurnCheck, Seen, Measure
<1>5. motor' = IF count[dir] >= targetTicks THEN "STOP" ELSE motor
  BY <1>4 DEF TurnCheck, Stop
<1>6. ticks \in Nat /\ count[dir] \in Nat /\ amount \in Nat
  BY <1>2, <1>3 DEF DriveTypeOK
<1>7. count[dir] >= targetTicks <=> ticks >= amount
  BY <1>3, <1>6 DEF Turned
<1>. QED BY <1>5, <1>7 DEF Powered

(* An undisturbed movement is over when the loop has checked it past its   *)
(* end, for every distance and angle and wherever the counters began.      *)
THEOREM UndisturbedMovesEnd == DriveSpec => StopsOnTime
<1>. DEFINE Ends == Checking /\ Powered /\ manualMode /\ undisturbed' /\ amount > 0
                    /\ PastEnd => motor' = "STOP"
<1>1. MoveIInv /\ [DriveNext]_driveVars => [Ends]_driveVars
  <2>. SUFFICES ASSUME MoveIInv, DriveNext, Checking, Powered, manualMode,
                       undisturbed', amount > 0, PastEnd
                PROVE  motor' = "STOP"
    OBVIOUS
  <2>1. Straight \cap Turns = {}
    BY DEF Straight, Turns
  <2>2. CASE pc = "distance" /\ pc' = "turn" /\ dir \in Straight
    <3>1. (\E torn \in BOOLEAN : DistanceCheck(torn)) \/ SkipDistanceCheck
      BY <2>2 DEF DriveNext, LoopStep, CommandStep, Idle, EndPulse, ClearTicks,
                  ClearDists, SkipTurnCheck, Aim, TurnCheck, Command, CommandStop,
                  CommandClearStats, ToggleManual, PulseStraight, StartStraight,
                  StartTurn, Interrupt
    <3>2. ~SkipDistanceCheck
      <4>1. ASSUME SkipDistanceCheck PROVE FALSE
        <5>1. undisturbed
          BY <4>1 DEF SkipDistanceCheck
        <5>2. deltaDist = amount
          BY <2>2, <5>1 DEF MoveIInv, Measured, Undisturbed, Straightened
        <5>. QED BY <2>2, <4>1, <5>2 DEF SkipDistanceCheck
      <4>. QED BY <4>1
    <3>3. Dist(ticks) > amount
      BY <2>2 DEF PastEnd
    <3>. QED BY <2>2, <3>1, <3>2, <3>3, CheckOfStraight
  <2>3. CASE pc = "turn" /\ pc' = "poll" /\ dir \in Turns
    <3>1. (\E torn \in BOOLEAN : TurnCheck(torn)) \/ SkipTurnCheck
      BY <2>3 DEF DriveNext, LoopStep, CommandStep, Idle, EndPulse, ClearTicks,
                  ClearDists, SkipDistanceCheck, Aim, DistanceCheck, Command,
                  CommandStop, CommandClearStats, ToggleManual, PulseStraight,
                  StartStraight, StartTurn, Interrupt
    <3>2. ~SkipTurnCheck
      <4>1. ASSUME SkipTurnCheck PROVE FALSE
        <5>1. undisturbed
          BY <4>1 DEF SkipTurnCheck
        <5>2. deltaTicks = amount
          BY <2>3, <5>1 DEF MoveIInv, Measured, Undisturbed, Turned
        <5>. QED BY <2>3, <4>1, <5>2 DEF SkipTurnCheck
      <4>. QED BY <4>1
    <3>3. ticks >= amount
      BY <2>1, <2>3 DEF PastEnd
    <3>. QED BY <2>3, <3>1, <3>2, <3>3, CheckOfTurn
  <2>. QED BY <2>2, <2>3 DEF Checking
<1>. QED BY MoveInvariant, <1>1, PTL DEF DriveSpec, StopsOnTime

(* No check stops an undisturbed movement before its end: not for a target *)
(* or a tick of an earlier one.                                            *)
THEOREM NoMoveIsCutShort == DriveSpec => NeverStopsEarly
<1>. DEFINE Late == Powered /\ undisturbed' /\ pc \in {"distance", "turn"}
                    /\ motor' = "STOP" => AtEnd
<1>1. MoveIInv /\ [DriveNext]_driveVars => [Late]_driveVars
  <2>. SUFFICES ASSUME MoveIInv, DriveNext, Powered, undisturbed',
                       pc \in {"distance", "turn"}, motor' = "STOP"
                PROVE  AtEnd
    OBVIOUS
  <2>1. motor # "STOP" /\ motor' # motor
    BY DEF Powered
  <2>2. \E torn \in BOOLEAN : DistanceCheck(torn) \/ TurnCheck(torn)
    BY <2>1 DEF DriveNext, LoopStep, CommandStep, Idle, EndPulse, ClearTicks,
                ClearDists, SkipDistanceCheck, SkipTurnCheck, Aim, Command,
                CommandStop, CommandClearStats, ToggleManual, PulseStraight,
                StartStraight, StartTurn, Interrupt
  <2>3. PICK torn \in BOOLEAN : DistanceCheck(torn) \/ TurnCheck(torn)
    BY <2>2
  <2>4. CASE DistanceCheck(torn)
    <3>1. pc = "distance" /\ dir \in Straight
      BY <2>4 DEF DistanceCheck
    <3>2. Dist(ticks) >= amount
      BY <2>4, <3>1, CheckOfStraight
    <3>. QED BY <3>1, <3>2 DEF AtEnd
  <2>5. CASE TurnCheck(torn)
    <3>1. pc = "turn" /\ dir \in Turns /\ dir \notin Straight
      BY <2>5 DEF TurnCheck, Straight, Turns
    <3>2. ticks >= amount
      BY <2>5, <3>1, CheckOfTurn
    <3>. QED BY <3>1, <3>2 DEF AtEnd
  <2>. QED BY <2>3, <2>4, <2>5
<1>. QED BY MoveInvariant, <1>1, PTL DEF DriveSpec, NeverStopsEarly

=============================================================================
