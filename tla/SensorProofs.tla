----------------------------- MODULE SensorProofs -----------------------------
(***************************************************************************)
(* The theorems about the two sensors.                                     *)
(*                                                                         *)
(* The echoes of the ultrasonic sensor are not bounded, so that there is   *)
(* no run for it: the proofs are for every number of calls, and every      *)
(* number of edges between two of them.                                    *)
(*                                                                         *)
(* What getColor() names is checked with the runs of AlexLink for some     *)
(* papers, and proved here for any.  The two results say how far the       *)
(* averages may be off the calibration lines, and what the restart of      *)
(* color_dist() costs at most.                                             *)
(***************************************************************************)
EXTENDS Ultrasonic, MCAlexLink, SequenceTheorems, WellFoundedInduction, TLAPS

LEMMA WidthInWidths ==
  ASSUME NEW n \in Nat, NEW whole \in BOOLEAN
  PROVE  Width(n, whole) \in Widths
BY DEF Width, Widths

LEMMA UltrasonicInitInv == UltrasonicInit => UltrasonicInv
<1>. SUFFICES ASSUME UltrasonicInit PROVE UltrasonicInv
  OBVIOUS
<1>. USE DEF UltrasonicInit
<1>1. Width(0, TRUE) \in Widths
  BY WidthInWidths
<1>2. UltrasonicTypeOK
  BY <1>1 DEF UltrasonicTypeOK
<1>3. FlagIsFree /\ ~late /\ edge # 1 /\ call = "idle"
  BY DEF FlagIsFree
<1>. QED BY <1>2, <1>3 DEF UltrasonicInv

-----------------------------------------------------------------------------
(* A step keeps edge in step with the pin, or out of it.                   *)
LEMMA StepKept ==
  ASSUME UltrasonicTypeOK, FlagIsFree, [UltrasonicNext]_ultrasonicVars
  PROVE  EdgeFollowsEcho' <=> EdgeFollowsEcho
<1>. edge \in {0, 1} /\ INTF0 \in BOOLEAN
  BY DEF UltrasonicTypeOK
<1>1. CASE INT0_vect
  <2>1. edge' = 1 - edge /\ INTF0 /\ ~INTF0' /\ sensor' = sensor
    BY <1>1 DEF INT0_vect, Pending
  <2>2. edge' = 1 <=> edge # 1
    BY <2>1
  <2>. QED BY <2>1, <2>2, Zenon DEF EdgeFollowsEcho
<1>2. CASE Trigger
  <2>1. edge' = edge /\ (INTF0' <=> INTF0) /\ (sensor' = "echo" <=> sensor = "echo")
    BY <1>2 DEF Trigger, isrVars
  <2>. QED BY <2>1 DEF EdgeFollowsEcho
<1>3. CASE EchoBegins
  <2>1. edge' = edge /\ INTF0' /\ ~INTF0 /\ sensor' = "echo" /\ sensor # "echo"
    BY <1>3 DEF EchoBegins, isrVars, FlagIsFree
  <2>. QED BY <2>1 DEF EdgeFollowsEcho
<1>4. CASE EchoEnds
  <2>1. edge' = edge /\ INTF0' /\ ~INTF0 /\ sensor' # "echo" /\ sensor = "echo"
    BY <1>4 DEF EchoEnds, isrVars, FlagIsFree, Pending
  <2>. QED BY <2>1 DEF EdgeFollowsEcho
<1>5. CASE Enable \/ Waited \/ ReadLow \/ ReadHigh \/ Disable \/ UNCHANGED ultrasonicVars
  <2>1. edge' = edge /\ (INTF0' <=> INTF0) /\ sensor' = sensor
    BY <1>5 DEF Enable, Waited, ReadLow, ReadHigh, Disable, isrVars, ultrasonicVars
  <2>. QED BY <2>1 DEF EdgeFollowsEcho
<1>. QED BY <1>1, <1>2, <1>3, <1>4, <1>5 DEF UltrasonicNext

-----------------------------------------------------------------------------
(* Every step keeps the types.                                             *)
LEMMA UltrasonicTypeNext ==
  ASSUME UltrasonicTypeOK, [UltrasonicNext]_ultrasonicVars
  PROVE  UltrasonicTypeOK'
<1>. USE DEF UltrasonicTypeOK
<1>1. CASE INT0_vect
  <2>1. Width(timing, ~late) \in Widths
    BY WidthInWidths
  <2>2. edge' \in {0, 1}
    BY <1>1 DEF INT0_vect
  <2>3. timing' \in Nat /\ pulse' \in Widths
    BY <1>1, <2>1 DEF INT0_vect
  <2>. QED BY <1>1, <2>2, <2>3 DEF INT0_vect, loopVars
<1>2. CASE Trigger
  <2>1. pings' \in Nat /\ sensor' \in {"idle", "sent", "echo"}
    BY <1>2 DEF Trigger
  <2>2. answered' = TRUE \/ answered' = FALSE
    BY <1>2, Zenon DEF Trigger
  <2>3. answered' \in BOOLEAN
    BY <2>2
  <2>. QED BY <1>2, <2>1, <2>3 DEF Trigger, isrVars
<1>3. CASE ReadHigh
  <2>1. Torn \in Widths
    BY WidthInWidths DEF Torn
  <2>2. result' \in Widths
    BY <1>3, <2>1 DEF ReadHigh
  <2>. QED BY <1>3, <2>2 DEF ReadHigh, isrVars
<1>4. CASE EchoBegins \/ EchoEnds
  <2>1. late' \in BOOLEAN
    BY <1>4 DEF EchoBegins, EchoEnds
  <2>. QED BY <1>4, <2>1 DEF EchoBegins, EchoEnds, isrVars, loopVars
<1>5. CASE Enable \/ Waited \/ ReadLow \/ Disable \/ UNCHANGED ultrasonicVars
  BY <1>5 DEF Enable, Waited, ReadLow, Disable, isrVars, loopVars, ultrasonicVars
<1>. QED BY <1>1, <1>2, <1>3, <1>4, <1>5 DEF UltrasonicNext

(* No edge finds the flag set, and a late one is handled in time.          *)
LEMMA FlagStaysFree ==
  ASSUME UltrasonicInv, [UltrasonicNext]_ultrasonicVars
  PROVE  FlagIsFree' /\ (late' => INTF0' /\ call' \in {"idle", "trigger"})
<1>. late \in BOOLEAN /\ INTF0 \in BOOLEAN /\ EIMSK \in BOOLEAN
  BY DEF UltrasonicInv, UltrasonicTypeOK
<1>. FlagIsFree /\ (late => INTF0 /\ call \in {"idle", "trigger"})
  BY DEF UltrasonicInv
<1>. USE DEF FlagIsFree, Pending
<1>1. CASE INT0_vect
  BY <1>1 DEF INT0_vect, loopVars
<1>2. CASE Enable \/ Trigger \/ Waited
  BY <1>2 DEF Enable, Trigger, Waited, isrVars
<1>3. CASE ReadLow \/ ReadHigh \/ Disable
  BY <1>3 DEF ReadLow, ReadHigh, Disable, isrVars
<1>4. CASE EchoBegins \/ EchoEnds
  BY <1>4 DEF EchoBegins, EchoEnds, loopVars
<1>5. CASE UNCHANGED ultrasonicVars
  BY <1>5 DEF ultrasonicVars, loopVars
<1>. QED BY <1>1, <1>2, <1>3, <1>4, <1>5 DEF UltrasonicNext

-----------------------------------------------------------------------------
(* The timer runs for the echo that is on, and once it has ended its width *)
(* is in pulse.                                                            *)
TimerFollows == edge = 1 => timing = pings
PulseFollows ==
  call \notin {"idle", "trigger"} /\ answered /\ sensor = "idle" /\ ~INTF0
    => pulse = Width(pings, TRUE)

LEMMA TimerKeepsFollowing ==
  ASSUME UltrasonicInv, [UltrasonicNext]_ultrasonicVars, EdgeFollowsEcho
  PROVE  TimerFollows' /\ PulseFollows'
<1>1. edge \in {0, 1} /\ FlagIsFree /\ TimerFollows /\ PulseFollows
  BY DEF UltrasonicInv, UltrasonicTypeOK, TimerFollows, PulseFollows
<1>2. CASE INT0_vect
  <2>1. CASE edge = 0
    <3>1. sensor' = "echo"
      BY <1>2, <2>1 DEF INT0_vect, Pending, EdgeFollowsEcho
    <3>. QED BY <1>2, <2>1, <3>1 DEF INT0_vect, TimerFollows, PulseFollows
  <2>2. CASE edge = 1
    <3>1. timing = pings /\ edge' = 0 /\ pulse' = Width(timing, ~late)
          /\ call' = call /\ pings' = pings
      BY <1>1, <1>2, <2>2 DEF INT0_vect, TimerFollows, loopVars
    <3>2. call' \notin {"idle", "trigger"} => ~late
      BY <3>1 DEF UltrasonicInv
    <3>3. call' \notin {"idle", "trigger"} => pulse' = Width(pings', TRUE)
      BY <3>1, <3>2 DEF Width
    <3>4. TimerFollows'
      BY <3>1 DEF TimerFollows
    <3>5. PulseFollows'
      BY <3>3, Zenon DEF PulseFollows
    <3>. QED BY <3>4, <3>5
  <2>. QED BY <1>1, <2>1, <2>2
<1>3. CASE Trigger
  <2>1. ~INTF0
    BY <1>1, <1>3 DEF Trigger, FlagIsFree, Pending
  <2>2. CASE answered'
    <3>1. sensor = "idle" /\ sensor' = "sent" /\ edge' = edge
      BY <1>3, <2>2 DEF Trigger, isrVars
    <3>2. edge # 1
      BY <2>1, <3>1 DEF EdgeFollowsEcho
    <3>. QED BY <3>1, <3>2 DEF TimerFollows, PulseFollows
  <2>3. CASE ~answered'
    <3>1. pings' = pings /\ timing' = timing /\ edge' = edge
      BY <1>3, <2>3 DEF Trigger, isrVars
    <3>. QED BY <1>1, <2>3, <3>1 DEF TimerFollows, PulseFollows
  <2>. QED BY <2>2, <2>3
<1>4. CASE EchoBegins \/ EchoEnds
  BY <1>1, <1>4 DEF EchoBegins, EchoEnds, isrVars, TimerFollows, PulseFollows
<1>5. CASE Enable \/ Waited \/ ReadLow \/ ReadHigh \/ Disable \/ UNCHANGED ultrasonicVars
  <2>1. edge' = edge /\ timing' = timing /\ pings' = pings /\ pulse' = pulse
        /\ answered' = answered /\ sensor' = sensor /\ (INTF0' <=> INTF0)
    BY <1>5 DEF Enable, Waited, ReadLow, ReadHigh, Disable, isrVars, loopVars, ultrasonicVars
  <2>2. call' \notin {"idle", "trigger"} => call \notin {"idle", "trigger"}
    BY <1>5 DEF Enable, Waited, ReadLow, ReadHigh, Disable, loopVars, ultrasonicVars
  <2>. QED BY <1>1, <2>1, <2>2 DEF TimerFollows, PulseFollows
<1>. QED BY <1>2, <1>3, <1>4, <1>5 DEF UltrasonicNext

LEMMA UltrasonicNextInv ==
  ASSUME UltrasonicInv, [UltrasonicNext]_ultrasonicVars
  PROVE  UltrasonicInv'
<1>1. UltrasonicTypeOK /\ FlagIsFree
  BY DEF UltrasonicInv
<1>2. UltrasonicTypeOK'
  BY <1>1, UltrasonicTypeNext
<1>3. FlagIsFree' /\ (late' => INTF0' /\ call' \in {"idle", "trigger"})
  BY FlagStaysFree
<1>4. EdgeFollowsEcho' => EdgeFollowsEcho
  BY <1>1, StepKept
<1>5. EdgeFollowsEcho => TimerFollows' /\ PulseFollows'
  BY TimerKeepsFollowing
<1>6. (EdgeFollowsEcho => TimerFollows /\ PulseFollows)'
  BY <1>4, <1>5
<1>. QED BY <1>2, <1>3, <1>6 DEF UltrasonicInv, TimerFollows, PulseFollows

-----------------------------------------------------------------------------
(* The types, and what the interrupt and the loop make of an echo.         *)
THEOREM UltrasonicSafe == UltrasonicSpec => []UltrasonicInv
<1>1. UltrasonicInv /\ [UltrasonicNext]_ultrasonicVars => UltrasonicInv'
  BY UltrasonicNextInv
<1>. QED BY UltrasonicInitInv, <1>1, PTL DEF UltrasonicSpec

(* A call whose echo has ended reads its width, if edge is in step.        *)
THEOREM ReadsTheEcho == UltrasonicSpec => []FreshWhenRead
<1>1. UltrasonicInv => FreshWhenRead
  BY DEF UltrasonicInv, FreshWhenRead
<1>. QED BY UltrasonicSafe, <1>1, PTL

(* Nothing brings edge in step with the pin, or out of step.               *)
THEOREM StepNeverChanges == UltrasonicSpec => StepIsKept
<1>1. UltrasonicInv /\ [UltrasonicNext]_ultrasonicVars
        => [EdgeFollowsEcho' <=> EdgeFollowsEcho]_ultrasonicVars
  <2>. SUFFICES ASSUME UltrasonicInv, [UltrasonicNext]_ultrasonicVars
                PROVE  EdgeFollowsEcho' <=> EdgeFollowsEcho
    OBVIOUS
  <2>. UltrasonicTypeOK /\ FlagIsFree
    BY DEF UltrasonicInv
  <2>. QED BY StepKept
<1>. QED BY UltrasonicSafe, <1>1, PTL DEF UltrasonicSpec, StepIsKept

(* Without an interrupt pending at the start every call that waits long    *)
(* enough reads its own echo.                                              *)
THEOREM InStepFromACleanStart ==
  UltrasonicSpec /\ ~INTF0 => []EdgeFollowsEcho
<1>1. UltrasonicInit /\ ~INTF0 => EdgeFollowsEcho
  BY DEF UltrasonicInit, EdgeFollowsEcho
<1>2. UltrasonicInv /\ EdgeFollowsEcho /\ [UltrasonicNext]_ultrasonicVars
        => EdgeFollowsEcho'
  <2>. SUFFICES ASSUME UltrasonicInv, EdgeFollowsEcho, [UltrasonicNext]_ultrasonicVars
                PROVE  EdgeFollowsEcho'
    OBVIOUS
  <2>. UltrasonicTypeOK /\ FlagIsFree
    BY DEF UltrasonicInv
  <2>. QED BY StepKept
<1>. QED BY UltrasonicSafe, <1>1, <1>2, PTL DEF UltrasonicSpec

(* With one, every call finds edge the wrong way round.                    *)
THEOREM OutOfStepForEver ==
  UltrasonicSpec /\ INTF0 => []~EdgeFollowsEcho
<1>1. UltrasonicInit /\ INTF0 => ~EdgeFollowsEcho
  BY DEF UltrasonicInit, EdgeFollowsEcho
<1>2. UltrasonicInv /\ ~EdgeFollowsEcho /\ [UltrasonicNext]_ultrasonicVars
        => ~EdgeFollowsEcho'
  <2>. SUFFICES ASSUME UltrasonicInv, ~EdgeFollowsEcho, [UltrasonicNext]_ultrasonicVars
                PROVE  ~EdgeFollowsEcho'
    OBVIOUS
  <2>. UltrasonicTypeOK /\ FlagIsFree
    BY DEF UltrasonicInv
  <2>. QED BY StepKept
<1>. QED BY UltrasonicSafe, <1>1, <1>2, PTL DEF UltrasonicSpec

-----------------------------------------------------------------------------
(* The colour sensor: points of the colour cube, and how far off its line  *)
(* a paper may be.                                                         *)
Cube == Int \X Int \X Int

(* Within this distance of a point of its line, every paper is recognised. *)
Radius == 33 * Unit

-----------------------------------------------------------------------------
(* c is a coordinate of point i of a line that starts at least and is span *)
(* longer at its end, rounded down to a twentieth of a microsecond.        *)
OnLine(c, least, span, i) ==
  /\ c \in Int
  /\ 5 * (c - 20 * least) <= span * i
  /\ span * i < 5 * (c - 20 * least) + 5

LEMMA MainOnLine ==
  ASSUME NEW least \in Int, NEW most \in Int, NEW span \in Int, NEW i \in Int,
         most = least + span
  PROVE  OnLine(MainCoordinate(least, most, i), least, span, i)
<1>. DEFINE w == span * i
<1>1. w \in Int
  OBVIOUS
<1>2. MainCoordinate(least, most, i) = 20 * least + (w * 20) \div 100
  <2>1. most - least = span
    OBVIOUS
  <2>2. i * (most - least) = w
    BY <2>1
  <2>. QED BY <2>2 DEF MainCoordinate, Unit, VECT_INCR
<1>. HIDE DEF w
<1>3. /\ (w * 20) \div 100 \in Int
      /\ 100 * ((w * 20) \div 100) <= w * 20 /\ w * 20 < 100 * ((w * 20) \div 100) + 100
  BY <1>1
<1>4. /\ 5 * ((w * 20) \div 100) <= w /\ w < 5 * ((w * 20) \div 100) + 5
      /\ MainCoordinate(least, most, i) \in Int
  BY <1>1, <1>2, <1>3
<1>5. MainCoordinate(least, most, i) - 20 * least = (w * 20) \div 100
  BY <1>2, <1>3
<1>. QED BY <1>4, <1>5 DEF OnLine, w

(* The lines.                                                              *)
LEMMA White ==
  ASSUME NEW i \in Int
  PROVE  /\ MainVect(0, i) = <<MainCoordinate(118, 453, i),
                               MainCoordinate(114, 461, i),
                               MainCoordinate(91, 364, i)>>
         /\ OnLine(MainCoordinate(118, 453, i), 118, 335, i)
         /\ OnLine(MainCoordinate(114, 461, i), 114, 347, i)
         /\ OnLine(MainCoordinate(91, 364, i), 91, 273, i)
<1>1. MainVect(0, i) = <<MainCoordinate(118, 453, i), MainCoordinate(114, 461, i),
                         MainCoordinate(91, 364, i)>>
  BY DEF MainVect, FrequencyMin, FrequencyMax
<1>2. /\ 453 = 118 + 335
      /\ 461 = 114 + 347
      /\ 364 = 91 + 273
  OBVIOUS
<1>3. OnLine(MainCoordinate(118, 453, i), 118, 335, i)
  BY <1>2, MainOnLine
<1>4. OnLine(MainCoordinate(114, 461, i), 114, 347, i)
  BY <1>2, MainOnLine
<1>5. OnLine(MainCoordinate(91, 364, i), 91, 273, i)
  BY <1>2, MainOnLine
<1>. QED BY <1>1, <1>3, <1>4, <1>5

LEMMA Red ==
  ASSUME NEW i \in Int
  PROVE  /\ MainVect(1, i) = <<MainCoordinate(223, 552, i),
                               MainCoordinate(458, 723, i),
                               MainCoordinate(355, 558, i)>>
         /\ OnLine(MainCoordinate(223, 552, i), 223, 329, i)
         /\ OnLine(MainCoordinate(458, 723, i), 458, 265, i)
         /\ OnLine(MainCoordinate(355, 558, i), 355, 203, i)
<1>1. MainVect(1, i) = <<MainCoordinate(223, 552, i), MainCoordinate(458, 723, i),
                         MainCoordinate(355, 558, i)>>
  BY DEF MainVect, FrequencyMin, FrequencyMax
<1>2. /\ 552 = 223 + 329
      /\ 723 = 458 + 265
      /\ 558 = 355 + 203
  OBVIOUS
<1>3. OnLine(MainCoordinate(223, 552, i), 223, 329, i)
  BY <1>2, MainOnLine
<1>4. OnLine(MainCoordinate(458, 723, i), 458, 265, i)
  BY <1>2, MainOnLine
<1>5. OnLine(MainCoordinate(355, 558, i), 355, 203, i)
  BY <1>2, MainOnLine
<1>. QED BY <1>1, <1>3, <1>4, <1>5

LEMMA Green ==
  ASSUME NEW i \in Int
  PROVE  /\ MainVect(2, i) = <<MainCoordinate(300, 661, i),
                               MainCoordinate(214, 586, i),
                               MainCoordinate(241, 514, i)>>
         /\ OnLine(MainCoordinate(300, 661, i), 300, 361, i)
         /\ OnLine(MainCoordinate(214, 586, i), 214, 372, i)
         /\ OnLine(MainCoordinate(241, 514, i), 241, 273, i)
<1>1. MainVect(2, i) = <<MainCoordinate(300, 661, i), MainCoordinate(214, 586, i),
                         MainCoordinate(241, 514, i)>>
  BY DEF MainVect, FrequencyMin, FrequencyMax
<1>2. /\ 661 = 300 + 361
      /\ 586 = 214 + 372
      /\ 514 = 241 + 273
  OBVIOUS
<1>3. OnLine(MainCoordinate(300, 661, i), 300, 361, i)
  BY <1>2, MainOnLine
<1>4. OnLine(MainCoordinate(214, 586, i), 214, 372, i)
  BY <1>2, MainOnLine
<1>5. OnLine(MainCoordinate(241, 514, i), 241, 273, i)
  BY <1>2, MainOnLine
<1>. QED BY <1>1, <1>3, <1>4, <1>5

LEMMA MainInCube ==
  ASSUME NEW colour \in Colours, NEW i \in Int
  PROVE  MainVect(colour, i) \in Cube
<1>. DEFINE least == FrequencyMin[colour + 1]  most == FrequencyMax[colour + 1]
<1>1. \A j \in 1 .. 3 : least[j] \in Int /\ most[j] \in Int
  BY DEF Colours, FrequencyMin, FrequencyMax
<1>2. \A j \in 1 .. 3 : MainCoordinate(least[j], most[j], i) \in Int
  <2>1. \A j \in 1 .. 3 : most[j] = least[j] + (most[j] - least[j]) /\ most[j] - least[j] \in Int
    BY <1>1
  <2>. HIDE DEF least, most
  <2>. QED BY <1>1, <2>1, MainOnLine DEF OnLine
<1>3. MainVect(colour, i) = <<MainCoordinate(least[1], most[1], i),
                              MainCoordinate(least[2], most[2], i),
                              MainCoordinate(least[3], most[3], i)>>
  BY DEF MainVect
<1>. HIDE DEF least, most
<1>. QED BY <1>2, <1>3 DEF Cube

-----------------------------------------------------------------------------
(* Squares.                                                                *)
LEMMA SquareInNat ==
  ASSUME NEW n \in Int
  PROVE  Square(n) \in Nat
<1>1. n * n >= 0
  OBVIOUS
<1>. QED BY <1>1 DEF Square

LEMMA SquaredInNat ==
  ASSUME NEW p \in Cube, NEW q \in Cube
  PROVE  Squared(p, q) \in Nat
<1>1. /\ p[1] - q[1] \in Int /\ p[2] - q[2] \in Int /\ p[3] - q[3] \in Int
  BY DEF Cube
<1>. QED BY <1>1, SquareInNat DEF Squared

LEMMA SquareGrows ==
  ASSUME NEW a \in Nat, NEW b \in Nat, a <= b
  PROVE  a * a <= b * b
<1>1. a * a <= a * b
  OBVIOUS
<1>2. a * b <= b * b
  OBVIOUS
<1>. QED BY <1>1, <1>2

(* A square is above its tangents.                                         *)
LEMMA Tangent ==
  ASSUME NEW x \in Int, NEW a \in Int
  PROVE  Square(x) >= 2 * (a * x) - a * a
<1>1. (x - a) * (x - a) >= 0
  OBVIOUS
<1>2. (x - a) * (x - a) = x * x - 2 * (a * x) + a * a
  OBVIOUS
<1>. QED BY <1>1, <1>2 DEF Square

(* Two points that are near a third one are near each other.               *)
LEMMA Halfway ==
  ASSUME NEW a \in Int, NEW b \in Int, NEW c \in Int
  PROVE  Square(a - b) <= 2 * (Square(a - c) + Square(b - c))
<1>. DEFINE x == a - c
            y == b - c
<1>1. (x + y) * (x + y) >= 0
  OBVIOUS
<1>2. (x + y) * (x + y) = 2 * (x * x + y * y) - (x - y) * (x - y)
  OBVIOUS
<1>3. x - y = a - b
  OBVIOUS
<1>. QED BY <1>1, <1>2, <1>3 DEF Square

LEMMA NearAThird ==
  ASSUME NEW p \in Cube, NEW q \in Cube, NEW t \in Cube
  PROVE  Squared(p, q) <= 2 * (Squared(p, t) + Squared(q, t))
<1>1. \A j \in 1 .. 3 : p[j] \in Int /\ q[j] \in Int /\ t[j] \in Int
  BY DEF Cube
<1>2. \A j \in 1 .. 3 : Square(p[j] - q[j]) <= 2 * (Square(p[j] - t[j]) + Square(q[j] - t[j]))
  BY <1>1, Halfway
<1>3. \A j \in 1 .. 3 : /\ Square(p[j] - q[j]) \in Nat /\ Square(p[j] - t[j]) \in Nat
                        /\ Square(q[j] - t[j]) \in Nat
  BY <1>1, SquareInNat
<1>. QED BY <1>2, <1>3 DEF Squared

LEMMA SquaredBothWays ==
  ASSUME NEW p \in Cube, NEW q \in Cube
  PROVE  Squared(p, q) = Squared(q, p)
<1>1. \A j \in 1 .. 3 : p[j] \in Int /\ q[j] \in Int
  BY DEF Cube
<1>2. \A a \in Int, b \in Int : (a - b) * (a - b) = (b - a) * (b - a)
  OBVIOUS
<1>. QED BY <1>1, <1>2 DEF Squared, Square

-----------------------------------------------------------------------------
(* The lines are further apart than twice the radius: the squares are      *)
(* above their tangents where the lines are nearest to each other.         *)
LEMMA RedFromWhite ==
  ASSUME NEW i \in Points, NEW k \in Points
  PROVE  Squared(MainVect(1, i), MainVect(0, k)) > 4 * Square(Radius)
<1>. DEFINE x1 == MainCoordinate(223, 552, i)
            x2 == MainCoordinate(458, 723, i)
            x3 == MainCoordinate(355, 558, i)
            y1 == MainCoordinate(118, 453, k)
            y2 == MainCoordinate(114, 461, k)
            y3 == MainCoordinate(91, 364, k)
<1>1. i \in 0 .. 99 /\ k \in 0 .. 99
  BY SMT DEF Points, VECT_INCR
<1>2. /\ OnLine(x1, 223, 329, i)
      /\ OnLine(x2, 458, 265, i)
      /\ OnLine(x3, 355, 203, i)
  BY SMT, <1>1, Red
<1>3. /\ OnLine(y1, 118, 335, k)
      /\ OnLine(y2, 114, 347, k)
      /\ OnLine(y3, 91, 273, k)
  BY SMT, <1>1, White
<1>4. /\ x1 \in Int /\ x2 \in Int /\ x3 \in Int
      /\ y1 \in Int /\ y2 \in Int /\ y3 \in Int
  BY SMT, <1>2, <1>3 DEF OnLine
<1>5. Squared(MainVect(1, i), MainVect(0, k)) = Square(x1 - y1) + Square(x2 - y2) + Square(x3 - y3)
  BY SMT, <1>1, Red, White DEF Squared
<1>. HIDE DEF x1, x2, x3, y1, y2, y3
<1>6. (-2250) * (x1 - y1) + 1850 * (x2 - y2) + 1250 * (x3 - y3) > 5894950
  BY SMT, <1>1, <1>2, <1>3 DEF OnLine
<1>7. \A m \in Int : /\ Square(x1 - y1) >= 2 * (m * (x1 - y1)) - m * m
                      /\ Square(x2 - y2) >= 2 * (m * (x2 - y2)) - m * m
                      /\ Square(x3 - y3) >= 2 * (m * (x3 - y3)) - m * m
  <2>1. x1 - y1 \in Int /\ x2 - y2 \in Int /\ x3 - y3 \in Int
    BY SMT, <1>4
  <2>. QED BY <2>1, Tangent, Zenon
<1>8. /\ Square(x1 - y1) \in Int /\ Square(x2 - y2) \in Int /\ Square(x3 - y3) \in Int
  BY SMT, <1>4, SquareInNat
<1>9. /\ Square(x1 - y1) >= 2 * ((-2250) * (x1 - y1)) - (-2250) * (-2250)
      /\ Square(x2 - y2) >= 2 * (1850 * (x2 - y2)) - 1850 * 1850
      /\ Square(x3 - y3) >= 2 * (1250 * (x3 - y3)) - 1250 * 1250
  BY SMT, <1>7
<1>10. 4 * Square(Radius) = 1742400
  BY SMT DEF Square, Radius, Unit
<1>. QED BY SMT, <1>4, <1>5, <1>6, <1>8, <1>9, <1>10

LEMMA GreenFromWhite ==
  ASSUME NEW i \in Points, NEW k \in Points
  PROVE  Squared(MainVect(2, i), MainVect(0, k)) > 4 * Square(Radius)
<1>. DEFINE x1 == MainCoordinate(300, 661, i)
            x2 == MainCoordinate(214, 586, i)
            x3 == MainCoordinate(241, 514, i)
            y1 == MainCoordinate(118, 453, k)
            y2 == MainCoordinate(114, 461, k)
            y3 == MainCoordinate(91, 364, k)
<1>1. i \in 0 .. 99 /\ k \in 0 .. 99
  BY SMT DEF Points, VECT_INCR
<1>2. /\ OnLine(x1, 300, 361, i)
      /\ OnLine(x2, 214, 372, i)
      /\ OnLine(x3, 241, 273, i)
  BY SMT, <1>1, Green
<1>3. /\ OnLine(y1, 118, 335, k)
      /\ OnLine(y2, 114, 347, k)
      /\ OnLine(y3, 91, 273, k)
  BY SMT, <1>1, White
<1>4. /\ x1 \in Int /\ x2 \in Int /\ x3 \in Int
      /\ y1 \in Int /\ y2 \in Int /\ y3 \in Int
  BY SMT, <1>2, <1>3 DEF OnLine
<1>5. Squared(MainVect(2, i), MainVect(0, k)) = Square(x1 - y1) + Square(x2 - y2) + Square(x3 - y3)
  BY SMT, <1>1, Green, White DEF Squared
<1>. HIDE DEF x1, x2, x3, y1, y2, y3
<1>6. 740 * (x1 - y1) + (-1025) * (x2 - y2) + 420 * (x3 - y3) > 1758513
  BY SMT, <1>1, <1>2, <1>3 DEF OnLine
<1>7. \A m \in Int : /\ Square(x1 - y1) >= 2 * (m * (x1 - y1)) - m * m
                      /\ Square(x2 - y2) >= 2 * (m * (x2 - y2)) - m * m
                      /\ Square(x3 - y3) >= 2 * (m * (x3 - y3)) - m * m
  <2>1. x1 - y1 \in Int /\ x2 - y2 \in Int /\ x3 - y3 \in Int
    BY SMT, <1>4
  <2>. QED BY <2>1, Tangent, Zenon
<1>8. /\ Square(x1 - y1) \in Int /\ Square(x2 - y2) \in Int /\ Square(x3 - y3) \in Int
  BY SMT, <1>4, SquareInNat
<1>9. /\ Square(x1 - y1) >= 2 * (740 * (x1 - y1)) - 740 * 740
      /\ Square(x2 - y2) >= 2 * ((-1025) * (x2 - y2)) - (-1025) * (-1025)
      /\ Square(x3 - y3) >= 2 * (420 * (x3 - y3)) - 420 * 420
  BY SMT, <1>7
<1>10. 4 * Square(Radius) = 1742400
  BY SMT DEF Square, Radius, Unit
<1>. QED BY SMT, <1>4, <1>5, <1>6, <1>8, <1>9, <1>10

LEMMA GreenFromRed ==
  ASSUME NEW i \in Points, NEW k \in Points
  PROVE  Squared(MainVect(2, i), MainVect(1, k)) > 4 * Square(Radius)
<1>. DEFINE x1 == MainCoordinate(300, 661, i)
            x2 == MainCoordinate(214, 586, i)
            x3 == MainCoordinate(241, 514, i)
            y1 == MainCoordinate(223, 552, k)
            y2 == MainCoordinate(458, 723, k)
            y3 == MainCoordinate(355, 558, k)
<1>1. i \in 0 .. 99 /\ k \in 0 .. 99
  BY SMT DEF Points, VECT_INCR
<1>2. /\ OnLine(x1, 300, 361, i)
      /\ OnLine(x2, 214, 372, i)
      /\ OnLine(x3, 241, 273, i)
  BY SMT, <1>1, Green
<1>3. /\ OnLine(y1, 223, 329, k)
      /\ OnLine(y2, 458, 265, k)
      /\ OnLine(y3, 355, 203, k)
  BY SMT, <1>1, Red
<1>4. /\ x1 \in Int /\ x2 \in Int /\ x3 \in Int
      /\ y1 \in Int /\ y2 \in Int /\ y3 \in Int
  BY SMT, <1>2, <1>3 DEF OnLine
<1>5. Squared(MainVect(2, i), MainVect(1, k)) = Square(x1 - y1) + Square(x2 - y2) + Square(x3 - y3)
  BY SMT, <1>1, Green, Red DEF Squared
<1>. HIDE DEF x1, x2, x3, y1, y2, y3
<1>6. 2500 * (x1 - y1) + (-2500) * (x2 - y2) + (-700) * (x3 - y3) > 7366200
  BY SMT, <1>1, <1>2, <1>3 DEF OnLine
<1>7. \A m \in Int : /\ Square(x1 - y1) >= 2 * (m * (x1 - y1)) - m * m
                      /\ Square(x2 - y2) >= 2 * (m * (x2 - y2)) - m * m
                      /\ Square(x3 - y3) >= 2 * (m * (x3 - y3)) - m * m
  <2>1. x1 - y1 \in Int /\ x2 - y2 \in Int /\ x3 - y3 \in Int
    BY SMT, <1>4
  <2>. QED BY <2>1, Tangent, Zenon
<1>8. /\ Square(x1 - y1) \in Int /\ Square(x2 - y2) \in Int /\ Square(x3 - y3) \in Int
  BY SMT, <1>4, SquareInNat
<1>9. /\ Square(x1 - y1) >= 2 * (2500 * (x1 - y1)) - 2500 * 2500
      /\ Square(x2 - y2) >= 2 * ((-2500) * (x2 - y2)) - (-2500) * (-2500)
      /\ Square(x3 - y3) >= 2 * ((-700) * (x3 - y3)) - (-700) * (-700)
  BY SMT, <1>7
<1>10. 4 * Square(Radius) = 1742400
  BY SMT DEF Square, Radius, Unit
<1>. QED BY SMT, <1>4, <1>5, <1>6, <1>8, <1>9, <1>10

LEMMA LinesApart ==
  ASSUME NEW colour \in Colours, NEW other \in Colours, colour # other,
         NEW i \in Points, NEW k \in Points
  PROVE  Squared(MainVect(colour, i), MainVect(other, k)) > 4 * Square(Radius)
<1>1. Squared(MainVect(colour, i), MainVect(other, k))
        = Squared(MainVect(other, k), MainVect(colour, i))
  BY MainInCube, SquaredBothWays DEF Points, VECT_INCR
<1>. QED BY <1>1, RedFromWhite, GreenFromWhite, GreenFromRed DEF Colours

-----------------------------------------------------------------------------
(* A set of natural numbers has a least one.                               *)
LEMMA ShortestIsLeast ==
  ASSUME NEW dists, dists \subseteq Nat, dists # {}
  PROVE  Shortest(dists) \in dists /\ \A d \in dists : Shortest(dists) <= d
<1>. DEFINE less == {ss \in Nat \X Nat : ss[1] < ss[2]}
<1>1. IsWellFoundedOn(less, Nat)
  BY NatLessThanWellFounded, Zenon DEF OpToRel
<1>2. PICK d \in dists : \A other \in dists : <<other, d>> \notin less
  <2>. HIDE DEF less
  <2>. QED BY <1>1, WFMin, Zenon
<1>3. ASSUME NEW other \in dists PROVE d <= other
  <2>1. <<other, d>> \in Nat \X Nat /\ <<other, d>>[1] = other /\ <<other, d>>[2] = d
    OBVIOUS
  <2>2. ~ (other < d)
    BY <1>2, <2>1, Zenon
  <2>. QED BY <2>2
<1>. QED BY <1>3 DEF Shortest

LEMMA LastOf ==
  ASSUME NEW points, points \subseteq Points, points # {}
  PROVE  \E last \in points : \A i \in points : i <= last
<1>. DEFINE behind == {99 - i : i \in points}
<1>1. points \subseteq 0 .. 99
  BY DEF Points, VECT_INCR
<1>2. behind \subseteq Nat /\ behind # {}
  <2>1. PICK i \in points : TRUE
    OBVIOUS
  <2>2. 99 - i \in behind
    BY <2>1
  <2>. QED BY <1>1, <2>2
<1>3. Shortest(behind) \in behind /\ \A d \in behind : Shortest(behind) <= d
  BY <1>2, ShortestIsLeast
<1>4. PICK last \in points : Shortest(behind) = 99 - last
  BY <1>3
<1>5. \A i \in points : 99 - last <= 99 - i
  BY <1>3, <1>4
<1>. QED BY <1>1, <1>5

-----------------------------------------------------------------------------
(* Steps along a line: they are all about as long as the first one.        *)
LEMMA SquareWithin ==
  ASSUME NEW x \in Int, NEW lo \in Nat, NEW hi \in Nat, lo <= x, x <= hi
  PROVE  lo * lo <= Square(x) /\ Square(x) <= hi * hi /\ Square(x) \in Nat
<1>1. x \in Nat
  OBVIOUS
<1>2. lo * lo <= x * x
  BY <1>1, SquareGrows
<1>3. x * x <= hi * hi
  BY <1>1, SquareGrows
<1>. QED BY <1>2, <1>3, SquareInNat DEF Square

LEMMA CoordinateStep ==
  ASSUME NEW least \in Int, NEW span \in Nat, NEW i \in Nat, NEW lo \in Nat, NEW hi \in Nat,
         5 * lo <= span, span <= 5 * hi,
         NEW here, NEW there, OnLine(here, least, span, i), OnLine(there, least, span, i + 1)
  PROVE  /\ lo * lo <= Square(there - here) /\ Square(there - here) <= hi * hi
         /\ Square(there - here) \in Nat
<1>1. span * (i + 1) = span * i + span /\ span * i \in Int
  OBVIOUS
<1>2. here \in Int /\ there \in Int
  BY DEF OnLine
<1>3. 5 * (there - here) < span + 5 /\ span < 5 * (there - here) + 5
  BY <1>1, <1>2 DEF OnLine
<1>4. there - here \in Int /\ lo <= there - here /\ there - here <= hi
  BY <1>2, <1>3
<1>. QED BY <1>4, SquareWithin, Zenon

LEMMA WhiteSteps ==
  ASSUME NEW i \in Nat
  PROVE  Squared(MainVect(0, i + 1), MainVect(0, i)) \in 12166 .. 12414
<1>. DEFINE x1 == MainCoordinate(118, 453, i)
            y1 == MainCoordinate(118, 453, i + 1)
            x2 == MainCoordinate(114, 461, i)
            y2 == MainCoordinate(114, 461, i + 1)
            x3 == MainCoordinate(91, 364, i)
            y3 == MainCoordinate(91, 364, i + 1)
<1>1. i \in Int /\ i + 1 \in Int
  OBVIOUS
<1>2. /\ OnLine(x1, 118, 335, i) /\ OnLine(y1, 118, 335, i + 1)
      /\ OnLine(x2, 114, 347, i) /\ OnLine(y2, 114, 347, i + 1)
      /\ OnLine(x3, 91, 273, i) /\ OnLine(y3, 91, 273, i + 1)
  BY <1>1, White
<1>3. Squared(MainVect(0, i + 1), MainVect(0, i))
        = Square(y1 - x1) + Square(y2 - x2) + Square(y3 - x3)
  BY <1>1, White DEF Squared
<1>. HIDE DEF x1, x2, x3, y1, y2, y3
<1>4. /\ 67 * 67 <= Square(y1 - x1) /\ Square(y1 - x1) <= 67 * 67
      /\ Square(y1 - x1) \in Nat
  <2>. DEFINE least == 118 span == 335 lo == 67 hi == 67
  <2>1. /\ least \in Int /\ span \in Nat /\ lo \in Nat /\ hi \in Nat
        /\ 5 * lo <= span /\ span <= 5 * hi
    OBVIOUS
  <2>2. OnLine(x1, least, span, i) /\ OnLine(y1, least, span, i + 1)
    BY <1>2
  <2>. HIDE DEF least, span, lo, hi
  <2>3. /\ lo * lo <= Square(y1 - x1) /\ Square(y1 - x1) <= hi * hi
        /\ Square(y1 - x1) \in Nat
    BY <2>1, <2>2, CoordinateStep
  <2>. QED BY <2>3 DEF lo, hi
<1>5. /\ 69 * 69 <= Square(y2 - x2) /\ Square(y2 - x2) <= 70 * 70
      /\ Square(y2 - x2) \in Nat
  <2>. DEFINE least == 114 span == 347 lo == 69 hi == 70
  <2>1. /\ least \in Int /\ span \in Nat /\ lo \in Nat /\ hi \in Nat
        /\ 5 * lo <= span /\ span <= 5 * hi
    OBVIOUS
  <2>2. OnLine(x2, least, span, i) /\ OnLine(y2, least, span, i + 1)
    BY <1>2
  <2>. HIDE DEF least, span, lo, hi
  <2>3. /\ lo * lo <= Square(y2 - x2) /\ Square(y2 - x2) <= hi * hi
        /\ Square(y2 - x2) \in Nat
    BY <2>1, <2>2, CoordinateStep
  <2>. QED BY <2>3 DEF lo, hi
<1>6. /\ 54 * 54 <= Square(y3 - x3) /\ Square(y3 - x3) <= 55 * 55
      /\ Square(y3 - x3) \in Nat
  <2>. DEFINE least == 91 span == 273 lo == 54 hi == 55
  <2>1. /\ least \in Int /\ span \in Nat /\ lo \in Nat /\ hi \in Nat
        /\ 5 * lo <= span /\ span <= 5 * hi
    OBVIOUS
  <2>2. OnLine(x3, least, span, i) /\ OnLine(y3, least, span, i + 1)
    BY <1>2
  <2>. HIDE DEF least, span, lo, hi
  <2>3. /\ lo * lo <= Square(y3 - x3) /\ Square(y3 - x3) <= hi * hi
        /\ Square(y3 - x3) \in Nat
    BY <2>1, <2>2, CoordinateStep
  <2>. QED BY <2>3 DEF lo, hi
<1>. QED BY SMT, <1>3, <1>4, <1>5, <1>6

LEMMA RedSteps ==
  ASSUME NEW i \in Nat
  PROVE  Squared(MainVect(1, i + 1), MainVect(1, i)) \in 8634 .. 8846
<1>. DEFINE x1 == MainCoordinate(223, 552, i)
            y1 == MainCoordinate(223, 552, i + 1)
            x2 == MainCoordinate(458, 723, i)
            y2 == MainCoordinate(458, 723, i + 1)
            x3 == MainCoordinate(355, 558, i)
            y3 == MainCoordinate(355, 558, i + 1)
<1>1. i \in Int /\ i + 1 \in Int
  OBVIOUS
<1>2. /\ OnLine(x1, 223, 329, i) /\ OnLine(y1, 223, 329, i + 1)
      /\ OnLine(x2, 458, 265, i) /\ OnLine(y2, 458, 265, i + 1)
      /\ OnLine(x3, 355, 203, i) /\ OnLine(y3, 355, 203, i + 1)
  BY <1>1, Red
<1>3. Squared(MainVect(1, i + 1), MainVect(1, i))
        = Square(y1 - x1) + Square(y2 - x2) + Square(y3 - x3)
  BY <1>1, Red DEF Squared
<1>. HIDE DEF x1, x2, x3, y1, y2, y3
<1>4. /\ 65 * 65 <= Square(y1 - x1) /\ Square(y1 - x1) <= 66 * 66
      /\ Square(y1 - x1) \in Nat
  <2>. DEFINE least == 223 span == 329 lo == 65 hi == 66
  <2>1. /\ least \in Int /\ span \in Nat /\ lo \in Nat /\ hi \in Nat
        /\ 5 * lo <= span /\ span <= 5 * hi
    OBVIOUS
  <2>2. OnLine(x1, least, span, i) /\ OnLine(y1, least, span, i + 1)
    BY <1>2
  <2>. HIDE DEF least, span, lo, hi
  <2>3. /\ lo * lo <= Square(y1 - x1) /\ Square(y1 - x1) <= hi * hi
        /\ Square(y1 - x1) \in Nat
    BY <2>1, <2>2, CoordinateStep
  <2>. QED BY <2>3 DEF lo, hi
<1>5. /\ 53 * 53 <= Square(y2 - x2) /\ Square(y2 - x2) <= 53 * 53
      /\ Square(y2 - x2) \in Nat
  <2>. DEFINE least == 458 span == 265 lo == 53 hi == 53
  <2>1. /\ least \in Int /\ span \in Nat /\ lo \in Nat /\ hi \in Nat
        /\ 5 * lo <= span /\ span <= 5 * hi
    OBVIOUS
  <2>2. OnLine(x2, least, span, i) /\ OnLine(y2, least, span, i + 1)
    BY <1>2
  <2>. HIDE DEF least, span, lo, hi
  <2>3. /\ lo * lo <= Square(y2 - x2) /\ Square(y2 - x2) <= hi * hi
        /\ Square(y2 - x2) \in Nat
    BY <2>1, <2>2, CoordinateStep
  <2>. QED BY <2>3 DEF lo, hi
<1>6. /\ 40 * 40 <= Square(y3 - x3) /\ Square(y3 - x3) <= 41 * 41
      /\ Square(y3 - x3) \in Nat
  <2>. DEFINE least == 355 span == 203 lo == 40 hi == 41
  <2>1. /\ least \in Int /\ span \in Nat /\ lo \in Nat /\ hi \in Nat
        /\ 5 * lo <= span /\ span <= 5 * hi
    OBVIOUS
  <2>2. OnLine(x3, least, span, i) /\ OnLine(y3, least, span, i + 1)
    BY <1>2
  <2>. HIDE DEF least, span, lo, hi
  <2>3. /\ lo * lo <= Square(y3 - x3) /\ Square(y3 - x3) <= hi * hi
        /\ Square(y3 - x3) \in Nat
    BY <2>1, <2>2, CoordinateStep
  <2>. QED BY <2>3 DEF lo, hi
<1>. QED BY SMT, <1>3, <1>4, <1>5, <1>6

LEMMA GreenSteps ==
  ASSUME NEW i \in Nat
  PROVE  Squared(MainVect(2, i + 1), MainVect(2, i)) \in 13576 .. 13979
<1>. DEFINE x1 == MainCoordinate(300, 661, i)
            y1 == MainCoordinate(300, 661, i + 1)
            x2 == MainCoordinate(214, 586, i)
            y2 == MainCoordinate(214, 586, i + 1)
            x3 == MainCoordinate(241, 514, i)
            y3 == MainCoordinate(241, 514, i + 1)
<1>1. i \in Int /\ i + 1 \in Int
  OBVIOUS
<1>2. /\ OnLine(x1, 300, 361, i) /\ OnLine(y1, 300, 361, i + 1)
      /\ OnLine(x2, 214, 372, i) /\ OnLine(y2, 214, 372, i + 1)
      /\ OnLine(x3, 241, 273, i) /\ OnLine(y3, 241, 273, i + 1)
  BY <1>1, Green
<1>3. Squared(MainVect(2, i + 1), MainVect(2, i))
        = Square(y1 - x1) + Square(y2 - x2) + Square(y3 - x3)
  BY <1>1, Green DEF Squared
<1>. HIDE DEF x1, x2, x3, y1, y2, y3
<1>4. /\ 72 * 72 <= Square(y1 - x1) /\ Square(y1 - x1) <= 73 * 73
      /\ Square(y1 - x1) \in Nat
  <2>. DEFINE least == 300 span == 361 lo == 72 hi == 73
  <2>1. /\ least \in Int /\ span \in Nat /\ lo \in Nat /\ hi \in Nat
        /\ 5 * lo <= span /\ span <= 5 * hi
    OBVIOUS
  <2>2. OnLine(x1, least, span, i) /\ OnLine(y1, least, span, i + 1)
    BY <1>2
  <2>. HIDE DEF least, span, lo, hi
  <2>3. /\ lo * lo <= Square(y1 - x1) /\ Square(y1 - x1) <= hi * hi
        /\ Square(y1 - x1) \in Nat
    BY <2>1, <2>2, CoordinateStep
  <2>. QED BY <2>3 DEF lo, hi
<1>5. /\ 74 * 74 <= Square(y2 - x2) /\ Square(y2 - x2) <= 75 * 75
      /\ Square(y2 - x2) \in Nat
  <2>. DEFINE least == 214 span == 372 lo == 74 hi == 75
  <2>1. /\ least \in Int /\ span \in Nat /\ lo \in Nat /\ hi \in Nat
        /\ 5 * lo <= span /\ span <= 5 * hi
    OBVIOUS
  <2>2. OnLine(x2, least, span, i) /\ OnLine(y2, least, span, i + 1)
    BY <1>2
  <2>. HIDE DEF least, span, lo, hi
  <2>3. /\ lo * lo <= Square(y2 - x2) /\ Square(y2 - x2) <= hi * hi
        /\ Square(y2 - x2) \in Nat
    BY <2>1, <2>2, CoordinateStep
  <2>. QED BY <2>3 DEF lo, hi
<1>6. /\ 54 * 54 <= Square(y3 - x3) /\ Square(y3 - x3) <= 55 * 55
      /\ Square(y3 - x3) \in Nat
  <2>. DEFINE least == 241 span == 273 lo == 54 hi == 55
  <2>1. /\ least \in Int /\ span \in Nat /\ lo \in Nat /\ hi \in Nat
        /\ 5 * lo <= span /\ span <= 5 * hi
    OBVIOUS
  <2>2. OnLine(x3, least, span, i) /\ OnLine(y3, least, span, i + 1)
    BY <1>2
  <2>. HIDE DEF least, span, lo, hi
  <2>3. /\ lo * lo <= Square(y3 - x3) /\ Square(y3 - x3) <= hi * hi
        /\ Square(y3 - x3) \in Nat
    BY <2>1, <2>2, CoordinateStep
  <2>. QED BY <2>3 DEF lo, hi
<1>. QED BY SMT, <1>3, <1>4, <1>5, <1>6

LEMMA StepsAlike ==
  ASSUME NEW colour \in Colours, NEW i \in Nat
  PROVE  /\ Step(colour) \in Int /\ Step(colour) >= 8000 /\ Step(colour) <= 14000
         /\ Squared(MainVect(colour, i + 1), MainVect(colour, i)) \in Nat
         /\ Squared(MainVect(colour, i + 1), MainVect(colour, i)) <= Step(colour) + 500
<1>1. ASSUME NEW line \in Colours
      PROVE  Step(line) = Squared(MainVect(line, 0 + 1), MainVect(line, 0))
  <2>1. 0 + 1 = 1 /\ 0 \in Int /\ 1 \in Int
    OBVIOUS
  <2>2. MainVect(line, 0) \in Cube /\ MainVect(line, 1) \in Cube
    BY <2>1, MainInCube
  <2>. QED BY <2>1, <2>2, SquaredBothWays DEF Step
<1>2. 0 \in Colours /\ 1 \in Colours /\ 2 \in Colours /\ 0 \in Nat
  BY DEF Colours
<1>3. Step(0) \in 12166 .. 12414 /\ Step(1) \in 8634 .. 8846 /\ Step(2) \in 13576 .. 13979
  BY SMT, <1>1, <1>2, WhiteSteps, RedSteps, GreenSteps
<1>4. ASSUME NEW c \in Int, NEW lo \in Nat, NEW hi \in Nat, c \in {0, 1, 2},
             Step(c) \in lo .. hi, Squared(MainVect(c, i + 1), MainVect(c, i)) \in lo .. hi,
             8000 <= lo, hi <= lo + 500, hi <= 14000
      PROVE  /\ Step(c) \in Int /\ Step(c) >= 8000 /\ Step(c) <= 14000
             /\ Squared(MainVect(c, i + 1), MainVect(c, i)) \in Nat
             /\ Squared(MainVect(c, i + 1), MainVect(c, i)) <= Step(c) + 500
  <2>. DEFINE step == Step(c)
              along == Squared(MainVect(c, i + 1), MainVect(c, i))
  <2>1. step \in lo .. hi /\ along \in lo .. hi
    BY <1>4
  <2>. HIDE DEF step, along
  <2>2. /\ step \in Int /\ step >= 8000 /\ step <= 14000
        /\ along \in Nat /\ along <= step + 500
    BY SMT, <1>4, <2>1
  <2>. QED BY SMT, <2>2 DEF step, along
<1>5. CASE colour = 0
  <2>1. Step(0) \in 12166 .. 12414 /\ Squared(MainVect(0, i + 1), MainVect(0, i)) \in 12166 .. 12414
    BY SMT, <1>3, WhiteSteps, RedSteps, GreenSteps
  <2>2. 0 \in Int /\ 0 \in {0, 1, 2}
    BY SMT
  <2>. DEFINE lo == 12166 hi == 12414
  <2>3. /\ lo \in Nat /\ hi \in Nat /\ Step(0) \in lo .. hi
        /\ Squared(MainVect(0, i + 1), MainVect(0, i)) \in lo .. hi
        /\ 8000 <= lo /\ hi <= lo + 500 /\ hi <= 14000
    BY SMT, <2>1
  <2>. HIDE DEF lo, hi
  <2>. QED BY SMT, <1>5, <1>4, <2>2, <2>3
<1>6. CASE colour = 1
  <2>1. Step(1) \in 8634 .. 8846 /\ Squared(MainVect(1, i + 1), MainVect(1, i)) \in 8634 .. 8846
    BY SMT, <1>3, WhiteSteps, RedSteps, GreenSteps
  <2>2. 1 \in Int /\ 1 \in {0, 1, 2}
    BY SMT
  <2>. DEFINE lo == 8634 hi == 8846
  <2>3. /\ lo \in Nat /\ hi \in Nat /\ Step(1) \in lo .. hi
        /\ Squared(MainVect(1, i + 1), MainVect(1, i)) \in lo .. hi
        /\ 8000 <= lo /\ hi <= lo + 500 /\ hi <= 14000
    BY SMT, <2>1
  <2>. HIDE DEF lo, hi
  <2>. QED BY SMT, <1>6, <1>4, <2>2, <2>3
<1>7. CASE colour = 2
  <2>1. Step(2) \in 13576 .. 13979 /\ Squared(MainVect(2, i + 1), MainVect(2, i)) \in 13576 .. 13979
    BY SMT, <1>3, WhiteSteps, RedSteps, GreenSteps
  <2>2. 2 \in Int /\ 2 \in {0, 1, 2}
    BY SMT
  <2>. DEFINE lo == 13576 hi == 13979
  <2>3. /\ lo \in Nat /\ hi \in Nat /\ Step(2) \in lo .. hi
        /\ Squared(MainVect(2, i + 1), MainVect(2, i)) \in lo .. hi
        /\ 8000 <= lo /\ hi <= lo + 500 /\ hi <= 14000
    BY SMT, <2>1
  <2>. HIDE DEF lo, hi
  <2>. QED BY SMT, <1>7, <1>4, <2>2, <2>3
<1>. QED BY SMT, <1>5, <1>6, <1>7 DEF Colours

(* A point that is near its neighbour's neighbourhood.                     *)
LEMMA OverAStep ==
  ASSUME NEW a \in Int, NEW b \in Int, NEW c \in Int
  PROVE  4 * Square(b - c) <= 20 * Square(a - c) + 5 * Square(b - a)
<1>. DEFINE x == a - c
            y == b - a
<1>1. (4 * x - y) * (4 * x - y) >= 0
  OBVIOUS
<1>2. (4 * x - y) * (4 * x - y) = 16 * (x * x) - 8 * (x * y) + y * y
  OBVIOUS
<1>3. (x + y) * (x + y) = x * x + 2 * (x * y) + y * y
  OBVIOUS
<1>4. x + y = b - c
  OBVIOUS
<1>. QED BY <1>1, <1>2, <1>3, <1>4 DEF Square

LEMMA SquaredOverAStep ==
  ASSUME NEW p \in Cube, NEW q \in Cube, NEW t \in Cube
  PROVE  4 * Squared(q, t) <= 20 * Squared(p, t) + 5 * Squared(q, p)
<1>1. \A j \in 1 .. 3 : p[j] \in Int /\ q[j] \in Int /\ t[j] \in Int
  BY DEF Cube
<1>2. \A j \in 1 .. 3 :
        4 * Square(q[j] - t[j]) <= 20 * Square(p[j] - t[j]) + 5 * Square(q[j] - p[j])
  BY <1>1, OverAStep
<1>3. \A j \in 1 .. 3 : /\ Square(q[j] - t[j]) \in Nat /\ Square(p[j] - t[j]) \in Nat
                        /\ Square(q[j] - p[j]) \in Nat
  BY <1>1, SquareInNat
<1>. QED BY <1>2, <1>3 DEF Squared

-----------------------------------------------------------------------------
(* What color_dist() looks at.                                             *)
LEMMA PointDistInNat ==
  ASSUME NEW colour \in Colours, NEW i \in Points, NEW test \in Cube
  PROVE  PointDist(colour, i, test) \in Nat
<1>1. i \in Int
  BY DEF Points, VECT_INCR
<1>. QED BY <1>1, MainInCube, SquaredInNat DEF PointDist

LEMMA ShortestOf ==
  ASSUME NEW colour \in Colours, NEW test \in Cube, NEW points \in SUBSET Points, points # {}
  PROVE  LET shortest == Shortest({PointDist(colour, i, test) : i \in points})
         IN  /\ shortest \in Nat
             /\ \E i \in points : shortest = PointDist(colour, i, test)
             /\ \A i \in points : shortest <= PointDist(colour, i, test)
<1>. DEFINE dists == {PointDist(colour, i, test) : i \in points}
<1>1. dists \subseteq Nat
  BY PointDistInNat
<1>2. dists # {}
  <2>1. PICK i \in points : TRUE
    OBVIOUS
  <2>2. PointDist(colour, i, test) \in dists
    BY <2>1
  <2>. QED BY <2>2
<1>3. Shortest(dists) \in dists /\ \A d \in dists : Shortest(dists) <= d
  BY <1>1, <1>2, ShortestIsLeast
<1>. QED BY <1>1, <1>3

LEMMA CountsTheLast ==
  ASSUME NEW colour, NEW test
  PROVE  Counted(colour, test) \in SUBSET Points /\ 99 \in Counted(colour, test)
BY DEF Counted, Points, VECT_INCR

LEMMA LeastDistFound ==
  ASSUME NEW colour \in Colours, NEW test \in Cube
  PROVE  /\ LeastDist(colour, test) \in Nat
         /\ \E i \in Points : LeastDist(colour, test) = PointDist(colour, i, test)
         /\ \A i \in Points : LeastDist(colour, test) <= PointDist(colour, i, test)
<1>1. Points # {}
  BY DEF Points, VECT_INCR
<1>. QED BY <1>1, ShortestOf DEF LeastDist

LEMMA ColorDistFound ==
  ASSUME NEW colour \in Colours, NEW test \in Cube
  PROVE  /\ ColorDist(colour, test) \in Nat
         /\ \E i \in Counted(colour, test) : ColorDist(colour, test) = PointDist(colour, i, test)
         /\ \A i \in Counted(colour, test) : ColorDist(colour, test) <= PointDist(colour, i, test)
<1>1. Counted(colour, test) # {} /\ Counted(colour, test) \in SUBSET Points
  BY CountsTheLast
<1>. QED BY <1>1, ShortestOf DEF ColorDist

(* The point behind one that is nearer than 1 is at most a step away.      *)
LEMMA NextPoint ==
  ASSUME NEW colour \in Colours, NEW test \in Cube, NEW i \in Points, i + 1 \in Points,
         StartsOver(PointDist(colour, i, test))
  PROVE  PointDist(colour, i + 1, test) <= 2 * (Square(Unit) + Step(colour))
<1>1. i \in Nat /\ i \in Int /\ i + 1 \in Int
  BY DEF Points, VECT_INCR
<1>. DEFINE here == PointDist(colour, i, test)
            there == PointDist(colour, i + 1, test)
            along == Squared(MainVect(colour, i + 1), MainVect(colour, i))
<1>2. here \in Nat /\ there \in Nat
  BY PointDistInNat
<1>3. Square(Unit) = 400
  BY DEF Square, Unit
<1>4. here < 400
  BY <1>3 DEF StartsOver
<1>5. /\ Step(colour) \in Int /\ Step(colour) >= 8000
      /\ along \in Nat /\ along <= Step(colour) + 500
  BY <1>1, StepsAlike
<1>6. 4 * there <= 20 * here + 5 * along
  BY <1>1, MainInCube, SquaredOverAStep DEF PointDist
<1>. HIDE DEF here, there, along
<1>7. there <= 2 * (400 + Step(colour))
  BY SMT, <1>2, <1>4, <1>5, <1>6
<1>. QED BY <1>3, <1>7 DEF there

(* color_dist() for any averages: its result is the true distance from the *)
(* line, or the true one is below 1 and the result less than a step more   *)
(* than the code would call near: what the restart at min_dist < 1 forgets *)
(* is never more than the next point's worth (colorsensor.ino:50-77).      *)
THEOREM NoneForgetsMore ==
  ASSUME NEW colour \in Colours, NEW test \in Cube
  PROVE  ForgetsAStep(colour, test)
<1>. DEFINE found == ColorDist(colour, test)
            least == LeastDist(colour, test)
            restartsAt == {i \in Points : StartsOver(PointDist(colour, i, test))}
<1>. SUFFICES \/ found = least
              \/ /\ least < Square(Unit)
                 /\ least < found /\ found <= 2 * (Square(Unit) + Step(colour))
  BY DEF ForgetsAStep
<1>1. Counted(colour, test) = {i \in Points : i = 99 \/ \A s \in restartsAt : s < i}
  BY DEF Counted, VECT_INCR
<1>2. least \in Nat /\ found \in Nat /\ least <= found
  BY LeastDistFound, ColorDistFound, CountsTheLast
<1>3. CASE restartsAt = {}
  <2>1. Counted(colour, test) = Points
    BY <1>1, <1>3
  <2>. QED BY <2>1 DEF ColorDist, LeastDist
<1>4. CASE restartsAt # {}
  <2>1. PICK last \in restartsAt : \A s \in restartsAt : s <= last
    BY <1>4, LastOf
  <2>2. last \in Points /\ last \in 0 .. 99 /\ StartsOver(PointDist(colour, last, test))
    BY DEF Points, VECT_INCR
  <2>3. PointDist(colour, last, test) < Square(Unit) /\ Square(Unit) = 400
    BY <2>2 DEF StartsOver, Square, Unit
  <2>4. least < Square(Unit)
    BY <1>2, <2>2, <2>3, PointDistInNat, LeastDistFound
  <2>5. found <= 2 * (Square(Unit) + Step(colour))
    <3>1. CASE last = 99
      <4>1. found <= PointDist(colour, last, test)
        BY <3>1, ColorDistFound, CountsTheLast
      <4>2. Step(colour) \in Int /\ Step(colour) >= 8000
        BY StepsAlike
      <4>. HIDE DEF found
      <4>. QED BY SMT, <1>2, <2>2, <2>3, <4>1, <4>2, PointDistInNat
    <3>2. CASE last # 99
      <4>1. last + 1 \in Points /\ \A s \in restartsAt : s < last + 1
        BY <2>1, <2>2, <3>2 DEF Points, VECT_INCR
      <4>2. last + 1 \in Counted(colour, test)
        BY <1>1, <4>1
      <4>3. found <= PointDist(colour, last + 1, test)
        BY <4>2, ColorDistFound
      <4>4. PointDist(colour, last + 1, test) <= 2 * (Square(Unit) + Step(colour))
        BY <2>2, <4>1, NextPoint
      <4>5. PointDist(colour, last + 1, test) \in Nat /\ 2 * (Square(Unit) + Step(colour)) \in Int
        <5>1. Step(colour) \in Int
          BY StepsAlike
        <5>. QED BY <2>3, <4>1, <5>1, PointDistInNat
      <4>. HIDE DEF found
      <4>. QED BY <1>2, <4>3, <4>4, <4>5
    <3>. QED BY <3>1, <3>2
  <2>. HIDE DEF found, least
  <2>. QED BY <1>2, <2>4, <2>5
<1>. QED BY <1>3, <1>4

(* In particular for the points the run tries (colorsensor.ino:70).        *)
THEOREM ForgetsLittle == ForgetsAtMostAStep
<1>1. ASSUME NEW line \in Colours, NEW i \in Sampled
      PROVE  MainVect(line, i) \in Cube
  BY MainInCube DEF Sampled, Points, VECT_INCR
<1>2. ForgetsAStepAtMost
  BY <1>1, NoneForgetsMore DEF ForgetsAStepAtMost
<1>. QED BY <1>2 DEF ForgetsAtMostAStep

-----------------------------------------------------------------------------
(* getColor() for any averages: whatever is within 33 microseconds of a    *)
(* point of the line of a colour is named that colour.  The lines of white *)
(* and green come as near to each other as 66.5 microseconds, so that half *)
(* a microsecond more would be too much (colorsensor.ino:26-40, 111-150).  *)
THEOREM WhatIsNearIsRecognised ==
  ASSUME NEW colour \in Colours, NEW i \in Points, NEW test \in Cube,
         Squared(MainVect(colour, i), test) <= Square(Radius)
  PROVE  ClosestColor(test) = colour
<1>. DEFINE dist == [c \in Colours |-> ColorDist(c, test)]
<1>1. Square(Radius) = 435600 /\ Square(Unit) = 400
  BY SMT DEF Square, Radius, Unit
<1>2. i \in Int
  BY DEF Points, VECT_INCR
<1>3. ColorDist(colour, test) <= Square(Radius)
  <2>. DEFINE found == ColorDist(colour, test)
              least == LeastDist(colour, test)
  <2>1. \/ found = least
        \/ found <= 2 * (Square(Unit) + Step(colour))
    BY NoneForgetsMore DEF ForgetsAStep
  <2>2. found \in Nat /\ least \in Nat /\ least <= Square(Radius)
    <3>1. least <= PointDist(colour, i, test) /\ PointDist(colour, i, test) \in Nat
      BY LeastDistFound, PointDistInNat
    <3>2. PointDist(colour, i, test) <= Square(Radius)
      BY DEF PointDist
    <3>3. found \in Nat /\ least \in Nat
      BY LeastDistFound, ColorDistFound
    <3>. HIDE DEF found, least
    <3>. QED BY SMT, <1>1, <3>1, <3>2, <3>3
  <2>3. Step(colour) \in Int /\ Step(colour) <= 14000
    BY StepsAlike, 0 \in Nat
  <2>. HIDE DEF found, least
  <2>4. found <= Square(Radius)
    BY SMT, <1>1, <2>1, <2>2, <2>3
  <2>. QED BY SMT, <2>4 DEF found
<1>4. ASSUME NEW other \in Colours, other # colour
      PROVE  ColorDist(other, test) > Square(Radius)
  <2>1. PICK k \in Points : ColorDist(other, test) = PointDist(other, k, test)
    BY ColorDistFound, CountsTheLast
  <2>2. Squared(MainVect(colour, i), MainVect(other, k)) > 4 * Square(Radius)
    BY <1>4, LinesApart
  <2>3. MainVect(colour, i) \in Cube /\ MainVect(other, k) \in Cube
    BY <1>2, MainInCube DEF Points, VECT_INCR
  <2>4. Squared(MainVect(colour, i), MainVect(other, k))
          <= 2 * (Squared(MainVect(colour, i), test) + Squared(MainVect(other, k), test))
    BY <2>3, NearAThird
  <2>5. /\ Squared(MainVect(colour, i), MainVect(other, k)) \in Nat
        /\ Squared(MainVect(colour, i), test) \in Nat /\ Squared(MainVect(other, k), test) \in Nat
    BY <2>3, SquaredInNat
  <2>6. Squared(MainVect(other, k), test) > Square(Radius)
    BY SMT, <1>1, <2>2, <2>4, <2>5
  <2>. QED BY SMT, <2>1, <2>6 DEF PointDist
<1>5. \A c \in Colours : dist[c] = ColorDist(c, test) /\ dist[c] \in Nat
  BY ColorDistFound
<1>6. ASSUME NEW other \in Colours, other # colour
      PROVE  dist[colour] < dist[other]
  <2>1. ColorDist(colour, test) < ColorDist(other, test)
    BY SMT, <1>1, <1>3, <1>4, <1>6, ColorDistFound
  <2>. QED BY <1>5, <2>1
<1>. HIDE DEF dist
<1>7. \A c \in Colours :
        (\A other \in Colours : dist[c] < dist[other] \/ (dist[c] = dist[other] /\ c <= other))
          <=> c = colour
  <2>1. ASSUME NEW c \in Colours, c # colour
        PROVE  ~ (dist[c] < dist[colour] \/ (dist[c] = dist[colour] /\ c <= colour))
    BY <1>5, <1>6, <2>1
  <2>2. \A other \in Colours :
          dist[colour] < dist[other] \/ (dist[colour] = dist[other] /\ colour <= other)
    BY <1>6 DEF Colours
  <2>. QED BY <2>1, <2>2, Zenon
<1>. QED BY <1>7, Zenon DEF ClosestColor, dist

-----------------------------------------------------------------------------
(* Five periods of this length are still an int together.                  *)
Longest == 6553

(* getAvgReading() of five periods that an int can sum is their average:   *)
(* up to 6.5 milliseconds each (colorsensor.ino:79-86).                    *)
THEOREM AverageOfFive ==
  ASSUME NEW a \in Nat, NEW b \in Nat, NEW c \in Nat, NEW d \in Nat, NEW e \in Nat,
         a <= Longest, b <= Longest, c <= Longest, d <= Longest, e <= Longest
  PROVE  AvgReading(<<a, b, c, d, e>>) = 4 * (a + b + c + d + e)
<1>. DEFINE s == <<a, b, c, d, e>>
            colSum[i \in 0 .. Len(s)] ==
              IF i = 0 THEN 0 ELSE SumInInt(colSum[i - 1] + s[i])
            sums == [i \in 0 .. 5 |->
                       IF i = 0 THEN 0 ELSE
                       IF i = 1 THEN a ELSE
                       IF i = 2 THEN a + b ELSE
                       IF i = 3 THEN a + b + c ELSE
                       IF i = 4 THEN a + b + c + d ELSE a + b + c + d + e]
<1>1. Len(s) = 5 /\ s[1] = a /\ s[2] = b /\ s[3] = c /\ s[4] = d /\ s[5] = e
  OBVIOUS
<1>2. ASSUME NEW n \in Int, 0 <= n, n <= 32767
      PROVE  SumInInt(n) = n
  <2>1. n + 32768 \in Int /\ 0 <= n + 32768 /\ n + 32768 < 65536
    BY SMT, <1>2
  <2>2. (n + 32768) % 65536 = n + 32768
    BY SMT, <2>1
  <2>. QED BY SMT, <2>2 DEF SumInInt
<1>3. /\ SumInInt(0 + a) = a
      /\ SumInInt(a + b) = a + b
      /\ SumInInt(a + b + c) = a + b + c
      /\ SumInInt(a + b + c + d) = a + b + c + d
      /\ SumInInt(a + b + c + d + e) = a + b + c + d + e
  <2>1. 0 + a \in Int /\ 0 <= 0 + a /\ 0 + a <= 32767 /\ 0 + a = a
    BY SMT DEF Longest
  <2>2. a + b \in Int /\ 0 <= a + b /\ a + b <= 32767
    BY SMT DEF Longest
  <2>3. a + b + c \in Int /\ 0 <= a + b + c /\ a + b + c <= 32767
    BY SMT DEF Longest
  <2>4. a + b + c + d \in Int /\ 0 <= a + b + c + d /\ a + b + c + d <= 32767
    BY SMT DEF Longest
  <2>5. a + b + c + d + e \in Int /\ 0 <= a + b + c + d + e /\ a + b + c + d + e <= 32767
    BY SMT DEF Longest
  <2>6. SumInInt(a + b) = a + b
    BY SMT, <1>2, <2>2
  <2>7. SumInInt(a + b + c) = a + b + c
    BY SMT, <1>2, <2>3
  <2>8. SumInInt(a + b + c + d) = a + b + c + d
    BY SMT, <1>2, <2>4
  <2>9. SumInInt(a + b + c + d + e) = a + b + c + d + e
    BY SMT, <1>2, <2>5
  <2>10. SumInInt(0 + a) = a
    BY SMT, <1>2, <2>1
  <2>. QED BY SMT, <2>6, <2>7, <2>8, <2>9, <2>10
<1>. HIDE DEF s
<1>4. sums = [i \in 0 .. Len(s) |-> IF i = 0 THEN 0 ELSE SumInInt(sums[i - 1] + s[i])]
  <2>1. /\ sums[0] = 0 /\ sums[1] = a /\ sums[2] = a + b /\ sums[3] = a + b + c
        /\ sums[4] = a + b + c + d /\ sums[5] = a + b + c + d + e
    BY SMT
  <2>2. sums = [i \in 0 .. 5 |-> sums[i]]
    OBVIOUS
  <2>. HIDE DEF sums
  <2>3. ASSUME NEW i \in 0 .. 5
        PROVE  sums[i] = IF i = 0 THEN 0 ELSE SumInInt(sums[i - 1] + s[i])
    <3>1. i = 0 \/ i = 1 \/ i = 2 \/ i = 3 \/ i = 4 \/ i = 5
      BY SMT
    <3>. QED BY SMT, <1>1, <1>3, <2>1, <3>1
  <2>. QED BY SMT, <1>1, <2>2, <2>3
<1>5. colSum = [i \in 0 .. Len(s) |-> IF i = 0 THEN 0 ELSE SumInInt(colSum[i - 1] + s[i])]
  <2>1. \E f : f = [i \in 0 .. Len(s) |-> IF i = 0 THEN 0 ELSE SumInInt(f[i - 1] + s[i])]
    <3>. HIDE DEF sums, colSum
    <3>. QED BY <1>4, Zenon
  <2>. QED BY <2>1, Zenon DEF colSum
<1>6. AvgReading(s) = (20 * colSum[5]) \div 5
  BY <1>1 DEF AvgReading, Unit
<1>. HIDE DEF colSum, sums
<1>7. colSum[0] = 0 /\ colSum[1] = SumInInt(colSum[0] + s[1])
  BY SMT, <1>1, <1>5
<1>8. colSum[2] = SumInInt(colSum[1] + s[2]) /\ colSum[3] = SumInInt(colSum[2] + s[3])
  BY SMT, <1>1, <1>5
<1>9. colSum[4] = SumInInt(colSum[3] + s[4]) /\ colSum[5] = SumInInt(colSum[4] + s[5])
  BY SMT, <1>1, <1>5
<1>10. colSum[5] = a + b + c + d + e
  BY SMT, <1>1, <1>3, <1>7, <1>8, <1>9
<1>. QED BY SMT, <1>6, <1>10 DEF s

(* The same for the papers and the readings the run tries.                 *)
LEMMA AverageIsMiddle ==
  ASSUME NEW m \in Nat, 4 <= m, m <= 2000, NEW j \in Channels, NEW p, p[j] = m
  PROVE  AvgReading(Readings(p)[j]) = 20 * m
<1>. DEFINE s == <<m - 4, m - 2, m, m + 2, m + 4>>
<1>1. Readings(p)[j] = [n \in 1 .. 5 |-> m + 2 * (n - 3)]
  BY DEF Readings
<1>2. [n \in 1 .. 5 |-> m + 2 * (n - 3)] = s
  BY SMT
<1>3. /\ m - 4 \in Nat /\ m - 2 \in Nat /\ m \in Nat /\ m + 2 \in Nat /\ m + 4 \in Nat
      /\ m - 4 <= Longest /\ m - 2 <= Longest /\ m <= Longest
      /\ m + 2 <= Longest /\ m + 4 <= Longest
  BY SMT DEF Longest
<1>4. AvgReading(s) = 4 * ((m - 4) + (m - 2) + m + (m + 2) + (m + 4))
  BY SMT, <1>3, AverageOfFive
<1>. QED BY SMT, <1>1, <1>2, <1>4

LEMMA CoordinateWithin ==
  ASSUME NEW least \in Nat, NEW span \in Nat, NEW i \in Points, NEW c, OnLine(c, least, span, i)
  PROVE  c \in Int /\ 20 * least <= c /\ c <= 20 * (least + span)
<1>1. i \in Int /\ 0 <= i /\ i <= 99
  BY DEF Points, VECT_INCR
<1>2. span * i \in Int /\ 0 <= span * i /\ span * i <= span * 99
  BY <1>1
<1>3. c \in Int /\ 5 * (c - 20 * least) <= span * 99 /\ 0 < 5 * (c - 20 * least) + 5
  BY <1>2 DEF OnLine
<1>. QED BY <1>3

(* Between 50 microseconds and a millisecond, as the ends of all lines are. *)
APeriod(c) == c \in Int /\ 20 * 50 <= c /\ c <= 20 * 1000

LEMMA PeriodsWithin ==
  ASSUME NEW colour \in Colours, NEW i \in Points, NEW j \in Channels
  PROVE  APeriod(MainVect(colour, i)[j])
<1>1. i \in Int
  BY DEF Points, VECT_INCR
<1>2. ASSUME NEW least \in Nat, NEW span \in Nat, NEW c, OnLine(c, least, span, i),
             50 <= least, least + span <= 1000
      PROVE  APeriod(c)
  <2>1. c \in Int /\ 20 * least <= c /\ c <= 20 * (least + span)
    BY <1>2, CoordinateWithin
  <2>. QED BY SMT, <1>2, <2>1 DEF APeriod
<1>3. CASE colour = 0
  <2>1. APeriod(MainCoordinate(118, 453, i))
    <3>. DEFINE least == 118 span == 335 c == MainCoordinate(118, 453, i)
    <3>1. least \in Nat /\ span \in Nat /\ 50 <= least /\ least + span <= 1000
      BY SMT
    <3>2. OnLine(c, least, span, i)
      BY SMT, <1>1, White
    <3>. HIDE DEF least, span, c
    <3>3. APeriod(c)
      BY SMT, <1>2, <3>1, <3>2
    <3>. QED BY <3>3 DEF c
  <2>2. APeriod(MainCoordinate(114, 461, i))
    <3>. DEFINE least == 114 span == 347 c == MainCoordinate(114, 461, i)
    <3>1. least \in Nat /\ span \in Nat /\ 50 <= least /\ least + span <= 1000
      BY SMT
    <3>2. OnLine(c, least, span, i)
      BY SMT, <1>1, White
    <3>. HIDE DEF least, span, c
    <3>3. APeriod(c)
      BY SMT, <1>2, <3>1, <3>2
    <3>. QED BY <3>3 DEF c
  <2>3. APeriod(MainCoordinate(91, 364, i))
    <3>. DEFINE least == 91 span == 273 c == MainCoordinate(91, 364, i)
    <3>1. least \in Nat /\ span \in Nat /\ 50 <= least /\ least + span <= 1000
      BY SMT
    <3>2. OnLine(c, least, span, i)
      BY SMT, <1>1, White
    <3>. HIDE DEF least, span, c
    <3>3. APeriod(c)
      BY SMT, <1>2, <3>1, <3>2
    <3>. QED BY <3>3 DEF c
  <2>4. MainVect(colour, i) = <<MainCoordinate(118, 453, i), MainCoordinate(114, 461, i),
                               MainCoordinate(91, 364, i)>>
    BY <1>1, <1>3, White
  <2>5. j = 1 \/ j = 2 \/ j = 3
    BY SMT DEF Channels
  <2>. QED BY SMT, <2>1, <2>2, <2>3, <2>4, <2>5
<1>4. CASE colour = 1
  <2>1. APeriod(MainCoordinate(223, 552, i))
    <3>. DEFINE least == 223 span == 329 c == MainCoordinate(223, 552, i)
    <3>1. least \in Nat /\ span \in Nat /\ 50 <= least /\ least + span <= 1000
      BY SMT
    <3>2. OnLine(c, least, span, i)
      BY SMT, <1>1, Red
    <3>. HIDE DEF least, span, c
    <3>3. APeriod(c)
      BY SMT, <1>2, <3>1, <3>2
    <3>. QED BY <3>3 DEF c
  <2>2. APeriod(MainCoordinate(458, 723, i))
    <3>. DEFINE least == 458 span == 265 c == MainCoordinate(458, 723, i)
    <3>1. least \in Nat /\ span \in Nat /\ 50 <= least /\ least + span <= 1000
      BY SMT
    <3>2. OnLine(c, least, span, i)
      BY SMT, <1>1, Red
    <3>. HIDE DEF least, span, c
    <3>3. APeriod(c)
      BY SMT, <1>2, <3>1, <3>2
    <3>. QED BY <3>3 DEF c
  <2>3. APeriod(MainCoordinate(355, 558, i))
    <3>. DEFINE least == 355 span == 203 c == MainCoordinate(355, 558, i)
    <3>1. least \in Nat /\ span \in Nat /\ 50 <= least /\ least + span <= 1000
      BY SMT
    <3>2. OnLine(c, least, span, i)
      BY SMT, <1>1, Red
    <3>. HIDE DEF least, span, c
    <3>3. APeriod(c)
      BY SMT, <1>2, <3>1, <3>2
    <3>. QED BY <3>3 DEF c
  <2>4. MainVect(colour, i) = <<MainCoordinate(223, 552, i), MainCoordinate(458, 723, i),
                               MainCoordinate(355, 558, i)>>
    BY <1>1, <1>4, Red
  <2>5. j = 1 \/ j = 2 \/ j = 3
    BY SMT DEF Channels
  <2>. QED BY SMT, <2>1, <2>2, <2>3, <2>4, <2>5
<1>5. CASE colour = 2
  <2>1. APeriod(MainCoordinate(300, 661, i))
    <3>. DEFINE least == 300 span == 361 c == MainCoordinate(300, 661, i)
    <3>1. least \in Nat /\ span \in Nat /\ 50 <= least /\ least + span <= 1000
      BY SMT
    <3>2. OnLine(c, least, span, i)
      BY SMT, <1>1, Green
    <3>. HIDE DEF least, span, c
    <3>3. APeriod(c)
      BY SMT, <1>2, <3>1, <3>2
    <3>. QED BY <3>3 DEF c
  <2>2. APeriod(MainCoordinate(214, 586, i))
    <3>. DEFINE least == 214 span == 372 c == MainCoordinate(214, 586, i)
    <3>1. least \in Nat /\ span \in Nat /\ 50 <= least /\ least + span <= 1000
      BY SMT
    <3>2. OnLine(c, least, span, i)
      BY SMT, <1>1, Green
    <3>. HIDE DEF least, span, c
    <3>3. APeriod(c)
      BY SMT, <1>2, <3>1, <3>2
    <3>. QED BY <3>3 DEF c
  <2>3. APeriod(MainCoordinate(241, 514, i))
    <3>. DEFINE least == 241 span == 273 c == MainCoordinate(241, 514, i)
    <3>1. least \in Nat /\ span \in Nat /\ 50 <= least /\ least + span <= 1000
      BY SMT
    <3>2. OnLine(c, least, span, i)
      BY SMT, <1>1, Green
    <3>. HIDE DEF least, span, c
    <3>3. APeriod(c)
      BY SMT, <1>2, <3>1, <3>2
    <3>. QED BY <3>3 DEF c
  <2>4. MainVect(colour, i) = <<MainCoordinate(300, 661, i), MainCoordinate(214, 586, i),
                               MainCoordinate(241, 514, i)>>
    BY <1>1, <1>5, Green
  <2>5. j = 1 \/ j = 2 \/ j = 3
    BY SMT DEF Channels
  <2>. QED BY SMT, <2>1, <2>2, <2>3, <2>4, <2>5
<1>. QED BY <1>3, <1>4, <1>5 DEF Colours

(* In particular every paper the run tries, from the five readings through *)
(* each filter to the name (colorsensor.ino:111-150).                      *)
THEOREM PapersAreRecognised == ColoursAreRecognised
<1>1. ASSUME NEW colour \in Colours, NEW i \in Sampled, NEW p \in Near(colour, i)
      PROVE  ClosestColor(ColorTest(Readings(p))) = colour
  <2>1. i \in Points /\ i \in Int
    BY DEF Sampled, Points, VECT_INCR
  <2>. DEFINE main == MainVect(colour, i)
              test == ColorTest(Readings(p))
  <2>2. PICK move \in [Channels -> {-Spread, Spread}] :
          p = [j \in Channels |-> main[j] \div Unit + move[j]]
    BY DEF Near
  <2>3. ASSUME NEW j \in Channels
        PROVE  /\ p[j] \in Nat /\ 4 <= p[j] /\ p[j] <= 2000
               /\ main[j] \in Int /\ -240 <= main[j] - 20 * p[j] /\ main[j] - 20 * p[j] <= 259
    <3>1. main[j] \in Int /\ 20 * 50 <= main[j] /\ main[j] <= 20 * 1000
      BY <2>1, PeriodsWithin DEF APeriod
    <3>2. p[j] = main[j] \div 20 + move[j] /\ (move[j] = -12 \/ move[j] = 12)
      BY <2>2 DEF Unit, Spread
    <3>. HIDE DEF main
    <3>3. main[j] \div 20 \in Int /\ 20 * (main[j] \div 20) <= main[j] /\ main[j] <= 20 * (main[j] \div 20) + 19
      BY SMT, <3>1
    <3>. QED BY SMT, <3>1, <3>2, <3>3
  <2>4. test = <<20 * p[1], 20 * p[2], 20 * p[3]>>
    <3>1. ASSUME NEW j \in Channels
          PROVE  AvgReading(Readings(p)[j]) = 20 * p[j]
      BY <2>3, AverageIsMiddle
    <3>. QED BY <3>1 DEF ColorTest, Channels
  <2>5. test \in Cube
    BY <2>3, <2>4 DEF Cube, Channels
  <2>. HIDE DEF main, test
  <2>6. ASSUME NEW j \in Channels
        PROVE  /\ Square(main[j] - test[j]) \in Int
               /\ Square(main[j] - test[j]) <= 259 * 259
    <3>. DEFINE off == main[j] - 20 * p[j]
    <3>1. off \in Int /\ -240 <= off /\ off <= 259
      BY <2>3
    <3>2. test[j] = 20 * p[j]
      BY <2>4 DEF Channels
    <3>. HIDE DEF off
    <3>3. Square(off) <= 259 * 259
      <4>1. (259 - off) * (259 + off) >= 0
        BY SMT, <3>1
      <4>2. (259 - off) * (259 + off) = 259 * 259 - off * off
        BY SMT, <3>1
      <4>. QED BY SMT, <3>1, <4>1, <4>2 DEF Square
    <3>. QED BY SMT, <3>1, <3>2, <3>3, SquareInNat DEF off
  <2>7. Squared(main, test) <= Square(Radius)
    <3>1. Square(Radius) = 435600
      BY SMT DEF Square, Radius, Unit
    <3>2. 1 \in Channels /\ 2 \in Channels /\ 3 \in Channels
      BY DEF Channels
    <3>. QED BY SMT, <2>6, <3>1, <3>2 DEF Squared
  <2>. QED BY <2>1, <2>5, <2>7, WhatIsNearIsRecognised DEF main, test
<1>2. RecognisesColours
  BY <1>1 DEF RecognisesColours
<1>. QED BY <1>2 DEF ColoursAreRecognised

=============================================================================
