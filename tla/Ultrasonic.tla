------------------------------ MODULE Ultrasonic ------------------------------
(***************************************************************************)
(* The ultrasonic sensor: getDistance() of the firmware's loop, the        *)
(* interrupt on either edge of the echo, and the sensor itself.            *)
(*                                                                         *)
(* The interrupt is only enabled during a call, but the edges of an echo   *)
(* that outlasts the call still set its flag.  The interrupt does not look *)
(* at the pin: it counts edges, modulo 2.  pulse is read in two bytes.     *)
(*                                                                         *)
(* A width is given by the echo it was timed from; whether it is all of    *)
(* that echo depends on whether the interrupt ran when the echo ended.     *)
(***************************************************************************)
EXTENDS Integers

VARIABLES
  call,         \* where getDistance() is
  answered,     \* has the sensor answered its trigger?
  low,          \* the first byte it has read, as the width it is of
  result,       \* the width it returned, or Torn
  EIMSK,        \* is INT0 enabled?
  INTF0,        \* is an interrupt pending?
  edge, pulse,
  timing,       \* the echo that timer 5 was started for
  late,         \* has the echo that is pending ended outside a call?
  sensor,       \* "idle", "sent" or "echo": the pin is high
  pings         \* echoes so far

loopVars == <<call, answered, low, result, EIMSK>>
isrVars == <<edge, pulse, timing>>
ultrasonicVars == <<loopVars, INTF0, isrVars, late, sensor, pings>>

(* The width of echo n, or of n and some time more.                        *)
Width(n, whole) == [of |-> n, whole |-> whole]
Widths == [of : Nat, whole : BOOLEAN]
Torn == Width(0, FALSE)

UltrasonicTypeOK ==
  /\ call \in {"idle", "trigger", "wait", "low", "high", "mask"}
  /\ answered \in BOOLEAN /\ low \in Widths /\ result \in Widths
  /\ EIMSK \in BOOLEAN /\ INTF0 \in BOOLEAN
  /\ edge \in {0, 1} /\ pulse \in Widths /\ timing \in Nat
  /\ late \in BOOLEAN
  /\ sensor \in {"idle", "sent", "echo"}
  /\ pings \in Nat

(* setupUltrasonic() does not clear the flag: it may be set already.       *)
UltrasonicInit ==
  /\ call = "idle" /\ answered = FALSE /\ low = Width(0, TRUE) /\ result = Width(0, TRUE)
  /\ EIMSK = FALSE /\ INTF0 \in BOOLEAN
  /\ edge = 0 /\ pulse = Width(0, TRUE) /\ timing = 0
  /\ late = FALSE
  /\ sensor = "idle" /\ pings = 0

-----------------------------------------------------------------------------
(* ISR(INT0_vect), which the processor prefers to the loop.                *)
Pending == EIMSK /\ INTF0

INT0_vect ==
  /\ Pending
  /\ INTF0' = FALSE /\ late' = FALSE
  /\ edge' = 1 - edge
  /\ IF edge = 0
     THEN timing' = pings /\ UNCHANGED pulse
     ELSE pulse' = Width(timing, ~late) /\ UNCHANGED timing
  /\ UNCHANGED <<loopVars, sensor, pings>>

(* getDistance(), one access to what it shares at a time.                  *)
Enable ==
  /\ call = "idle"
  /\ call' = "trigger" /\ EIMSK' = TRUE
  /\ UNCHANGED <<answered, low, result, INTF0, isrVars, late, sensor, pings>>

(* triggerUltrasonic(): a sensor that is still busy does not answer.       *)
Trigger ==
  /\ call = "trigger" /\ ~Pending
  /\ call' = "wait"
  /\ \/ /\ sensor = "idle"
        /\ sensor' = "sent" /\ pings' = pings + 1 /\ answered' = TRUE
     \/ answered' = FALSE /\ UNCHANGED <<sensor, pings>>
  /\ UNCHANGED <<low, result, EIMSK, INTF0, isrVars, late>>

(* Its 20 ms are enough for an echo to begin, but not for any to end.      *)
Waited ==
  /\ call = "wait" /\ ~Pending /\ sensor # "sent"
  /\ call' = "low"
  /\ UNCHANGED <<answered, low, result, EIMSK, INTF0, isrVars, late, sensor, pings>>

(* readPulse()                                                             *)
ReadLow ==
  /\ call = "low" /\ ~Pending
  /\ low' = pulse
  /\ call' = "high"
  /\ UNCHANGED <<answered, result, EIMSK, INTF0, isrVars, late, sensor, pings>>

ReadHigh ==
  /\ call = "high" /\ ~Pending
  /\ result' = IF low = pulse THEN pulse ELSE Torn
  /\ call' = "mask"
  /\ UNCHANGED <<answered, low, EIMSK, INTF0, isrVars, late, sensor, pings>>

Disable ==
  /\ call = "mask" /\ ~Pending
  /\ call' = "idle" /\ EIMSK' = FALSE
  /\ UNCHANGED <<answered, low, result, INTF0, isrVars, late, sensor, pings>>

-----------------------------------------------------------------------------
(* The sensor; an echo is longer than the interrupt takes.                 *)
EchoBegins ==
  /\ sensor = "sent" /\ call = "wait"
  /\ sensor' = "echo" /\ INTF0' = TRUE
  /\ UNCHANGED <<loopVars, isrVars, late, pings>>

EchoEnds ==
  /\ sensor = "echo" /\ ~Pending
  /\ sensor' = "idle" /\ INTF0' = TRUE
  /\ late' = ~EIMSK
  /\ UNCHANGED <<loopVars, isrVars, pings>>

-----------------------------------------------------------------------------
UltrasonicNext ==
  \/ INT0_vect
  \/ Enable \/ Trigger \/ Waited \/ ReadLow \/ ReadHigh \/ Disable
  \/ EchoBegins \/ EchoEnds

UltrasonicSpec == UltrasonicInit /\ [][UltrasonicNext]_ultrasonicVars

-----------------------------------------------------------------------------
(* edge says, once no interrupt is pending, whether the pin is high.       *)
EdgeFollowsEcho == edge = 1 <=> ~(sensor = "echo" <=> INTF0)

(* Nothing brings edge back in step, or out of step, with the pin: an echo *)
(* that outlasts its call does no harm to the next, and an interrupt that  *)
(* was pending before the first call does harm to all (ultrasound.ino:28). *)
StepIsKept == [][EdgeFollowsEcho' <=> EdgeFollowsEcho]_ultrasonicVars

(* If edge is in step, a call whose echo has ended before it is read reads *)
(* the width of that very echo, and all of it (ultrasound.ino:51-58).      *)
FreshWhenRead ==
  call = "low" /\ answered /\ sensor = "idle" /\ ~INTF0 /\ EdgeFollowsEcho
    => pulse = Width(pings, TRUE)

(* What it rests on: an edge never finds the flag set by another, the      *)
(* timer runs for the echo that is on, and no late interrupt is left when  *)
(* the sensor is triggered.                                                *)
FlagIsFree ==
  /\ EIMSK <=> call # "idle"
  /\ sensor = "sent" => call = "wait" /\ ~INTF0
  /\ sensor = "echo" /\ call = "idle" => ~INTF0
UltrasonicInv ==
  /\ UltrasonicTypeOK
  /\ FlagIsFree
  /\ late => INTF0 /\ call \in {"idle", "trigger"}
  /\ EdgeFollowsEcho =>
       /\ edge = 1 => timing = pings
       /\ call \notin {"idle", "trigger"} /\ answered /\ sensor = "idle" /\ ~INTF0
            => pulse = Width(pings, TRUE)

=============================================================================
