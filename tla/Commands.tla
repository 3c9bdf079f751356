------------------------------- MODULE Commands -------------------------------
(***************************************************************************)
(* The commands and the messages that the operator's program exchanges     *)
(* with the server: what Operator, Client and AlexLink have in common.     *)
(*                                                                         *)
(* A command is what it makes the robot do and how it was typed: as a line *)
(* at the prompt of manual mode or as a key in teleop mode.  Of a message  *)
(* from the robot only the mode it tells matters to the program.           *)
(*                                                                         *)
(* KeyWithPower is wrong on purpose: a run must notice it in place of the  *)
(* definition that follows it.                                             *)
(***************************************************************************)
EXTENDS Integers, Sequences

(* A drive has a power, and a distance that may be 0, which is no limit; a *)
(* teleop key has neither.  A query takes its time: sensors and tunes.  The*)
(* statistics ('g', 'c') are answered like a stop, and change nothing.     *)
ManualCommands == {"drive", "stop", "query", "toggle"}
TeleopCommands == {"nudge", "stop", "query", "toggle"}

CONSTANTS
  Lines, Keys,  \* those of them that the operator uses
  MaxCommands,  \* bound on the commands sent
  MaxSessions   \* bound on the times the program is started

ASSUME CommandsAssumption ==
  /\ Lines \subseteq ManualCommands /\ Keys \subseteq TeleopCommands
  /\ MaxCommands \in Nat /\ MaxSessions \in Nat \ {0}

LineCommand(c) == [do |-> c, by |-> "line"]

(* The distance and the power of a key are the zeros its buffer starts     *)
(* with.                                                                   *)
KeyWithPower(k) == [do |-> IF k = "nudge" THEN "drive" ELSE k, by |-> "key"]
KeyCommand(k) == [do |-> k, by |-> "key"]

CommandsAt(p) ==
  IF p = "line" THEN {LineCommand(c) : c \in Lines} ELSE {KeyCommand(k) : k \in Keys}
Command == CommandsAt("line") \cup CommandsAt("key")

Modes == {"ON", "OFF"}
Messages == Modes \cup {"ANSWER"}

(* handleNetwork(): only handleModeMessage() changes anything.             *)
ModeTold(m, mode) == IF m \in Modes THEN m = "ON" ELSE mode

=============================================================================
