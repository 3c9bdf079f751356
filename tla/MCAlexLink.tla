----------------------------- MODULE MCAlexLink -----------------------------
(* Four commands, or three and one start besides those of the server and   *)
(* of the operator's program: of either again, or of the firmware.  A      *)
(* transmit buffer of 512 bytes takes three packets of 140.                *)
(*                                                                         *)
(* What a query for the colour computes is checked along with it.  It does *)
(* not depend on the state, so that once is enough.                        *)
EXTENDS AlexLink, Colour

(* A paper somewhat off its calibration line is recognised                 *)
(* (colorsensor.ino:111-150).                                              *)
ColoursAreRecognised == LinkInit => RecognisesColours

(* What color_dist() forgets is never more than the next point's worth     *)
(* (colorsensor.ino:70).                                                   *)
ForgetsAtMostAStep == LinkInit => ForgetsAStepAtMost
=============================================================================
