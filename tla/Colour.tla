-------------------------------- MODULE Colour --------------------------------
(***************************************************************************)
(* The colour sensor: the average of the readings through each filter, and *)
(* the one of three calibration lines that the averages are nearest to.    *)
(* getColor() keeps nothing from one call to the next, so that these are   *)
(* operators, compared with what they should compute.                      *)
(*                                                                         *)
(* Coordinates are in twentieths of a microsecond; distances are squared,  *)
(* which orders them as the code's square roots do.                        *)
(*                                                                         *)
(* AlwaysStartsOver and SumInByte are wrong on purpose: a run must notice  *)
(* each of them in place of the definition that follows it.                *)
(***************************************************************************)
EXTENDS Integers, Sequences

Colours == 0 .. 2       \* WHITE, RED, GREEN
Channels == 1 .. 3
VECT_INCR == 100
Unit == 20

(* The periods at the near and at the far end of each line.                *)
FrequencyMin == <<<<118, 114, 91>>, <<223, 458, 355>>, <<300, 214, 241>>>>
FrequencyMax == <<<<453, 461, 364>>, <<552, 723, 558>>, <<661, 586, 514>>>>

(* colourMainVect: point i of a line, which setupColor() divides.          *)
MainCoordinate(least, most, i) == Unit * least + (i * (most - least) * Unit) \div VECT_INCR
MainVect(colour, i) ==
  LET least == FrequencyMin[colour + 1]
      most == FrequencyMax[colour + 1]
  IN <<MainCoordinate(least[1], most[1], i), MainCoordinate(least[2], most[2], i),
       MainCoordinate(least[3], most[3], i)>>

Square(n) == n * n
Squared(p, q) == Square(p[1] - q[1]) + Square(p[2] - q[2]) + Square(p[3] - q[3])

PointDist(colour, i, test) == Squared(MainVect(colour, i), test)

Shortest(dists) == CHOOSE d \in dists : \A other \in dists : d <= other

(* color_dist() starts over behind a point nearer than 1, since a min_dist *)
(* below 1 counts as not set yet; the last point it always counts.         *)
AlwaysStartsOver(d) == TRUE
StartsOver(d) == d < Square(Unit)

Points == 0 .. VECT_INCR - 1
Counted(colour, test) ==
  LET starts == {i \in Points : StartsOver(PointDist(colour, i, test))}
  IN {i \in Points : i = VECT_INCR - 1 \/ \A s \in starts : s < i}

ColorDist(colour, test) ==
  Shortest({PointDist(colour, i, test) : i \in Counted(colour, test)})

(* The first of the nearest colours.                                       *)
ClosestColor(test) ==
  LET dist == [colour \in Colours |-> ColorDist(colour, test)]
  IN CHOOSE colour \in Colours :
       \A other \in Colours :
         dist[colour] < dist[other] \/ (dist[colour] = dist[other] /\ colour <= other)

(* getAvgReading(): the int that sums the periods has 16 bits.             *)
SumInByte(n) == n % 256
SumInInt(n) == ((n + 32768) % 65536) - 32768

AvgReading(periods) ==
  LET colSum[i \in 0 .. Len(periods)] ==
        IF i = 0 THEN 0 ELSE SumInInt(colSum[i - 1] + periods[i])
  IN (Unit * colSum[Len(periods)]) \div Len(periods)

(* colorTestArray: getColor() is ClosestColor(ColorTest(readings)).        *)
ColorTest(readings) ==
  <<AvgReading(readings[1]), AvgReading(readings[2]), AvgReading(readings[3])>>

-----------------------------------------------------------------------------
(* The true distance of a colour.                                          *)
LeastDist(colour, test) == Shortest({PointDist(colour, i, test) : i \in Points})

Step(colour) == Squared(MainVect(colour, 0), MainVect(colour, 1))

(* Points on and about the lines: every fifth one, moved along a diagonal  *)
(* of the colour cube, and the five readings of each, some longer than     *)
(* their average and some shorter.                                         *)
Sampled == {i \in Points : i % 5 = 4}
Spread == 12
Near(colour, i) ==
  {[j \in Channels |-> MainVect(colour, i)[j] \div Unit + move[j]] :
     move \in [Channels -> {-Spread, Spread}]}
Readings(p) == [j \in Channels |-> [n \in 1 .. 5 |-> p[j] + 2 * (n - 3)]]

(* A paper whose readings are off the calibration line by up to Spread in  *)
(* every channel is still recognised, although color_dist() may forget the *)
(* nearest point (colorsensor.ino:70, 111-150).                            *)
RecognisesColours ==
  \A colour \in Colours, i \in Sampled :
    \A test \in {ColorTest(Readings(p)) : p \in Near(colour, i)} :
      ClosestColor(test) = colour

(* What color_dist() forgets is never more than the next point's worth:    *)
(* its result is the true distance, or the true one is below 1 and the     *)
(* result below that plus a step (colorsensor.ino:70).                     *)
ForgetsAStep(colour, test) ==
  \A found \in {ColorDist(colour, test)}, least \in {LeastDist(colour, test)} :
    \/ found = least
    \/ /\ least < Square(Unit)
       /\ least < found /\ found <= 2 * (Square(Unit) + Step(colour))

ForgetsAStepAtMost ==
  \A line \in Colours, colour \in Colours :
    \A test \in {MainVect(line, i) : i \in Sampled} : ForgetsAStep(colour, test)

=============================================================================
