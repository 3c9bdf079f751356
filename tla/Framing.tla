------------------------------ MODULE Framing -------------------------------
(***************************************************************************)
(* deserialize() of serialize.cpp on a serial line that loses bytes.       *)
(*                                                                         *)
(* The sender writes whole packets back to back; byte number n of what it  *)
(* writes is byte n % PacketSize of packet n \div PacketSize.  Bytes are   *)
(* dropped on the way when a ring buffer is full (write() and the receive  *)
(* interrupt of uart.cpp, both ignoring the error), so the position of a   *)
(* byte in the received stream and its number at the sender part company.  *)
(***************************************************************************)
EXTENDS Assembler, Sequences

CONSTANTS
  MagicSize,    \* bytes of TComms.magic, the first field
  LengthSize,   \* bytes of TComms.dataSize, the second
  DataSize,     \* the payload bytes the checksum covers, and the checksum
  MaxLost       \* bound on the number of bytes lost

ASSUME LayoutAssumption ==
  /\ MagicSize \in Nat \ {0} /\ LengthSize \in Nat \ {0} /\ DataSize \in Nat \ {0}
  /\ MagicSize + LengthSize + DataSize <= PacketSize
  /\ MaxLost \in Nat

VARIABLES
  origin,       \* origin[p + 1]: the sender's number of received byte p
  lost,         \* bytes lost so far
  accepted,     \* the packets whose payload was handed to the caller
  result        \* what the last call of deserialize() returned

framingVars == <<assemblerVars, origin, lost, accepted, result>>

(* TComms: what follows the payload and its checksum is padding.           *)
MagicOffsets == 0 .. MagicSize - 1
LengthOffsets == MagicSize .. MagicSize + LengthSize - 1
DataOffsets == MagicSize + LengthSize .. MagicSize + LengthSize + DataSize - 1

Results == {"PACKET_OK", "PACKET_BAD", "PACKET_CHECKSUM_BAD",
            "PACKET_INCOMPLETE", "FAULT"}

FramingTypeOK ==
  /\ AssemblerTypeOK
  /\ origin \in Seq(Nat) /\ Len(origin) = received
  /\ lost \in 0 .. MaxLost
  /\ accepted \in Seq(Nat)
  /\ result \in Results

FramingInit ==
  /\ AssemblerInit
  /\ origin = << >>
  /\ lost = 0
  /\ accepted = << >>
  /\ result = "PACKET_INCOMPLETE"

-----------------------------------------------------------------------------
PacketOf(n) == n \div PacketSize

(* Does every byte of a field sit where a packet has it?  f gives the      *)
(* sender's number of each byte of a frame.                                *)
InPlace(f, field) == \A i \in field : f[i] % PacketSize = i

SamePacket(f, field) == \A i, j \in field : PacketOf(f[i]) = PacketOf(f[j])

(* What deserialize() may answer to a complete frame.  The magic number    *)
(* does not occur in a payload, so it matches only in its place.  A        *)
(* dataSize put together from other bytes sends the checksum loop          *)
(* anywhere (FAULT).  A payload spliced from two packets passes its        *)
(* one-byte XOR or fails it.                                               *)
VerdictsWithoutMagic(f) ==   \* wrong on purpose
  IF InPlace(f, DataOffsets) THEN {"PACKET_OK"} ELSE {"PACKET_CHECKSUM_BAD"}

Verdicts(f) ==
  IF ~InPlace(f, MagicOffsets) THEN {"PACKET_BAD"}
  ELSE IF ~InPlace(f, LengthOffsets)
       THEN {"PACKET_OK", "PACKET_CHECKSUM_BAD", "FAULT"}
  ELSE IF InPlace(f, DataOffsets) /\ SamePacket(f, DataOffsets)
       THEN {"PACKET_OK"}
  ELSE {"PACKET_OK", "PACKET_CHECKSUM_BAD"}

(* The sender's numbers of the next len bytes when n bytes are lost after  *)
(* the first gap of them.                                                  *)
ChunkOrigins(len, gap, n) ==
  [k \in 1 .. len |-> received + lost + k - 1 + (IF k > gap THEN n ELSE 0)]

(* One call deserialize(buffer, len, output).                              *)
Deserialize(len, gap, n) ==
  /\ result # "FAULT"
  /\ Assemble(len)
  /\ origin' = origin \o ChunkOrigins(len, gap, n)
  /\ lost' = lost + n
  /\ IF Completes(len)
     THEN LET f == [i \in Offsets |-> origin'[frame'[i] + 1]]
          IN  /\ result' \in Verdicts(f)
              /\ accepted' =
                   IF result' = "PACKET_OK"
                   THEN Append(accepted, PacketOf(f[MagicSize + LengthSize]))
                   ELSE accepted
     ELSE /\ result' = "PACKET_INCOMPLETE"
          /\ UNCHANGED accepted

(* A chunk that arrives whole, and one with a hole in or before it.        *)
Arrive(len) == Deserialize(len, 0, 0)
ArriveDamaged(len) ==
  \E gap \in 0 .. len - 1, n \in 1 .. MaxLost - lost : Deserialize(len, gap, n)

FramingNext ==
  \E len \in 1 .. MaxRead :
    received + len <= MaxBytes /\ (Arrive(len) \/ ArriveDamaged(len))

FramingSpec == FramingInit /\ [][FramingNext]_framingVars

-----------------------------------------------------------------------------
(* On a line that loses nothing deserialize() never reports an error: the  *)
(* packets accepted are 0, 1, 2, ... and all that have arrived complete,   *)
(* however the bytes were cut into chunks.                                 *)
LosslessLineIsErrorFree ==
  lost = 0 =>
    /\ result \in {"PACKET_OK", "PACKET_INCOMPLETE"}
    /\ accepted = [k \in 1 .. received \div PacketSize |-> k - 1]

(* Whatever is lost, no packet is accepted twice and none after a later    *)
(* one: the robot never repeats a command on its own.                      *)
AcceptedInOrder ==
  \A k \in 1 .. Len(accepted) - 1 : accepted[k] < accepted[k + 1]

(* deserialize() has no way back: it cuts frames by counting and never     *)
(* looks for a magic number.  A frame that starts after all losses so far  *)
(* is a packet when the number of bytes lost is a multiple of PacketSize,  *)
(* and is PACKET_BAD for ever when it is not.                              *)
FramingNeverRecovers ==
  [][ /\ result' # "PACKET_INCOMPLETE"
      /\ origin'[frame'[0] + 1] = frame'[0] + lost'
      => result' = IF lost' % PacketSize = 0 THEN "PACKET_OK" ELSE "PACKET_BAD"
    ]_framingVars

=============================================================================
