----------------------------- MODULE Assembler ------------------------------
(***************************************************************************)
(* assemble() of serialize.cpp: the function that turns the chunks read    *)
(* from the serial port back into packets of PacketSize bytes.  The Pi     *)
(* and the Arduino run the same code.                                      *)
(*                                                                         *)
(* The static variables of assemble() and _privateBuffer are the state.    *)
(* assemble() never looks at the value of a byte, so a byte is identified  *)
(* with its position in the stream of received bytes: what the buffers     *)
(* hold then says exactly which bytes went where.                          *)
(***************************************************************************)
EXTENDS Integers

CONSTANTS
  PacketSize,   \* PACKET_SIZE, 140 in the program
  MaxRead,      \* the longest chunk a caller passes to deserialize()
  MaxBytes      \* bound on the number of bytes received

ASSUME PacketSizeAssumption == PacketSize \in Nat \ {0}
ASSUME MaxReadAssumption == MaxRead \in Nat \ {0}
ASSUME MaxBytesAssumption == MaxBytes \in Nat

VARIABLES
  received,         \* bytes passed to assemble() so far
  counter,          \* bytes of the current packet in privateBuffer
  leftoverFlag,     \* is there anything to copy from leftoverBuffer?
  leftoverCount,    \* bytes in leftoverBuffer
  leftoverBuffer,
  privateBuffer,    \* _privateBuffer, the output buffer of assemble()
  frame,            \* privateBuffer as it was when PACKET_COMPLETE was last returned
  overrun           \* has an index left leftoverBuffer (undefined behaviour)?

assemblerVars == <<received, counter, leftoverFlag, leftoverCount,
                   leftoverBuffer, privateBuffer, frame, overrun>>

Offsets == 0 .. PacketSize - 1
Blank == -1
Bytes == Nat \cup {Blank}

AssemblerTypeOK ==
  /\ received \in Nat
  /\ counter \in 0 .. PacketSize
  /\ leftoverFlag \in BOOLEAN
  /\ leftoverCount \in Nat
  /\ leftoverBuffer \in [Offsets -> Bytes]
  /\ privateBuffer \in [Offsets -> Bytes]
  /\ frame \in [Offsets -> Bytes]
  /\ overrun \in BOOLEAN

AssemblerInit ==
  /\ received = 0
  /\ counter = 0
  /\ leftoverFlag = FALSE
  /\ leftoverCount = 0
  /\ leftoverBuffer = [i \in Offsets |-> Blank]
  /\ privateBuffer = [i \in Offsets |-> Blank]
  /\ frame = [i \in Offsets |-> Blank]
  /\ overrun = FALSE

-----------------------------------------------------------------------------
(* One call assemble(outputBuffer, inputBuffer, len), in program order.    *)
(* RemainingUnreduced, BytesLeftUnsplit, CompletesBeyond and               *)
(* LeftoverFromStart are wrong on purpose: the runs must notice them in    *)
(* place of the definitions they precede.                                  *)

(* Bytes copied in from the previous call's leftovers.                     *)
CopyCount ==
  IF ~leftoverFlag THEN 0
  ELSE IF leftoverCount <= PacketSize THEN leftoverCount ELSE PacketSize

(* The flag survives the copy only when there was more than a packet.      *)
StillFlagged == leftoverFlag /\ leftoverCount > PacketSize

(* counter and leftoverCount after that copy.                              *)
Filled == counter + CopyCount
RemainingUnreduced == leftoverCount
Remaining == leftoverCount - CopyCount

(* Does the chunk reach the end of the packet?                             *)
Fills(len) == Filled + len >= PacketSize

(* Bytes of the chunk that belong to this packet, and those kept for the   *)
(* next one.                                                               *)
BytesLeftUnsplit(len) == len
BytesLeft(len) == IF Fills(len) THEN PacketSize - Filled ELSE len
Kept(len) == len - BytesLeft(len)

(* Does the call return PACKET_COMPLETE?                                   *)
CompletesBeyond(len) == Filled + BytesLeft(len) > PacketSize
Completes(len) == Filled + BytesLeft(len) = PacketSize

OutputAfter(len) ==
  [i \in Offsets |->
     IF i \in counter .. Filled - 1 THEN leftoverBuffer[i - counter]
     ELSE IF i \in Filled .. Filled + BytesLeft(len) - 1
          THEN received + (i - Filled)
     ELSE privateBuffer[i]]

LeftoverFromStart(len) ==
  [i \in Offsets |->
     IF i \in Remaining .. Remaining + Kept(len) - 1
     THEN received + (i - Remaining)
     ELSE leftoverBuffer[i]]

LeftoverAfter(len) ==
  [i \in Offsets |->
     IF i \in Remaining .. Remaining + Kept(len) - 1
     THEN received + BytesLeft(len) + (i - Remaining)
     ELSE leftoverBuffer[i]]

Assemble(len) ==
  /\ ~overrun
  /\ received' = received + len
  /\ privateBuffer' = OutputAfter(len)
  /\ leftoverBuffer' = LeftoverAfter(len)
  /\ leftoverCount' = Remaining + Kept(len)
  /\ leftoverFlag' = (StillFlagged \/ Fills(len))
  /\ counter' = IF Completes(len) THEN 0 ELSE Filled + BytesLeft(len)
  /\ frame' = IF Completes(len) THEN OutputAfter(len) ELSE frame
  /\ overrun' = (Remaining + Kept(len) > PacketSize)

AssemblerNext ==
  \E len \in 1 .. MaxRead : received + len <= MaxBytes /\ Assemble(len)

AssemblerSpec == AssemblerInit /\ [][AssemblerNext]_assemblerVars

-----------------------------------------------------------------------------
(* Position of the first byte not yet handed over: behind it lie the bytes *)
(* in the output buffer and then those in the leftover buffer.             *)
Base == received - counter - leftoverCount

(* The bytes that have been received and not handed over are exactly the   *)
(* ones held, in stream order: first privateBuffer up to counter, then     *)
(* leftoverBuffer.  (serialize.cpp:23-82: the copies in and out of         *)
(* leftoverBuffer lose, repeat and reorder nothing.)                       *)
BufferedBytesInOrder ==
  /\ leftoverFlag => counter = 0
  /\ ~leftoverFlag => leftoverCount = 0
  /\ \A i \in 0 .. counter - 1 : privateBuffer[i] = Base + i
  /\ \A i \in 0 .. leftoverCount - 1 :
       leftoverBuffer[i] = Base + counter + i

(* No whole packet is ever left waiting for the next byte to arrive: the   *)
(* leftovers are always shorter than a packet.  (A command that sat in     *)
(* leftoverBuffer would be executed only when the next one arrives.)       *)
TimelyDelivery == counter + leftoverCount < PacketSize

(* The copy to leftoverBuffer, which has PACKET_SIZE cells, stays inside   *)
(* it (serialize.cpp:62-67).                                               *)
NoOverrun == ~overrun

(* Every packet handed over is the next PacketSize bytes of the stream, at *)
(* the call that supplies its last byte.                                   *)
Abstract == INSTANCE PacketStream WITH base <- Base
ImplementsPacketStream == Abstract!StreamSpec

=============================================================================
