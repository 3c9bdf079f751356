-------------------------- MODULE AssemblerProofs ---------------------------
(***************************************************************************)
(* Proofs about assemble(), for every packet size, every bound on the      *)
(* stream and every way of cutting it into chunks of at most a packet.     *)
(***************************************************************************)
EXTENDS Assembler, TLAPS

(* The callers' side of the contract: no chunk is longer than a packet.    *)
CallersReadAtMostAPacket == MaxRead <= PacketSize

(* The inductive invariant.  What is held behind Base determines the next  *)
(* frame; TimelyDelivery keeps Remaining at 0, so that a call never copies *)
(* into leftoverBuffer behind older leftovers.                             *)
AssemblerIInv ==
  /\ AssemblerTypeOK
  /\ NoOverrun
  /\ TimelyDelivery
  /\ Base \in Nat
  /\ BufferedBytesInOrder

USE PacketSizeAssumption, MaxReadAssumption, MaxBytesAssumption

-----------------------------------------------------------------------------
(* With less than a packet held, the copy-in takes all leftovers and       *)
(* leaves room: the arithmetic of the first half of assemble().            *)
LEMMA CopyIn ==
  ASSUME AssemblerIInv
  PROVE  /\ CopyCount = leftoverCount
         /\ Remaining = 0
         /\ ~StillFlagged
         /\ Filled = counter + leftoverCount
         /\ Filled \in 0 .. PacketSize - 1
         /\ counter \in 0 .. Filled
         /\ Base \in Nat
         /\ received \in Nat
         /\ received = Base + Filled
         /\ leftoverCount \in Nat
  BY DEF AssemblerIInv, AssemblerTypeOK, TimelyDelivery, BufferedBytesInOrder,
         CopyCount, Remaining, StillFlagged, Filled, Base

(* A chunk that does not reach the end of the packet is absorbed whole.    *)
LEMMA ShortChunk ==
  ASSUME AssemblerIInv, NEW len \in 1 .. MaxRead, ~Fills(len)
  PROVE  /\ BytesLeft(len) = len
         /\ Kept(len) = 0
         /\ ~Completes(len)
         /\ Filled + len < PacketSize
  BY CopyIn DEF Fills, BytesLeft, Kept, Completes

(* A chunk that does completes it, and what is kept is short of a packet.  *)
LEMMA FillingChunk ==
  ASSUME CallersReadAtMostAPacket, AssemblerIInv,
         NEW len \in 1 .. MaxRead, Fills(len)
  PROVE  /\ BytesLeft(len) = PacketSize - Filled
         /\ Kept(len) = Filled + len - PacketSize
         /\ Kept(len) \in 0 .. PacketSize - 1
         /\ Completes(len)
  BY CopyIn DEF CallersReadAtMostAPacket, Fills, BytesLeft, Kept, Completes

(* Where the output buffer has been written, it holds the bytes behind     *)
(* Base in order; elsewhere it is untouched.                               *)
LEMMA OutputHoldsStream ==
  ASSUME AssemblerIInv, NEW len \in 1 .. MaxRead,
         NEW i \in Offsets, i < Filled + BytesLeft(len),
         BytesLeft(len) \in Nat
  PROVE  OutputAfter(len)[i] = Base + i
<1>1. OutputAfter(len)[i] =
        (IF i \in counter .. Filled - 1 THEN leftoverBuffer[i - counter]
         ELSE IF i \in Filled .. Filled + BytesLeft(len) - 1
              THEN received + (i - Filled)
         ELSE privateBuffer[i])
  BY DEF OutputAfter
<1>2. Filled \in 0 .. PacketSize - 1 /\ counter \in 0 .. Filled
  BY CopyIn
<1>3. Base \in Nat /\ i \in Int
  BY DEF AssemblerIInv, Offsets
<1>4. CASE i \in 0 .. counter - 1
  <2>1. privateBuffer[i] = Base + i
    BY <1>4 DEF AssemblerIInv, BufferedBytesInOrder
  <2>. QED BY <1>1, <1>2, <1>4, <2>1
<1>5. CASE i \in counter .. Filled - 1
  <2>1. i - counter \in 0 .. leftoverCount - 1
    BY <1>5, <1>2, <1>3, CopyIn
  <2>2. leftoverBuffer[i - counter] = Base + counter + (i - counter)
    BY <2>1 DEF AssemblerIInv, BufferedBytesInOrder
  <2>. QED BY <1>1, <1>2, <1>3, <1>5, <2>2
<1>6. CASE i \in Filled .. Filled + BytesLeft(len) - 1
  <2>1. received + (i - Filled) = Base + i
    BY <1>2, <1>3, <1>6, CopyIn
  <2>. QED BY <1>1, <1>2, <1>6, <2>1
<1>. QED BY <1>2, <1>3, <1>4, <1>5, <1>6 DEF Offsets

(* Both buffers keep their type.                                           *)
LEMMA BufferTypes ==
  ASSUME AssemblerIInv, NEW len \in 1 .. MaxRead,
         BytesLeft(len) \in Nat, Kept(len) \in Nat
  PROVE  /\ OutputAfter(len) \in [Offsets -> Bytes]
         /\ LeftoverAfter(len) \in [Offsets -> Bytes]
<1>1. /\ received \in Nat /\ Filled \in 0 .. PacketSize - 1
      /\ counter \in 0 .. Filled /\ Remaining = 0
  BY CopyIn
<1>2. /\ leftoverBuffer \in [Offsets -> Bytes]
      /\ privateBuffer \in [Offsets -> Bytes]
  BY DEF AssemblerIInv, AssemblerTypeOK
<1>3. \A n \in Nat : n \in Bytes
  BY DEF Bytes
<1>4. ASSUME NEW i \in Offsets PROVE OutputAfter(len)[i] \in Bytes
  <2>1. CASE i \in counter .. Filled - 1
    <3>1. i - counter \in Offsets
      BY <1>1, <2>1 DEF Offsets
    <3>. QED BY <1>2, <2>1, <3>1 DEF OutputAfter
  <2>2. CASE i \in Filled .. Filled + BytesLeft(len) - 1
    <3>1. received + (i - Filled) \in Nat /\ i \notin counter .. Filled - 1
      BY <1>1, <2>2
    <3>. QED BY <1>3, <2>2, <3>1 DEF OutputAfter
  <2>3. CASE /\ i \notin counter .. Filled - 1
             /\ i \notin Filled .. Filled + BytesLeft(len) - 1
    BY <1>2, <2>3 DEF OutputAfter
  <2>. QED BY <2>1, <2>2, <2>3
<1>5. ASSUME NEW i \in Offsets PROVE LeftoverAfter(len)[i] \in Bytes
  <2>1. CASE i \in Remaining .. Remaining + Kept(len) - 1
    <3>1. received + BytesLeft(len) + (i - Remaining) \in Nat
      BY <1>1, <2>1
    <3>. QED BY <1>3, <2>1, <3>1 DEF LeftoverAfter
  <2>2. CASE i \notin Remaining .. Remaining + Kept(len) - 1
    BY <1>2, <2>2 DEF LeftoverAfter
  <2>. QED BY <2>1, <2>2
<1>. QED BY <1>4, <1>5 DEF OutputAfter, LeftoverAfter

-----------------------------------------------------------------------------
LEMMA AssemblerInitOK == AssemblerInit => AssemblerIInv
<1> SUFFICES ASSUME AssemblerInit PROVE AssemblerIInv
  OBVIOUS
<1>1. received = 0 /\ counter = 0 /\ leftoverCount = 0
  BY DEF AssemblerInit
<1>2. AssemblerTypeOK
  <2>1. Blank \in Bytes
    BY DEF Bytes, Blank
  <2>2. [i \in Offsets |-> Blank] \in [Offsets -> Bytes]
    BY <2>1
  <2>3. received \in Nat /\ counter \in 0 .. PacketSize /\ leftoverCount \in Nat
    BY <1>1
  <2>. QED BY <2>2, <2>3 DEF AssemblerInit, AssemblerTypeOK
<1>3. TimelyDelivery /\ Base = 0
  BY <1>1 DEF TimelyDelivery, Base
<1>4. BufferedBytesInOrder
  <2>1. 0 .. counter - 1 = {} /\ 0 .. leftoverCount - 1 = {}
    BY <1>1
  <2>. QED BY <1>1, <2>1 DEF BufferedBytesInOrder
<1>5. NoOverrun
  BY DEF AssemblerInit, NoOverrun
<1>. QED BY <1>2, <1>3, <1>4, <1>5 DEF AssemblerIInv

(* A chunk that stays short of the packet's end appends to privateBuffer.  *)
LEMMA ShortStep ==
  ASSUME CallersReadAtMostAPacket, AssemblerIInv,
         NEW len \in 1 .. MaxRead, Assemble(len), ~Fills(len)
  PROVE  AssemblerIInv' /\ Base' = Base /\ frame' = frame
<1>1. /\ received' = received + len
      /\ counter' = Filled + len
      /\ leftoverCount' = 0
  <2>1. /\ received' = received + len
        /\ counter' = IF Completes(len) THEN 0 ELSE Filled + BytesLeft(len)
        /\ leftoverCount' = Remaining + Kept(len)
    BY DEF Assemble
  <2>. QED BY <2>1, CopyIn, ShortChunk
<1>2. /\ frame' = frame
      /\ privateBuffer' = OutputAfter(len)
      /\ leftoverBuffer' = LeftoverAfter(len)
  BY ShortChunk DEF Assemble
<1>3. ~overrun' /\ overrun' \in BOOLEAN
  <2>1. ~(Remaining + Kept(len) > PacketSize)
    BY CopyIn, ShortChunk
  <2>2. overrun' = (Remaining + Kept(len) > PacketSize)
    BY Zenon DEF Assemble
  <2>3. (Remaining + Kept(len) > PacketSize) = FALSE
    BY <2>1
  <2>4. overrun' = FALSE
    BY <2>2, <2>3, Zenon
  <2>. QED BY <2>4
<1>4. ~leftoverFlag' /\ leftoverFlag' \in BOOLEAN
  BY CopyIn DEF Assemble
<1>5. /\ received = Base + Filled /\ Base \in Nat
      /\ Filled \in Nat /\ Filled + len < PacketSize
      /\ BytesLeft(len) = len /\ Kept(len) = 0
  BY CopyIn, ShortChunk
<1>6. Base' = Base
  BY <1>1, <1>5 DEF Base
<1>7. AssemblerTypeOK'
  <2>1. /\ OutputAfter(len) \in [Offsets -> Bytes]
        /\ LeftoverAfter(len) \in [Offsets -> Bytes]
    BY <1>5, BufferTypes
  <2>2. /\ counter' \in 0 .. PacketSize /\ received' \in Nat
        /\ leftoverCount' \in Nat
    BY <1>1, <1>5
  <2>3. frame \in [Offsets -> Bytes]
    BY DEF AssemblerIInv, AssemblerTypeOK
  <2>. QED BY <1>2, <1>3, <1>4, <2>1, <2>2, <2>3 DEF AssemblerTypeOK
<1>8. TimelyDelivery'
  BY <1>1, <1>5 DEF TimelyDelivery
<1>9. BufferedBytesInOrder'
  <2>1. ASSUME NEW i \in 0 .. counter' - 1 PROVE privateBuffer'[i] = Base' + i
    <3>1. i \in Offsets /\ i < Filled + BytesLeft(len) /\ BytesLeft(len) \in Nat
      BY <1>1, <1>5 DEF Offsets
    <3>2. OutputAfter(len)[i] = Base + i
      BY <3>1, OutputHoldsStream
    <3>. QED BY <3>2, <1>2, <1>6
  <2>2. 0 .. leftoverCount' - 1 = {}
    BY <1>1
  <2>. QED BY <1>1, <1>4, <2>1, <2>2 DEF BufferedBytesInOrder
<1>. QED BY <1>2, <1>3, <1>5, <1>6, <1>7, <1>8, <1>9 DEF AssemblerIInv, NoOverrun

(* A chunk that reaches it hands over the packet and keeps the rest.       *)
LEMMA FillingStep ==
  ASSUME CallersReadAtMostAPacket, AssemblerIInv,
         NEW len \in 1 .. MaxRead, Assemble(len), Fills(len)
  PROVE  /\ AssemblerIInv'
         /\ Base' = Base + PacketSize
         /\ frame' = [i \in Offsets |-> Base + i]
<1>1. /\ received' = received + len
      /\ counter' = 0
      /\ leftoverCount' = Kept(len)
  <2>1. /\ received' = received + len
        /\ counter' = IF Completes(len) THEN 0 ELSE Filled + BytesLeft(len)
        /\ leftoverCount' = Remaining + Kept(len)
    BY DEF Assemble
  <2>. QED BY <2>1, CopyIn, FillingChunk
<1>2. /\ frame' = OutputAfter(len)
      /\ privateBuffer' = OutputAfter(len)
      /\ leftoverBuffer' = LeftoverAfter(len)
  BY FillingChunk DEF Assemble
<1>3. ~overrun' /\ overrun' \in BOOLEAN
  <2>1. ~(Remaining + Kept(len) > PacketSize)
    BY CopyIn, FillingChunk
  <2>2. overrun' = (Remaining + Kept(len) > PacketSize)
    BY Zenon DEF Assemble
  <2>3. (Remaining + Kept(len) > PacketSize) = FALSE
    BY <2>1
  <2>4. overrun' = FALSE
    BY <2>2, <2>3, Zenon
  <2>. QED BY <2>4
<1>4. leftoverFlag' /\ leftoverFlag' \in BOOLEAN
  BY DEF Assemble
<1>5. /\ received = Base + Filled /\ Base \in Nat
      /\ Filled \in Nat /\ Remaining = 0
      /\ BytesLeft(len) = PacketSize - Filled /\ BytesLeft(len) \in Nat
      /\ Kept(len) = Filled + len - PacketSize
      /\ Kept(len) \in 0 .. PacketSize - 1
  BY CopyIn, FillingChunk
<1>6. Base' = Base + PacketSize
  BY <1>1, <1>5 DEF Base
<1>7. frame' = [i \in Offsets |-> Base + i]
  <2>1. ASSUME NEW i \in Offsets PROVE OutputAfter(len)[i] = Base + i
    <3>1. i < Filled + BytesLeft(len)
      BY <1>5 DEF Offsets
    <3>. QED BY <1>5, <3>1, OutputHoldsStream
  <2>. QED BY <1>2, <2>1 DEF OutputAfter
<1>8. AssemblerTypeOK'
  <2>1. /\ OutputAfter(len) \in [Offsets -> Bytes]
        /\ LeftoverAfter(len) \in [Offsets -> Bytes]
    BY <1>5, BufferTypes
  <2>2. /\ counter' \in 0 .. PacketSize /\ received' \in Nat
        /\ leftoverCount' \in Nat
    BY <1>1, <1>5
  <2>. QED BY <1>2, <1>3, <1>4, <2>1, <2>2 DEF AssemblerTypeOK
<1>9. TimelyDelivery'
  BY <1>1, <1>5 DEF TimelyDelivery
<1>10. BufferedBytesInOrder'
  <2>1. ASSUME NEW i \in 0 .. leftoverCount' - 1
        PROVE  leftoverBuffer'[i] = Base' + counter' + i
    <3>1. i \in Offsets /\ i \in Remaining .. Remaining + Kept(len) - 1
      BY <1>1, <1>5 DEF Offsets
    <3>2. LeftoverAfter(len)[i] = received + BytesLeft(len) + (i - Remaining)
      BY <3>1 DEF LeftoverAfter
    <3>. QED BY <1>1, <1>2, <1>5, <1>6, <3>1, <3>2
  <2>2. 0 .. counter' - 1 = {}
    BY <1>1
  <2>. QED BY <1>1, <1>4, <2>1, <2>2 DEF BufferedBytesInOrder
<1>. QED BY <1>3, <1>5, <1>6, <1>7, <1>8, <1>9, <1>10
     DEF AssemblerIInv, NoOverrun

(* Every step of assemble() preserves the inductive invariant.             *)
LEMMA AssemblerStepOK ==
  ASSUME CallersReadAtMostAPacket, AssemblerIInv, [AssemblerNext]_assemblerVars
  PROVE  AssemblerIInv'
<1>1. CASE AssemblerNext
  <2>1. PICK len \in 1 .. MaxRead : Assemble(len)
    BY <1>1 DEF AssemblerNext
  <2>. QED BY <2>1, ShortStep, FillingStep
<1>2. CASE UNCHANGED assemblerVars
  BY <1>2 DEF assemblerVars, AssemblerIInv, AssemblerTypeOK, NoOverrun,
              TimelyDelivery, Base, BufferedBytesInOrder
<1>. QED BY <1>1, <1>2

LEMMA AssemblerInvariant ==
  ASSUME CallersReadAtMostAPacket
  PROVE  AssemblerSpec => []AssemblerIInv
<1>1. AssemblerIInv /\ [AssemblerNext]_assemblerVars => AssemblerIInv'
  BY AssemblerStepOK
<1>. QED BY AssemblerInitOK, <1>1, PTL DEF AssemblerSpec

-----------------------------------------------------------------------------
(* The variables of assemble() keep their types (serialize.cpp:26-31).     *)
THEOREM AssemblerTypeCorrect ==
  ASSUME CallersReadAtMostAPacket
  PROVE  AssemblerSpec => []AssemblerTypeOK
<1>1. AssemblerIInv => AssemblerTypeOK
  BY DEF AssemblerIInv
<1>. QED BY <1>1, AssemblerInvariant, PTL

(* leftoverBuffer is never written past its end (serialize.cpp:62-67) as   *)
(* long as no chunk is longer than a packet.                               *)
THEOREM LeftoversFit ==
  ASSUME CallersReadAtMostAPacket
  PROVE  AssemblerSpec => []NoOverrun
<1>1. AssemblerIInv => NoOverrun
  BY DEF AssemblerIInv
<1>. QED BY <1>1, AssemblerInvariant, PTL

(* A packet that has arrived is never left in the buffers.                 *)
THEOREM PacketsAreTimely ==
  ASSUME CallersReadAtMostAPacket
  PROVE  AssemblerSpec => []TimelyDelivery
<1>1. AssemblerIInv => TimelyDelivery
  BY DEF AssemblerIInv
<1>. QED BY <1>1, AssemblerInvariant, PTL

(* The buffers hold exactly the bytes not handed over, in order.           *)
THEOREM BytesStayInOrder ==
  ASSUME CallersReadAtMostAPacket
  PROVE  AssemblerSpec => []BufferedBytesInOrder
<1>1. AssemblerIInv => BufferedBytesInOrder
  BY DEF AssemblerIInv
<1>. QED BY <1>1, AssemblerInvariant, PTL

(* assemble() implements PacketStream: whatever the chunks, it cuts the    *)
(* stream into the packets that were written, each at the earliest call.   *)
THEOREM AssemblerImplementsPacketStream ==
  ASSUME CallersReadAtMostAPacket
  PROVE  AssemblerSpec => ImplementsPacketStream
<1>1. AssemblerInit => Abstract!StreamInit
  BY DEF AssemblerInit, Abstract!StreamInit, Base, Abstract!Offsets, Offsets,
         Abstract!Blank, Blank
<1>2. ASSUME AssemblerIInv, [AssemblerNext]_assemblerVars
      PROVE  [Abstract!StreamNext]_(Abstract!abstractVars)
  <2>1. CASE AssemblerNext
    <3>1. PICK len \in 1 .. MaxRead : received + len <= MaxBytes /\ Assemble(len)
      BY <2>1 DEF AssemblerNext
    <3>2. received' = received + len
      BY <3>1 DEF Assemble
    <3>3. received - Base = Filled /\ Filled \in Int /\ len \in Int
          /\ received \in Int /\ Base \in Int
      BY CopyIn, <1>2
    <3>4. CASE Fills(len)
      <4>1. Base' = Base + PacketSize /\ frame' = [i \in Offsets |-> Base + i]
        BY <1>2, <3>1, <3>4, FillingStep
      <4>2. received + len - Base >= PacketSize
        BY <3>3, <3>4 DEF Fills
      <4>3. Abstract!HandOver(len)
        BY <3>2, <4>1, <4>2 DEF Abstract!HandOver, Abstract!Offsets, Offsets
      <4>. QED BY <3>1, <4>3 DEF Abstract!StreamNext
    <3>5. CASE ~Fills(len)
      <4>1. Base' = Base /\ frame' = frame
        BY <1>2, <3>1, <3>5, ShortStep
      <4>2. received + len - Base < PacketSize
        BY <3>3, <3>5 DEF Fills
      <4>3. Abstract!Accumulate(len)
        BY <3>2, <4>1, <4>2 DEF Abstract!Accumulate
      <4>. QED BY <3>1, <4>3 DEF Abstract!StreamNext
    <3>. QED BY <3>4, <3>5
  <2>2. CASE UNCHANGED assemblerVars
    BY <2>2 DEF assemblerVars, Abstract!abstractVars, Base
  <2>. QED BY <1>2, <2>1, <2>2
<1>. QED BY <1>1, <1>2, AssemblerInvariant, PTL
     DEF AssemblerSpec, ImplementsPacketStream, Abstract!StreamSpec

=============================================================================
