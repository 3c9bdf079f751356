-------------------------------- MODULE Uart ---------------------------------
(***************************************************************************)
(* The serial driver of the Arduino: uart.cpp and the ring buffers of      *)
(* cbuffer.h, between the main loop and the two interrupts.                *)
(*                                                                         *)
(* The processor has 8-bit registers and the indices of a ring buffer have *)
(* 16 bits: an interrupt may fall between the two halves of a load or a    *)
(* store.  The main loop does not go on while an interrupt is pending, but *)
(* the transmitter may become ready in the very instruction that reads its *)
(* flag (ReadFlag).                                                        *)
(*                                                                         *)
(* A byte is named by its number among those that were accepted, on the    *)
(* way out and on the way in.                                              *)
(*                                                                         *)
(* NextOfUnwrapped, IsFullWhenEqual, LoadedBefore and EnabledOnlyWhenIdle  *)
(* are wrong on purpose: the runs must notice each of them in place of the *)
(* definition that follows.                                                *)
(***************************************************************************)
EXTENDS Integers

CONSTANTS
  Size,         \* cells of a ring buffer, 512 in the program
  ByteBase,     \* values of a byte
  MaxOut,       \* bound on the bytes accepted by write()
  MaxIn         \* bound on the bytes accepted by the receive interrupt

(* As in the program, the upper half of an index has two values.           *)
ASSUME UartAssumption ==
  /\ ByteBase \in Nat \ {0} /\ Size = 2 * ByteBase
  /\ MaxOut \in Nat /\ MaxIn \in Nat

VARIABLES
  pc,           \* where the main loop is in write() or readSerial()
  txHead, txTail, txArray,  \* tx_buffer
  udrie,        \* is the interrupt for an empty data register enabled?
  udr,          \* the data register: a byte, or Empty when UDRE0 is set
  put,          \* history: bytes written to tx_buffer or straight to udr
  sent,         \* history: bytes that have left udr
  early,        \* history: was the byte in udr taken before it was stored?
  rxHead, rxTail, rxArray,  \* rx_buffer
  kept,         \* history: bytes written to rx_buffer
  got,          \* history: bytes read from it
  last,         \* history: the last value read() returned
  exact         \* history: has no byte been refused, ignored or made up?

txVars == <<txHead, txTail, txArray, udrie, udr, put, sent, early>>
rxVars == <<rxHead, rxTail, rxArray, kept, got, last>>
uartVars == <<pc, txVars, rxVars, exact>>

Index == 0 .. Size - 1
Empty == -1         \* no byte in udr
MadeUp == -1        \* what read() returns for an empty buffer

UartTypeOK ==
  /\ pc \in {"idle", "full", "flag", "empty", "direct", "put", "advance",
             "store", "enable", "check", "take", "load"}
  /\ txHead \in Index /\ txTail \in Index /\ rxHead \in Index /\ rxTail \in Index
  /\ txArray \in [Index -> Nat] /\ rxArray \in [Index -> Nat]
  /\ udrie \in BOOLEAN /\ early \in BOOLEAN /\ exact \in BOOLEAN
  /\ udr \in Nat \cup {Empty} /\ put \in 0 .. MaxOut /\ sent \in Nat
  /\ kept \in 0 .. MaxIn /\ got \in Nat /\ last \in Nat \cup {MadeUp}

UartInit ==
  /\ pc = "idle"
  /\ txHead = 0 /\ txTail = 0 /\ txArray = [i \in Index |-> 0]
  /\ udrie = FALSE /\ udr = Empty
  /\ put = 0 /\ sent = 0 /\ early = FALSE
  /\ rxHead = 0 /\ rxTail = 0 /\ rxArray = [i \in Index |-> 0]
  /\ kept = 0 /\ got = 0 /\ last = MadeUp /\ exact = TRUE

-----------------------------------------------------------------------------
NextOfUnwrapped(i) == i + 1
NextOf(i) == (i + 1) % Size

IsFullWhenEqual(head, tail) == head = tail
IsFull(head, tail) == NextOf(head) = tail
IsEmpty(head, tail) == head = tail
LoadedBefore(array, tail) == array[(tail + Size - 1) % Size]
Loaded(array, tail) == array[tail]
Held(head, tail) == (head - tail + Size) % Size

(* The upper half of one value of an index with the lower half of another. *)
Mixed(low, high) == ByteBase * (high \div ByteBase) + (low % ByteBase)

Pending == udrie /\ udr = Empty
MainAt(place) == pc = place /\ ~Pending

-----------------------------------------------------------------------------
(* The interrupts, given what they find in an index the main loop writes.  *)

(* _tx_interrupt().  The cell it reads may be one that CBuffer::write()    *)
(* has claimed by advancing head and not stored to yet.                    *)
Claimed(i) == \/ pc = "advance" /\ i = NextOf(txHead)
              \/ pc = "store" /\ i = txHead

TransmitNext(head) ==
  IF IsEmpty(head, txTail)
  THEN /\ udrie' = FALSE
       /\ udr' = Empty
       /\ UNCHANGED <<txTail, early>>
  ELSE /\ txTail' = NextOf(txTail)
       /\ udr' = Loaded(txArray, txTail')
       /\ early' = Claimed(txTail')
       /\ UNCHANGED udrie

TransmitInterrupt ==
  /\ Pending
  /\ TransmitNext(txHead)
  /\ UNCHANGED <<pc, txHead, txArray, put, sent, rxVars, exact>>

(* The transmitter takes the byte out of the data register.                *)
Shift ==
  /\ udr # Empty
  /\ udr' = Empty
  /\ sent' = sent + 1
  /\ UNCHANGED <<pc, txHead, txTail, txArray, udrie, put, early, rxVars, exact>>

(* _rx_interrupt(): a byte that does not fit is dropped.                   *)
Keep(tail) ==
  IF IsFull(rxHead, tail)
  THEN UNCHANGED <<rxHead, rxArray, kept>>
  ELSE /\ kept < MaxIn
       /\ kept' = kept + 1
       /\ rxHead' = NextOf(rxHead)
       /\ rxArray' = [rxArray EXCEPT ![rxHead'] = kept']

ReceiveInterrupt ==
  /\ Keep(rxTail)
  /\ exact' = (exact /\ ~IsFull(rxHead, rxTail))
  /\ UNCHANGED <<pc, txVars, rxTail, got, last>>

(* The transmit interrupt inside an access of the main loop: the register  *)
(* becomes empty between its two halves.                                   *)
TransmitInside(torn, head) ==
  IF torn
  THEN /\ udrie /\ udr # Empty
       /\ sent' = sent + 1
       /\ TransmitNext(head)
  ELSE UNCHANGED <<udrie, udr, sent, txTail, early>>

ReceiveInside(torn, tail) ==
  IF torn THEN Keep(tail) ELSE UNCHANGED <<rxHead, rxArray, kept>>
Drops(torn, tail) == torn /\ IsFull(rxHead, tail)

(* What the main loop then reads, the lower half first.                    *)
TailSeen(torn) == IF torn THEN Mixed(txTail, txTail') ELSE txTail
HeadSeen(torn) == IF torn THEN Mixed(rxHead, rxHead') ELSE rxHead

-----------------------------------------------------------------------------
(* write(ch)                                                               *)

Refuse == exact' = FALSE /\ UNCHANGED <<txHead, txArray, put, rxVars>>
Proceed == UNCHANGED <<txHead, txArray, put, rxVars, exact>>

WriteCall ==
  /\ MainAt("idle") /\ put < MaxOut
  /\ pc' = "full"
  /\ UNCHANGED <<txVars, rxVars, exact>>

(* if (tx_buffer.is_full()) return false                                   *)
CheckFull(torn) ==
  /\ MainAt("full")
  /\ TransmitInside(torn, txHead)
  /\ IF IsFull(txHead, TailSeen(torn))
     THEN pc' = "idle" /\ Refuse
     ELSE pc' = "flag" /\ Proceed

(* UCSR0A & (1 << UDRE0)                                                   *)
ReadFlag ==
  /\ pc = "flag"
  /\ pc' = IF udr = Empty THEN "empty" ELSE "put"
  /\ UNCHANGED <<txVars, rxVars, exact>>

(* && tx_buffer.is_empty()                                                 *)
CheckEmpty(torn) ==
  /\ MainAt("empty")
  /\ TransmitInside(torn, txHead)
  /\ pc' = IF IsEmpty(txHead, TailSeen(torn)) THEN "direct" ELSE "put"
  /\ Proceed

(* UDR0 = ch, which the transmitter ignores unless UDRE0 is set.           *)
WriteStraight ==
  /\ MainAt("direct")
  /\ pc' = "idle"
  /\ IF udr = Empty
     THEN /\ put' = put + 1 /\ udr' = put' /\ early' = FALSE
          /\ UNCHANGED exact
     ELSE /\ exact' = FALSE
          /\ UNCHANGED <<put, udr, early>>
  /\ UNCHANGED <<txHead, txTail, txArray, udrie, sent, rxVars>>

(* tx_buffer.write(&ch), in its own order: is_full() again, head, array.   *)
(* What it returns is not looked at.                                       *)
CheckFullAgain(torn) ==
  /\ MainAt("put")
  /\ TransmitInside(torn, txHead)
  /\ IF IsFull(txHead, TailSeen(torn))
     THEN pc' = "enable" /\ Refuse
     ELSE pc' = "advance" /\ Proceed

AdvanceHead(torn) ==
  /\ MainAt("advance")
  /\ txHead' = NextOf(txHead)
  /\ \E head \in {Mixed(txHead, txHead'), Mixed(txHead', txHead)} :
       TransmitInside(torn, head)
  /\ put' = put + 1
  /\ pc' = "store"
  /\ UNCHANGED <<txArray, rxVars, exact>>

StoreByte ==
  /\ MainAt("store")
  /\ txArray' = [txArray EXCEPT ![txHead] = put]
  /\ pc' = "enable"
  /\ UNCHANGED <<txHead, txTail, udrie, udr, put, sent, early, rxVars, exact>>

(* turn_tx_on(): UCSR0B is loaded, changed and stored, and whatever the    *)
(* interrupt did to it in between is undone.                               *)
EnabledOnlyWhenIdle == IF udr = Empty THEN TRUE ELSE udrie
EnabledAfter == TRUE

TurnTxOn ==
  /\ MainAt("enable")
  /\ udrie' = EnabledAfter
  /\ pc' = "idle"
  /\ UNCHANGED <<txHead, txTail, txArray, udr, put, sent, early, rxVars, exact>>

-----------------------------------------------------------------------------
(* readSerial(): while (serial.available()) ... serial.read()              *)

Available(torn) ==
  /\ MainAt("idle")
  /\ ReceiveInside(torn, rxTail)
  /\ pc' = IF IsEmpty(HeadSeen(torn), rxTail) THEN "idle" ELSE "check"
  /\ exact' = (exact /\ ~Drops(torn, rxTail))
  /\ UNCHANGED <<txVars, rxTail, got, last>>

(* rx_buffer.read(&data): is_empty() again, tail, array.                   *)
CheckData(torn) ==
  /\ MainAt("check")
  /\ ReceiveInside(torn, rxTail)
  /\ IF IsEmpty(HeadSeen(torn), rxTail)
     THEN pc' = "idle" /\ last' = MadeUp /\ exact' = FALSE
     ELSE /\ pc' = "take"
          /\ exact' = (exact /\ ~Drops(torn, rxTail))
          /\ UNCHANGED last
  /\ UNCHANGED <<txVars, rxTail, got>>

AdvanceTail(torn) ==
  /\ MainAt("take")
  /\ rxTail' = NextOf(rxTail)
  /\ \E tail \in {Mixed(rxTail, rxTail'), Mixed(rxTail', rxTail)} :
       /\ ReceiveInside(torn, tail)
       /\ exact' = (exact /\ ~Drops(torn, tail))
  /\ pc' = "load"
  /\ UNCHANGED <<txVars, got, last>>

LoadByte ==
  /\ MainAt("load")
  /\ last' = Loaded(rxArray, rxTail)
  /\ got' = got + 1
  /\ pc' = "idle"
  /\ UNCHANGED <<txVars, rxHead, rxTail, rxArray, kept, exact>>

-----------------------------------------------------------------------------
(* What goes on once a call of write() has been made.                      *)
WriteStep ==
  \/ ReadFlag \/ WriteStraight \/ StoreByte \/ TurnTxOn
  \/ \E torn \in BOOLEAN :
       CheckFull(torn) \/ CheckEmpty(torn) \/ CheckFullAgain(torn) \/ AdvanceHead(torn)

ReadStep ==
  \/ LoadByte
  \/ \E torn \in BOOLEAN : Available(torn) \/ CheckData(torn) \/ AdvanceTail(torn)

UartNext ==
  \/ WriteCall \/ WriteStep \/ ReadStep
  \/ TransmitInterrupt \/ Shift \/ ReceiveInterrupt

(* The transmitter sends, a pending interrupt is served, and a call that   *)
(* has begun goes on.  Nobody has to call write() or to send anything.     *)
UartFairness ==
  /\ WF_uartVars(TransmitInterrupt) /\ WF_uartVars(Shift)
  /\ WF_uartVars(WriteStep) /\ WF_uartVars(ReadStep)

UartSpec == UartInit /\ [][UartNext]_uartVars /\ UartFairness

-----------------------------------------------------------------------------
(* Bytes leave in the order they were put, none left out and none twice.   *)
(* One that the interrupt takes between the two statements of              *)
(* CBuffer::write() (cbuffer.h:32-33) has the wrong value, but the right   *)
(* place: packets keep their length.  (uart.cpp:34-52, 89-101)             *)
OutputAligned == udr # Empty => udr = sent + 1 \/ early

(* The main loop reads the bytes the interrupt kept, in order, each once,  *)
(* although the interrupt may write while tail and the cell are read.      *)
InputAligned == last \in {got, MadeUp}

(* The halves of an index do not matter while less than half a buffer is   *)
(* held: until then no byte is refused on the way out, dropped on the way  *)
(* in or made up by read().  (A packet is 140 bytes, half a buffer 256.)   *)
ExactBelowHalf ==
  [][ exact /\ ~exact' =>
        \/ Held(txHead, txTail) >= ByteBase - 1
        \/ Held(rxHead, rxTail) >= ByteBase - 1
        \/ pc = "direct" ]_uartVars

(* What has been put into tx_buffer is sent, without another write(): no   *)
(* interleaving of turn_tx_on() and turn_tx_off() leaves the interrupt     *)
(* switched off with bytes to send.                                        *)
BufferedIsSent == \A n \in 1 .. MaxOut : put >= n ~> sent >= n

(* "Writing straight if UDR0 is empty and buffer empty"                    *)
StraightOnlyWhenEmpty ==
  [][ pc = "direct" /\ pc' = "idle" => udr = Empty ]_uartVars

=============================================================================
