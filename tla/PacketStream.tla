---------------------------- MODULE PacketStream ----------------------------
(***************************************************************************)
(* What the serial receive path promises to its callers.                   *)
(*                                                                         *)
(* Bytes arrive in chunks of any length up to MaxRead.  The stream is cut  *)
(* into consecutive packets of PacketSize bytes, and a packet is handed    *)
(* over by the very call that supplies its last byte: never earlier, never *)
(* later, never with a byte of a neighbour.  A byte is identified with its *)
(* position in the stream of received bytes.                               *)
(***************************************************************************)
EXTENDS Integers

CONSTANTS
  PacketSize,   \* bytes in a packet on the wire
  MaxRead,      \* longest chunk one call is given
  MaxBytes      \* bound on the length of the stream

VARIABLES
  received,     \* bytes received so far
  base,         \* position of the first byte not yet handed over
  frame         \* the last packet handed over, as the positions of its bytes

abstractVars == <<received, base, frame>>

Offsets == 0 .. PacketSize - 1

(* No byte: the contents of a buffer that was never written.               *)
Blank == -1

StreamInit ==
  /\ received = 0
  /\ base = 0
  /\ frame = [i \in Offsets |-> Blank]

(* A chunk that does not complete the packet under way.                    *)
Accumulate(len) ==
  /\ received + len - base < PacketSize
  /\ received' = received + len
  /\ UNCHANGED <<base, frame>>

(* A chunk that completes it.                                              *)
HandOver(len) ==
  /\ received + len - base >= PacketSize
  /\ received' = received + len
  /\ base' = base + PacketSize
  /\ frame' = [i \in Offsets |-> base + i]

StreamNext ==
  \E len \in 1 .. MaxRead :
    /\ received + len <= MaxBytes
    /\ Accumulate(len) \/ HandOver(len)

StreamSpec == StreamInit /\ [][StreamNext]_abstractVars

=============================================================================
