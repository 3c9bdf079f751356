---------------------------- MODULE MCAssembler -----------------------------
(* assemble() on packets of seven bytes, for six packets and some.         *)
EXTENDS Assembler

MCPacketSize == 7
MCMaxRead == 7
MCMaxBytes == 45
=============================================================================
