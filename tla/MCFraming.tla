----------------------------- MODULE MCFraming ------------------------------
(* Framing on packets of five bytes: one each of magic number, length,     *)
(* payload (two, with the checksum) and padding.                           *)
EXTENDS Framing

MCPacketSize == 5
MCMaxRead == 5
MCMaxBytes == 15
=============================================================================
