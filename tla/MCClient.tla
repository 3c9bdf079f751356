------------------------------ MODULE MCClient ------------------------------
(* The program is started twice; the server has up to two messages for it  *)
(* under way at a time.                                                    *)
EXTENDS Client
=============================================================================
