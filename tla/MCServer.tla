------------------------------ MODULE MCServer ------------------------------
(* Two clients that send as long as they like.                             *)
EXTENDS Server

CONSTANTS c1, c2

MCConns == {c1, c2}
=============================================================================
