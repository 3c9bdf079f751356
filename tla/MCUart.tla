------------------------------- MODULE MCUart --------------------------------
(* Ring buffers of six cells, so that an index has two halves, filled more *)
(* than once around in both directions.                                    *)
EXTENDS Uart

MCSize == 2 * ByteBase
=============================================================================
