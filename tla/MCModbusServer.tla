--------------------------- MODULE MCModbusServer ---------------------------
(***************************************************************************)
(* A small instance of ModbusServer for TLC.  Connections are told apart,  *)
(* as the liveness properties require.                                     *)
(***************************************************************************)
EXTENDS ModbusServer, TLC
=============================================================================
