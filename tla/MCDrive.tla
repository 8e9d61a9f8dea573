------------------------------ MODULE MCDrive ------------------------------
(***************************************************************************)
(* The drives for TLC.  The values written are: stop, run in reverse (34)  *)
(* for the MS300, which every other drive takes for a command to run, the  *)
(* highest frequency reference for which the ATV320's output power fits    *)
(* its register and the one after it.  The MS300 takes 18103 for a command *)
(* to run forward and 18104 for one to stop.                               *)
(***************************************************************************)
EXTENDS Drive

Values == {0, 34, 18103, 18104}
=============================================================================
