------------------------------- MODULE MCCli -------------------------------
(***************************************************************************)
(* Small instances of Cli for TLC: one folder whose only file is absent,   *)
(* was written by hand with most fields missing, or was written by hand    *)
(* and is refused.                                                         *)
(***************************************************************************)
EXTENDS Cli

HandWritten == Whole([ZeroConfig EXCEPT !["port"] = 1502])
HandInvalid == Whole([ZeroConfig EXCEPT !["max_clients"] = -1])

OneFile == {<<Absent>>, <<HandWritten>>, <<HandInvalid>>}

PortEdits == {<<"port", 0>>, <<"port", 1503>>}
=============================================================================
