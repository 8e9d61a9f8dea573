---------------------------- MODULE MCDataStore ----------------------------
(***************************************************************************)
(* A store with a command in the holding registers and a report in the     *)
(* input registers that repeats it, as in the Delta map; two handlers, and *)
(* a screen that reads both and may set either.                            *)
(***************************************************************************)
EXTENDS DataStore

CONSTANTS h1, h2, screen, command, status

TwoHandlers == {h1, h2}
Screen == {screen}
HoldingPlaces == {command}
InputPlaces == {status}
ReportPlaces == {status}
OneRequest == {{command}}
Bits == {0, 1}
Repeat == [c \in [{command} -> Values] |-> [r \in {status} |-> c[command]]]
=============================================================================
