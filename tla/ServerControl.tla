--------------------------- MODULE ServerControl ---------------------------
(***************************************************************************)
(* What the dashboard promises about its servers.  There is one at a time. *)
(* The error that ends a server is told to the operator, once, and before  *)
(* there is another server; only the closing of the window loses it.       *)
(***************************************************************************)
EXTENDS Naturals

CONSTANTS Servers, Nobody

VARIABLES
    current,        \* the server that is there, or Nobody
    untold,         \* the servers whose error the operator has not been told
    told,           \* how often the error of each server was told
    closing         \* the window is being closed

controlVars == <<current, untold, told, closing>>

ControlInit ==
    /\ current = Nobody
    /\ untold = {}
    /\ told = [g \in Servers |-> 0]
    /\ closing = FALSE

Begins(g) ==
    /\ current = Nobody
    /\ untold = {}
    /\ ~closing
    /\ current' = g
    /\ UNCHANGED <<untold, told, closing>>

Fails ==
    /\ current # Nobody
    /\ told[current] = 0
    /\ untold' = {current}
    /\ UNCHANGED <<current, told, closing>>

Ends ==
    /\ current # Nobody
    /\ current' = Nobody
    /\ UNCHANGED <<untold, told, closing>>

Tell(g) ==
    /\ untold = {g}
    /\ untold' = {}
    /\ told' = [told EXCEPT ![g] = @ + 1]
    /\ current' = Nobody
    /\ UNCHANGED closing

Close ==
    /\ ~closing
    /\ closing' = TRUE
    /\ UNCHANGED <<current, untold, told>>

Forget ==
    /\ closing
    /\ untold' = {}
    /\ current' = Nobody
    /\ UNCHANGED <<told, closing>>

ControlNext ==
    \/ \E g \in Servers : Begins(g) \/ Tell(g)
    \/ Fails \/ Ends \/ Close \/ Forget

ControlSpec == ControlInit /\ [][ControlNext]_controlVars
=============================================================================
