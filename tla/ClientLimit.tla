---------------------------- MODULE ClientLimit ----------------------------
(***************************************************************************)
(* What the connection limit of the server promises its clients: a client  *)
(* that knocks is let in while there is room, is turned away only when     *)
(* every place is taken or when the door has been closed, and nobody is    *)
(* let in over the limit.  How the accept loop and the handlers keep that  *)
(* promise with one atomic counter is the subject of ModbusServer, which   *)
(* implements this module.                                                 *)
(***************************************************************************)
EXTENDS Naturals, FiniteSets

CONSTANTS
    Clients,    \* the clients
    Limit       \* max_clients of the configuration

VARIABLES
    waiting,    \* the clients that knocked and have no answer
    held,       \* the clients that hold a place
    door        \* "shut" before the server listens and after it stopped

limitVars == <<waiting, held, door>>

LimitInit ==
    /\ waiting = {}
    /\ held = {}
    /\ door = "shut"

OpenDoor ==
    /\ door' = "open"
    /\ UNCHANGED <<waiting, held>>

Knock(c) ==
    /\ door = "open"
    /\ c \notin waiting \union held
    /\ waiting' = waiting \union {c}
    /\ UNCHANGED <<held, door>>

LetIn(c) ==
    /\ c \in waiting
    /\ Cardinality(held) < Limit
    /\ waiting' = waiting \ {c}
    /\ held' = held \union {c}
    /\ UNCHANGED door

TurnAway(c) ==
    /\ c \in waiting
    /\ Cardinality(held) = Limit
    /\ waiting' = waiting \ {c}
    /\ UNCHANGED <<held, door>>

GiveBack(c) ==
    /\ c \in held
    /\ held' = held \ {c}
    /\ UNCHANGED <<waiting, door>>

\* Only a client that the server has already taken in hand outlives the door.
ShutDoor ==
    /\ door' = "shut"
    /\ \E kept \in SUBSET waiting :
          /\ \A c, d \in kept : c = d
          /\ waiting' = kept
    /\ UNCHANGED held

LimitNext ==
    \/ OpenDoor
    \/ ShutDoor
    \/ \E c \in Clients : Knock(c) \/ LetIn(c) \/ TurnAway(c) \/ GiveBack(c)

LimitSpec == LimitInit /\ [][LimitNext]_limitVars
=============================================================================
