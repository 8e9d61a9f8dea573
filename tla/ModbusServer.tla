---------------------------- MODULE ModbusServer ----------------------------
(***************************************************************************)
(* One run of modbus.Server.ListenAndServe (internal/modbus/server.go):    *)
(* the accept loop, the goroutine that closes the listener when the        *)
(* context is cancelled, and one handler goroutine per admitted            *)
(* connection.  They share the atomic activeClient and the connection      *)
(* table of the traffic collector (internal/modbus/stats.go).              *)
(*                                                                         *)
(* A request is reduced to what the handler loop tells apart: the unit it  *)
(* addresses, or a malformed frame, which parseRequest refuses.  What a    *)
(* request does to the registers is the subject of ModbusPDU and           *)
(* DataStore.  The clients and the kernel's side of their connections are  *)
(* the environment: a client may connect, send, close, reset and fall      *)
(* silent whenever it likes.                                               *)
(*                                                                         *)
(* A partly received frame is an absent one: io.ReadFull returns only on a *)
(* whole frame, an error, or the deadline.  An accept error that the net   *)
(* package calls temporary changes nothing (server.go:108-111) and is a    *)
(* stuttering step.                                                        *)
(***************************************************************************)
EXTENDS Naturals, Sequences, FiniteSets

CONSTANTS
    Conns,          \* identities of TCP connections, reused after a close
    Addrs,          \* the remote addresses (ip:port) that clients dial from
    Units,          \* the unit identifiers that requests carry
    UnitIDs,        \* unit_ids of the configuration; empty accepts every unit
    Malformed,      \* frames with a wrong protocol id or length
    MaxClients,     \* connection.max_clients of the configuration
    MaxInbox,       \* bound: frames that a client sends ahead
    AddressReuse,   \* may a client dial again from the address of a connection
                    \* it reset, before the server has forgotten that one?
    AcceptErrors,   \* may the kernel refuse an accept for good (ENOBUFS, EPERM)?
    NoConn, NoAddr, NoFrame

ASSUME ServerAssumption ==
    /\ MaxClients \in Nat \ {0}
    /\ MaxInbox \in Nat \ {0}
    /\ UnitIDs \subseteq Units
    /\ Malformed \intersect Units = {}
    /\ NoFrame \notin Units \union Malformed
    /\ NoConn \notin Conns
    /\ NoAddr \notin Addrs
    /\ IsFiniteSet(Conns)
    /\ AddressReuse \in BOOLEAN
    /\ AcceptErrors \in BOOLEAN

Frames == Units \union Malformed

VARIABLES
    ctxDone,        \* the context of ListenAndServe is cancelled
    listener,       \* the listening socket
    serve,          \* where ListenAndServe is
    outcome,        \* what ListenAndServe returned
    backlog,        \* connections the kernel established, oldest first
    activeClient,   \* the atomic counter of admitted connections
    pc,             \* where each connection is, see Steps
    link,           \* the client's end of each connection
    addr,           \* the remote address of each connection
    inbox,          \* frames received and not yet read, oldest first
    request,        \* the frame a handler works on
    connections     \* the table of the traffic collector, keyed by address

serverVars == <<ctxDone, listener, serve, outcome>>
peerVars   == <<link, addr, inbox>>
connVars   == <<pc, peerVars, request>>
vars == <<serverVars, backlog, activeClient, connVars, connections>>

(***************************************************************************)
(* The life of a connection: unused, in the kernel's queue, in the hand of *)
(* the accept loop, then the steps of handleConnection in program order    *)
(* and the three deferred calls (server.go:128-132).                       *)
(***************************************************************************)
HandlerSteps == {"spawned", "reading", "recordRead", "reject", "handle",
                 "reply", "recordWrite", "decrement", "forget", "close"}
Steps == {"unused", "queued", "accepted"} \union HandlerSteps

\* The connections that the counter counts: from Add(1) to Add(-1).
Counted == {c \in Conns : pc[c] \in HandlerSteps \ {"forget", "close"}}

\* The connections whose handler may have an entry in the table.
Tabled == {c \in Conns : pc[c] \in HandlerSteps \ {"spawned", "close"}}

\* The connections whose handler is in its request loop.
Serving == {c \in Conns : pc[c] \in {"reading", "recordRead", "reject",
                                     "handle", "reply", "recordWrite"}}

Goto(c, step) == pc' = [pc EXCEPT ![c] = step]

Init ==
    /\ ctxDone = FALSE
    /\ listener = "none"
    /\ serve = "listen"
    /\ outcome = "none"
    /\ backlog = <<>>
    /\ activeClient = 0
    /\ pc = [c \in Conns |-> "unused"]
    /\ link = [c \in Conns |-> "none"]
    /\ addr = [c \in Conns |-> NoAddr]
    /\ inbox = [c \in Conns |-> <<>>]
    /\ request = [c \in Conns |-> NoFrame]
    /\ connections = [a \in Addrs |-> NoConn]

-----------------------------------------------------------------------------
(* ListenAndServe, server.go:87-124. *)

Listen ==
    /\ serve = "listen"
    /\ listener' = "open"
    /\ serve' = "accept"
    /\ UNCHANGED <<ctxDone, outcome, backlog, activeClient, connVars, connections>>

\* net.Listen fails: the port is taken or not permitted.
ListenFails ==
    /\ serve = "listen"
    /\ serve' = "returned"
    /\ outcome' = "listenErr"
    /\ UNCHANGED <<ctxDone, listener, backlog, activeClient, connVars, connections>>

\* The goroutine that waits for ctx.Done().  The kernel resets what is queued.
CloseListener ==
    /\ listener = "open"
    /\ ctxDone
    /\ listener' = "closed"
    /\ backlog' = <<>>
    /\ pc' = [c \in Conns |-> IF pc[c] = "queued" THEN "unused" ELSE pc[c]]
    /\ link' = [c \in Conns |-> IF pc[c] = "queued" THEN "none" ELSE link[c]]
    /\ addr' = [c \in Conns |-> IF pc[c] = "queued" THEN NoAddr ELSE addr[c]]
    /\ inbox' = [c \in Conns |-> IF pc[c] = "queued" THEN <<>> ELSE inbox[c]]
    /\ UNCHANGED <<ctxDone, serve, outcome, activeClient, request, connections>>

Accept ==
    /\ serve = "accept"
    /\ listener = "open"
    /\ backlog # <<>>
    /\ serve' = "check"
    /\ Goto(Head(backlog), "accepted")
    /\ backlog' = Tail(backlog)
    /\ UNCHANGED <<ctxDone, listener, outcome, activeClient, peerVars, request, connections>>

\* Variant: the error of a closed listener taken for a temporary one.
AcceptRetries ==
    /\ serve = "accept"
    /\ listener = "closed"
    /\ UNCHANGED vars

\* Accept on a closed listener fails, and only ctx closes the listener.
AcceptReturns ==
    /\ serve = "accept"
    /\ listener = "closed"
    /\ serve' = "returned"
    /\ outcome' = "nil"
    /\ UNCHANGED <<ctxDone, listener, backlog, activeClient, connVars, connections>>

\* A permanent error of accept(2).  Nobody closes the listener here.
AcceptFails ==
    /\ AcceptErrors
    /\ serve = "accept"
    /\ listener = "open"
    /\ serve' = "returned"
    /\ outcome' = IF ctxDone THEN "nil" ELSE "acceptErr"
    /\ UNCHANGED <<ctxDone, listener, backlog, activeClient, connVars, connections>>

\* The connection is gone for both sides.
Release(c) ==
    /\ Goto(c, "unused")
    /\ link' = [link EXCEPT ![c] = "none"]
    /\ addr' = [addr EXCEPT ![c] = NoAddr]
    /\ inbox' = [inbox EXCEPT ![c] = <<>>]
    /\ request' = [request EXCEPT ![c] = NoFrame]

\* Variants: the comparison off by one, either way.
LimitReachedLate == activeClient > MaxClients
LimitReachedEarly == activeClient + 1 >= MaxClients

LimitReached == activeClient >= MaxClients

\* Variant: the loop is left where it should go on.
RejectClientAndLeave(c) ==
    /\ serve = "check"
    /\ pc[c] = "accepted"
    /\ LimitReached
    /\ serve' = "returned"
    /\ Release(c)
    /\ UNCHANGED <<ctxDone, listener, outcome, backlog, activeClient, connections>>

RejectClient(c) ==
    /\ serve = "check"
    /\ pc[c] = "accepted"
    /\ LimitReached
    /\ serve' = "accept"
    /\ Release(c)
    /\ UNCHANGED <<ctxDone, listener, outcome, backlog, activeClient, connections>>

PassCheck ==
    /\ serve = "check"
    /\ ~LimitReached
    /\ serve' = "admit"
    /\ UNCHANGED <<ctxDone, listener, outcome, backlog, activeClient, connVars, connections>>

AdmitClient(c) ==
    /\ serve = "admit"
    /\ pc[c] = "accepted"
    /\ activeClient' = activeClient + 1
    /\ serve' = "accept"
    /\ Goto(c, "spawned")
    /\ UNCHANGED <<ctxDone, listener, outcome, backlog, peerVars, request, connections>>

-----------------------------------------------------------------------------
(* handleConnection, server.go:126-188. *)

ConnectionOpened(c) ==
    /\ pc[c] = "spawned"
    /\ connections' = [connections EXCEPT ![addr[c]] = c]
    /\ Goto(c, "reading")
    /\ UNCHANGED <<serverVars, backlog, activeClient, peerVars, request>>

\* Variant: the error of parseRequest is logged and that is all.
ReadUnparsed(c) ==
    /\ pc[c] = "reading"
    /\ inbox[c] # <<>>
    /\ inbox' = [inbox EXCEPT ![c] = Tail(@)]
    /\ Goto(c, "recordRead")
    /\ request' = [request EXCEPT ![c] = Head(inbox[c])]
    /\ UNCHANGED <<serverVars, backlog, activeClient, link, addr, connections>>

\* io.ReadFull of the header and parseRequest, both under one deadline.
ReadRequest(c) ==
    /\ pc[c] = "reading"
    /\ inbox[c] # <<>>
    /\ inbox' = [inbox EXCEPT ![c] = Tail(@)]
    /\ \/ /\ Head(inbox[c]) \in Malformed
          /\ Goto(c, "decrement")
          /\ UNCHANGED request
       \/ /\ Head(inbox[c]) \notin Malformed
          /\ Goto(c, "recordRead")
          /\ request' = [request EXCEPT ![c] = Head(inbox[c])]
    /\ UNCHANGED <<serverVars, backlog, activeClient, link, addr, connections>>

\* End of file, a reset, or a deadline that passed before a whole frame came.
ReadEnds(c) ==
    /\ pc[c] = "reading"
    /\ \/ link[c] = "fin" /\ inbox[c] = <<>>
       \/ link[c] = "rst"
    /\ Goto(c, "decrement")
    /\ UNCHANGED <<serverVars, backlog, activeClient, peerVars, request, connections>>

\* Variant: a timeout starts another round of the loop.
IdleTimeoutIgnored(c) ==
    /\ pc[c] = "reading"
    /\ UNCHANGED vars

IdleTimeout(c) ==
    /\ pc[c] = "reading"
    /\ Goto(c, "decrement")
    /\ UNCHANGED <<serverVars, backlog, activeClient, peerVars, request, connections>>

\* What the loop does with the frame from here on is told by its place.
AcceptUnitID(u) == UnitIDs = {} \/ u \in UnitIDs

RecordRead(c) ==
    /\ pc[c] = "recordRead"
    /\ Goto(c, IF AcceptUnitID(request[c]) THEN "handle" ELSE "reject")
    /\ request' = [request EXCEPT ![c] = NoFrame]
    /\ UNCHANGED <<serverVars, backlog, activeClient, peerVars, connections>>

\* The exception for a foreign unit.  A failed write is logged and the loop
\* goes on to the next request (server.go:172-177).
RejectUnit(c) ==
    /\ pc[c] = "reject"
    /\ \/ link[c] # "rst" /\ Goto(c, "recordWrite")
       \/ Goto(c, "reading")
    /\ UNCHANGED <<serverVars, backlog, activeClient, peerVars, request, connections>>

\* The request takes effect on the data store, see ModbusPDU and DataStore.
HandlePDU(c) ==
    /\ pc[c] = "handle"
    /\ Goto(c, "reply")
    /\ UNCHANGED <<serverVars, backlog, activeClient, peerVars, request, connections>>

\* conn.Write has taken the reply: the kernel has it, the client may never get it.
WriteResponse(c) ==
    /\ pc[c] = "reply"
    /\ link[c] # "rst"
    /\ Goto(c, "recordWrite")
    /\ UNCHANGED <<serverVars, backlog, activeClient, peerVars, request, connections>>

\* Variant: a failed response treated like a failed exception.
WriteFailsUnnoticed(c) ==
    /\ pc[c] = "reply"
    /\ Goto(c, "reading")
    /\ UNCHANGED <<serverVars, backlog, activeClient, peerVars, request, connections>>

\* The peer reset the connection, or the deadline set before the request was
\* read has passed.
WriteFails(c) ==
    /\ pc[c] = "reply"
    /\ Goto(c, "decrement")
    /\ UNCHANGED <<serverVars, backlog, activeClient, peerVars, request, connections>>

RecordWrite(c) ==
    /\ pc[c] = "recordWrite"
    /\ Goto(c, "reading")
    /\ UNCHANGED <<serverVars, backlog, activeClient, peerVars, request, connections>>

\* Variant: the socket is closed before the table forgets the connection.
DecrementAfterClose(c) ==
    /\ pc[c] = "decrement"
    /\ activeClient' = activeClient - 1
    /\ link' = [link EXCEPT ![c] = "none"]
    /\ Goto(c, "forget")
    /\ UNCHANGED <<serverVars, backlog, addr, inbox, request, connections>>

\* The deferred function: Add(-1), connectionClosed, Close, in this order.
Decrement(c) ==
    /\ pc[c] = "decrement"
    /\ activeClient' = activeClient - 1
    /\ Goto(c, "forget")
    /\ UNCHANGED <<serverVars, backlog, peerVars, request, connections>>

\* Variant: the entry stays.
ConnectionForgotten(c) ==
    /\ pc[c] = "forget"
    /\ Goto(c, "close")
    /\ UNCHANGED <<serverVars, backlog, activeClient, peerVars, request, connections>>

ConnectionClosed(c) ==
    /\ pc[c] = "forget"
    /\ connections' = [connections EXCEPT ![addr[c]] = NoConn]
    /\ Goto(c, "close")
    /\ UNCHANGED <<serverVars, backlog, activeClient, peerVars, request>>

CloseConn(c) ==
    /\ pc[c] = "close"
    /\ Release(c)
    /\ UNCHANGED <<serverVars, backlog, activeClient, connections>>

-----------------------------------------------------------------------------
(* The environment: the owner of the context, the clients and the kernel. *)

Cancel ==
    /\ ~ctxDone
    /\ ctxDone' = TRUE
    /\ UNCHANGED <<listener, serve, outcome, backlog, activeClient, connVars, connections>>

\* The kernel holds one connection per remote address, until either end resets
\* it.  A handler may still be at work on a connection that was reset.
AddressFree(a) ==
    \A d \in Conns : addr[d] = a =>
        link[d] \in (IF AddressReuse THEN {"none", "rst"} ELSE {"none"})

Connect(c, a) ==
    /\ listener = "open"
    /\ pc[c] = "unused"
    /\ AddressFree(a)
    /\ Goto(c, "queued")
    /\ link' = [link EXCEPT ![c] = "up"]
    /\ addr' = [addr EXCEPT ![c] = a]
    /\ backlog' = Append(backlog, c)
    /\ UNCHANGED <<serverVars, activeClient, inbox, request, connections>>

Send(c, f) ==
    /\ link[c] = "up"
    /\ Len(inbox[c]) < MaxInbox
    /\ inbox' = [inbox EXCEPT ![c] = Append(@, f)]
    /\ UNCHANGED <<serverVars, backlog, activeClient, pc, link, addr, request, connections>>

Hangup(c) ==
    /\ \/ link[c] = "up" /\ link' = [link EXCEPT ![c] = "fin"]
       \/ link[c] \in {"up", "fin"} /\ link' = [link EXCEPT ![c] = "rst"]
    /\ UNCHANGED <<serverVars, backlog, activeClient, pc, addr, inbox, request, connections>>

-----------------------------------------------------------------------------
AcceptLoop ==
    \/ Listen \/ ListenFails
    \/ Accept \/ AcceptReturns \/ AcceptFails
    \/ PassCheck
    \/ \E c \in Conns : RejectClient(c) \/ AdmitClient(c)

Handler(c) ==
    \/ ConnectionOpened(c)
    \/ ReadRequest(c) \/ ReadEnds(c) \/ IdleTimeout(c)
    \/ RecordRead(c) \/ RejectUnit(c)
    \/ HandlePDU(c) \/ WriteResponse(c) \/ WriteFails(c) \/ RecordWrite(c)
    \/ Decrement(c) \/ ConnectionClosed(c) \/ CloseConn(c)

Environment ==
    \/ Cancel
    \/ \E c \in Conns :
          \/ \E a \in Addrs : Connect(c, a)
          \/ \E f \in Frames : Send(c, f)
          \/ Hangup(c)

\* Everything has ended.
Finished ==
    /\ serve = "returned"
    /\ listener # "open"
    /\ ctxDone
    /\ \A c \in Conns : pc[c] = "unused"
    /\ UNCHANGED vars

Next ==
    \/ AcceptLoop
    \/ CloseListener
    \/ \E c \in Conns : Handler(c)
    \/ Environment
    \/ Finished

Spec == Init /\ [][Next]_vars

\* The Go scheduler runs every goroutine that can run, and a read that has a
\* deadline returns.  Clients and the owner of the context owe nothing.
Fairness ==
    /\ WF_vars(AcceptLoop)
    /\ WF_vars(CloseListener)
    /\ \A c \in Conns : WF_vars(Handler(c))

FairSpec == Spec /\ Fairness

-----------------------------------------------------------------------------
\* Everything but the counter, whose type rests on LimitHolds.
StateTypeOK ==
    /\ ctxDone \in BOOLEAN
    /\ listener \in {"none", "open", "closed"}
    /\ serve \in {"listen", "accept", "check", "admit", "returned"}
    /\ outcome \in {"none", "nil", "listenErr", "acceptErr"}
    /\ backlog \in Seq(Conns)
    /\ pc \in [Conns -> Steps]
    /\ link \in [Conns -> {"none", "up", "fin", "rst"}]
    /\ addr \in [Conns -> Addrs \union {NoAddr}]
    /\ inbox \in [Conns -> Seq(Frames)]
    /\ request \in [Conns -> Units \union {NoFrame}]
    /\ connections \in [Addrs -> Conns \union {NoConn}]

TypeOK == StateTypeOK /\ activeClient \in Nat

\* The accept loop reads the counter and adds to it in two steps, while handlers
\* decrement it (server.go:115-121 against 129).  The counter is never wrong
\* about the admitted connections and they are never more than max_clients.
LimitHolds ==
    /\ activeClient = Cardinality(Counted)
    /\ activeClient <= MaxClients

\* An entry of the connection table belongs to a connection whose handler has
\* not yet run connectionClosed, under the address of that connection, however
\* clients come, go and come back from the same address (stats.go:57-72).
NoStaleEntry ==
    \A a \in Addrs : connections[a] # NoConn =>
        /\ connections[a] \in Tabled
        /\ addr[connections[a]] = a

\* Every connection in the request loop is in the table: what the operator sees
\* as the active connections is what is being served (server.go:130 and 134).
ServedIsListed ==
    \A c \in Serving : connections[addr[c]] = c

\* The connection limit of the abstract specification, with the clients that
\* the kernel has established and the accept loop has not decided on as the
\* waiting ones.
Promise == INSTANCE ClientLimit WITH
    Clients <- Conns,
    Limit <- MaxClients,
    waiting <- {c \in Conns : pc[c] \in {"queued", "accepted"}},
    held <- Counted,
    door <- IF listener = "open" THEN "open" ELSE "shut"

KeepsPromise == Promise!LimitSpec

\* After a cancellation ListenAndServe returns and leaves the port free, for
\* good (server.go:96-106).
CancelStops ==
    ctxDone ~> [](serve = "returned" /\ listener # "open")

\* A client that connected is taken in, turned away or cut off with the listener,
\* unless Accept has failed for good before (server.go:102-122).
QueueIsServed ==
    \A c \in Conns : pc[c] = "queued" ~> (pc[c] # "queued" \/ outcome = "acceptErr")

\* A client is never left waiting on a connection that stays open for the reply to a
\* request that has been executed: the reply is written, or the connection is closed, also
\* when the deadline that was set before the request came has passed by then and however
\* fast the client goes on sending (server.go:142 against 180-186).
AnsweredOrCutOff ==
    \A c \in Conns : pc[c] = "reply" ~> pc[c] \in {"recordWrite", "unused"}

\* A place held by a client that sends nothing is given back: the deadline ends
\* the handler of a silent or vanished client (server.go:142 and 147-161).
SilentPlaceIsFreed ==
    \A c \in Conns : pc[c] \in HandlerSteps ~> (pc[c] = "unused" \/ inbox[c] # <<>>)
=============================================================================
