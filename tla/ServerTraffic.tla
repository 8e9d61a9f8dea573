---------------------------- MODULE ServerTraffic ----------------------------
(***************************************************************************)
(* The counters of the traffic collector (internal/modbus/stats.go) beside *)
(* the server that feeds them: the totals, the counts of each entry of the *)
(* connection table, and the window from which the dashboard's rates are   *)
(* computed.  The table itself is connections of ModbusServer.  Bytes go   *)
(* with their messages and are left out, as are the times and what the     *)
(* last request was.                                                       *)
(*                                                                         *)
(* The methods of the collector exclude each other by its mutex.  The four *)
(* that the handlers call are one step each.  A snapshot is two steps: it  *)
(* copies the window, then begins a new one.                               *)
(***************************************************************************)
EXTENDS ModbusServer, FiniteSetsExt

CONSTANTS
    MaxMessages,    \* bound: the requests that clients send
    NoSnapshot

ASSUME TrafficAssumption ==
    /\ MaxMessages \in Nat
    /\ NoSnapshot \notin [in : Nat, out : Nat]

VARIABLES
    totals,         \* messages in and out since the server was made
    window,         \* the same since the window began
    counts,         \* the same in the entry of each address
    copied,         \* the window in the hand of a snapshot, which has the mutex
    own,            \* history: what the handler of each connection recorded
    reported        \* history: what the windows that have ended counted

collectorVars == <<totals, window, counts, copied>>
trafficVars == <<collectorVars, own, reported>>
allVars == <<vars, trafficVars>>

Counters == [in : Nat, out : Nat]

Zero == [in |-> 0, out |-> 0]
Request == [in |-> 1, out |-> 0]
Response == [in |-> 0, out |-> 1]

Plus(m, n) == [in |-> m.in + n.in, out |-> m.out + n.out]

TrafficInit ==
    /\ Init
    /\ totals = Zero
    /\ window = Zero
    /\ counts = [a \in Addrs |-> Zero]
    /\ copied = NoSnapshot
    /\ own = [c \in Conns |-> Zero]
    /\ reported = Zero

-----------------------------------------------------------------------------
(* stats.go:57-106, called from server.go:126-186. *)

\* Variant: the counters are touched without the mutex.
Unlocked == TRUE

MutexFree == copied = NoSnapshot

\* A new entry, whatever the address had before.
Open(c) ==
    /\ MutexFree
    /\ ConnectionOpened(c)
    /\ counts' = [counts EXCEPT ![addr[c]] = Zero]
    /\ UNCHANGED <<totals, window, copied, own, reported>>

\* recordRead and recordWrite: the entry of the address counts too, if any.
Record(c, message) ==
    /\ MutexFree
    /\ totals' = Plus(totals, message)
    /\ window' = Plus(window, message)
    /\ counts' = IF connections[addr[c]] = NoConn THEN counts
                 ELSE [counts EXCEPT ![addr[c]] = Plus(@, message)]
    /\ own' = [own EXCEPT ![c] = Plus(@, message)]
    /\ UNCHANGED <<copied, reported>>

CountRead(c) == RecordRead(c) /\ Record(c, Request)

CountWrite(c) == RecordWrite(c) /\ Record(c, Response)

\* Variant: an entry that another connection has taken over stays.
CloseOwnEntry(c) ==
    /\ MutexFree
    /\ pc[c] = "forget"
    /\ IF connections[addr[c]] = c
       THEN /\ ConnectionClosed(c)
            /\ counts' = [counts EXCEPT ![addr[c]] = Zero]
       ELSE /\ ConnectionForgotten(c)
            /\ UNCHANGED counts
    /\ own' = [own EXCEPT ![c] = Zero]
    /\ UNCHANGED <<totals, window, copied, reported>>

\* The entry of the address goes, with its counts.
Close(c) ==
    /\ MutexFree
    /\ ConnectionClosed(c)
    /\ counts' = [counts EXCEPT ![addr[c]] = Zero]
    /\ own' = [own EXCEPT ![c] = Zero]
    /\ UNCHANGED <<totals, window, copied, reported>>

(* snapshot, stats.go:108-141, when the window is a second old.  Before that it  *)
(* only reads.                                                                   *)

CopyWindow ==
    /\ MutexFree
    /\ window # Zero
    /\ copied' = window
    /\ UNCHANGED <<vars, totals, window, counts, own, reported>>

BeginWindow ==
    /\ copied # NoSnapshot
    /\ window' = Zero
    /\ copied' = NoSnapshot
    /\ reported' = Plus(reported, copied)
    /\ UNCHANGED <<vars, totals, counts, own>>

-----------------------------------------------------------------------------
\* The requests of a connection that have not yet been recorded.
Pending(c) == Len(inbox[c]) + (IF pc[c] = "recordRead" THEN 1 ELSE 0)

SendCounted(c, f) ==
    /\ totals.in + MapThenSumSet(Pending, Conns) < MaxMessages
    /\ Send(c, f)
    /\ UNCHANGED trafficVars

\* What does not touch the collector.
OtherStep ==
    /\ \/ AcceptLoop
       \/ CloseListener
       \/ \E c \in Conns :
             \/ ReadRequest(c) \/ ReadEnds(c) \/ IdleTimeout(c)
             \/ RejectUnit(c) \/ HandlePDU(c) \/ WriteResponse(c) \/ WriteFails(c)
             \/ Decrement(c) \/ CloseConn(c)
             \/ Hangup(c)
             \/ \E a \in Addrs : Connect(c, a)
       \/ Cancel
       \/ Finished
    /\ UNCHANGED trafficVars

CollectorStep ==
    \/ \E c \in Conns : Open(c) \/ CountRead(c) \/ CountWrite(c) \/ Close(c)
    \/ CopyWindow
    \/ BeginWindow

TrafficNext ==
    \/ CollectorStep
    \/ \E c \in Conns, f \in Frames : SendCounted(c, f)
    \/ OtherStep

TrafficSpec == TrafficInit /\ [][TrafficNext]_allVars

-----------------------------------------------------------------------------
TrafficTypeOK ==
    /\ {totals, window, reported} \subseteq Counters
    /\ counts \in [Addrs -> Counters]
    /\ copied \in Counters \union {NoSnapshot}
    /\ own \in [Conns -> Counters]

\* The row of a connection in the dashboard counts what its handler counted, and
\* nothing else, unless another handler is still at work under the same address.
\* Such a handler records into the row of its successor; that the row is right
\* again when it has gone is because it takes the row with it (stats.go:68-106).
OwnCounts ==
    \A c \in Tabled :
        (connections[addr[c]] = c /\ \A d \in Tabled \ {c} : addr[d] # addr[c]) =>
            counts[addr[c]] = own[c]

\* Every message is counted in one window, whenever the dashboard takes its
\* snapshots: the windows that it has shown and the current one add up to the
\* totals (stats.go:74-106 against 135-138).
WindowsAddUp == totals = Plus(reported, window)
=============================================================================
