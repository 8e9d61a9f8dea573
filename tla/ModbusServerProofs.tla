------------------------- MODULE ModbusServerProofs -------------------------
(***************************************************************************)
(* Proofs about ModbusServer, and about ServerTraffic beside it, for every *)
(* set of connections and addresses, every limit and every configuration   *)
(* of units.                                                               *)
(*                                                                         *)
(* The invariants are proved in layers, each relative to the ones before:  *)
(* the types of everything but the counter; the queue and the hand of the  *)
(* accept loop; the counter; the connection table.  The counter can only   *)
(* be typed once it is known to count the admitted connections, and that   *)
(* needs the queue: Accept must not take a connection that is being        *)
(* served.                                                                 *)
(***************************************************************************)
EXTENDS ServerTraffic, TLAPS, FiniteSetTheorems

\* The actions of the handler that neither admit nor discount a connection.
HandlerSteady(c) ==
    \/ ConnectionOpened(c)
    \/ ReadRequest(c) \/ ReadEnds(c) \/ IdleTimeout(c)
    \/ RecordRead(c) \/ RejectUnit(c)
    \/ HandlePDU(c) \/ WriteResponse(c) \/ WriteFails(c) \/ RecordWrite(c)
    \/ ConnectionClosed(c)

\* The kernel's queue holds the queued connections, once each.
QueueInv ==
    /\ \A i \in 1..Len(backlog) : pc[backlog[i]] = "queued"
    /\ \A i, j \in 1..Len(backlog) : backlog[i] = backlog[j] => i = j

\* The accept loop has a connection in hand exactly between Accept and its
\* decision, and never two.
HandInv ==
    /\ \A c, d \in Conns : pc[c] = "accepted" /\ pc[d] = "accepted" => c = d
    /\ \A c \in Conns : pc[c] = "accepted" => serve \in {"check", "admit"}

\* The loop is alone in adding to the counter, so a passed check stays valid.
CountInv ==
    /\ activeClient = Cardinality(Counted)
    /\ activeClient <= MaxClients
    /\ serve = "admit" => activeClient < MaxClients

-----------------------------------------------------------------------------
\* The variables keep their types, the counter aside.
THEOREM StateTyping == Spec => []StateTypeOK
<1>1. Init => StateTypeOK
  <2> SUFFICES ASSUME Init PROVE StateTypeOK
    OBVIOUS
  <2>1. backlog \in Seq(Conns) /\ inbox \in [Conns -> Seq(Frames)]
    BY DEF Init
  <2>2. QED
    BY <2>1 DEF Init, StateTypeOK, Steps, HandlerSteps
<1>2. StateTypeOK /\ [Next]_vars => StateTypeOK'
  <2> SUFFICES ASSUME StateTypeOK, [Next]_vars PROVE StateTypeOK'
    OBVIOUS
  <2> USE DEF StateTypeOK, Steps, HandlerSteps, serverVars, connVars, peerVars,
              Goto, Release
  <2>1. CASE Listen \/ ListenFails \/ AcceptReturns \/ AcceptFails \/ PassCheck
    BY <2>1 DEF Listen, ListenFails, AcceptReturns, AcceptFails, PassCheck
  <2>2. CASE CloseListener
    BY <2>2 DEF CloseListener
  <2>3. CASE Accept
    BY <2>3 DEF Accept
  <2>4. ASSUME NEW c \in Conns, RejectClient(c) \/ AdmitClient(c) \/ CloseConn(c)
        PROVE  StateTypeOK'
    <3>1. inbox' \in [Conns -> Seq(Frames)]
      <4>1. <<>> \in Seq(Frames)
        OBVIOUS
      <4>2. inbox' = inbox \/ inbox' = [inbox EXCEPT ![c] = <<>>]
        BY <2>4 DEF RejectClient, AdmitClient, CloseConn
      <4>3. QED
        BY <4>1, <4>2
    <3>2. CASE RejectClient(c)
      BY <3>1, <3>2 DEF RejectClient
    <3>3. CASE AdmitClient(c)
      BY <3>1, <3>3 DEF AdmitClient
    <3>4. CASE CloseConn(c)
      BY <3>1, <3>4 DEF CloseConn
    <3>5. QED
      BY <2>4, <3>2, <3>3, <3>4
  <2>5. ASSUME NEW c \in Conns, ReadRequest(c)
        PROVE  StateTypeOK'
    <3>1. Head(inbox[c]) \in Frames /\ Tail(inbox[c]) \in Seq(Frames)
      BY <2>5 DEF ReadRequest
    <3>2. inbox' \in [Conns -> Seq(Frames)]
      BY <2>5, <3>1 DEF ReadRequest
    <3>3. request' \in [Conns -> Units \union {NoFrame}]
      BY <2>5, <3>1 DEF ReadRequest, Frames
    <3>4. pc' \in [Conns -> Steps]
      BY <2>5 DEF ReadRequest
    <3>5. QED
      BY <2>5, <3>2, <3>3, <3>4 DEF ReadRequest
  <2>6. ASSUME NEW c \in Conns, ConnectionOpened(c) \/ ConnectionClosed(c)
        PROVE  StateTypeOK'
    <3>1. connections' \in [Addrs -> Conns \union {NoConn}]
      BY <2>6 DEF ConnectionOpened, ConnectionClosed
    <3>2. QED
      BY <2>6, <3>1 DEF ConnectionOpened, ConnectionClosed
  <2>7. ASSUME NEW c \in Conns,
               ReadEnds(c) \/ IdleTimeout(c) \/ RecordRead(c) \/ RejectUnit(c)
        PROVE  StateTypeOK'
    <3>1. CASE ReadEnds(c) \/ IdleTimeout(c)
      BY <3>1 DEF ReadEnds, IdleTimeout
    <3>2. CASE RecordRead(c)
      BY <3>2 DEF RecordRead
    <3>3. CASE RejectUnit(c)
      BY <3>3 DEF RejectUnit
    <3>4. QED
      BY <2>7, <3>1, <3>2, <3>3
  <2>8. ASSUME NEW c \in Conns,
               HandlePDU(c) \/ WriteResponse(c) \/ WriteFails(c) \/ RecordWrite(c)
                 \/ Decrement(c)
        PROVE  StateTypeOK'
    <3>1. CASE HandlePDU(c) \/ WriteResponse(c)
      BY <3>1 DEF HandlePDU, WriteResponse
    <3>2. CASE WriteFails(c) \/ RecordWrite(c) \/ Decrement(c)
      BY <3>2 DEF WriteFails, RecordWrite, Decrement
    <3>3. QED
      BY <2>8, <3>1, <3>2
  <2>9. CASE Cancel
    BY <2>9 DEF Cancel
  <2>10. ASSUME NEW c \in Conns, NEW a \in Addrs, Connect(c, a)
         PROVE  StateTypeOK'
    BY <2>10 DEF Connect
  <2>11. ASSUME NEW c \in Conns, NEW f \in Frames, Send(c, f)
         PROVE  StateTypeOK'
    BY <2>11 DEF Send
  <2>12. ASSUME NEW c \in Conns, Hangup(c)
         PROVE  StateTypeOK'
    BY <2>12 DEF Hangup
  <2>13. CASE UNCHANGED vars
    BY <2>13 DEF vars
  <2>14. QED
    BY <2>1, <2>2, <2>3, <2>4, <2>5, <2>6, <2>7, <2>8, <2>9, <2>10, <2>11, <2>12, <2>13
    DEF Next, AcceptLoop, Handler, Environment, Finished
<1>3. QED
  BY <1>1, <1>2, PTL DEF Spec

-----------------------------------------------------------------------------
\* A connection that is not queued moves, and the queue stays.
LEMMA QueueKept ==
  ASSUME StateTypeOK, QueueInv, NEW c \in Conns, pc[c] # "queued",
         NEW s \in Steps, pc' = [pc EXCEPT ![c] = s], backlog' = backlog
  PROVE  QueueInv'
BY DEF StateTypeOK, QueueInv

\* The queue holds queued connections, once each.
LEMMA QueueStep ==
  ASSUME StateTypeOK, QueueInv, [Next]_vars
  PROVE  QueueInv'
<1> USE DEF serverVars, connVars, peerVars, Goto, Release
<1>1. CASE Listen \/ ListenFails \/ AcceptReturns \/ AcceptFails \/ PassCheck
  BY <1>1 DEF Listen, ListenFails, AcceptReturns, AcceptFails, PassCheck, QueueInv
<1>2. CASE CloseListener
  BY <1>2 DEF CloseListener, QueueInv
<1>3. CASE Accept
  <2>1. /\ backlog \in Seq(Conns) /\ backlog # <<>>
        /\ backlog' = Tail(backlog)
        /\ pc \in [Conns -> Steps]
        /\ pc' = [pc EXCEPT ![Head(backlog)] = "accepted"]
    BY <1>3 DEF Accept, StateTypeOK
  <2>2. /\ Len(backlog') = Len(backlog) - 1
        /\ \A i \in 1..Len(backlog') : backlog'[i] = backlog[i + 1]
        /\ Head(backlog) = backlog[1]
        /\ Len(backlog) \in Nat
    BY <2>1
  <2>3. \A i \in 1..Len(backlog') : i + 1 \in 1..Len(backlog) /\ i + 1 # 1
    BY <2>2
  <2>4. ASSUME NEW i \in 1..Len(backlog')
        PROVE  pc'[backlog'[i]] = "queued"
    <3>1. 1 \in 1..Len(backlog) /\ i + 1 \in 1..Len(backlog) /\ i + 1 # 1
      BY <2>2, <2>3
    <3>2. backlog[i + 1] # backlog[1] /\ pc[backlog[i + 1]] = "queued"
      BY <3>1 DEF QueueInv
    <3>3. backlog[i + 1] \in Conns
      BY <2>1, <3>1
    <3>4. QED
      BY <2>1, <2>2, <3>2, <3>3
  <2>5. ASSUME NEW i \in 1..Len(backlog'), NEW j \in 1..Len(backlog'),
               backlog'[i] = backlog'[j]
        PROVE  i = j
    <3>1. i + 1 \in 1..Len(backlog) /\ j + 1 \in 1..Len(backlog)
      BY <2>3
    <3>2. backlog[i + 1] = backlog[j + 1]
      BY <2>2, <2>5
    <3>3. i + 1 = j + 1
      BY <3>1, <3>2 DEF QueueInv
    <3>4. QED
      BY <3>3
  <2>6. QED
    BY <2>4, <2>5 DEF QueueInv
<1>4. ASSUME NEW c \in Conns,
             RejectClient(c) \/ AdmitClient(c) \/ Decrement(c) \/ CloseConn(c)
      PROVE  QueueInv'
  BY <1>4, QueueKept DEF RejectClient, AdmitClient, Decrement, CloseConn, Steps, HandlerSteps
<1>5. ASSUME NEW c \in Conns, HandlerSteady(c)
      PROVE  QueueInv'
  <2>1. pc[c] # "queued" /\ backlog' = backlog
    BY <1>5 DEF HandlerSteady, ConnectionOpened, ReadRequest, ReadEnds, IdleTimeout,
         RecordRead, RejectUnit, HandlePDU, WriteResponse, WriteFails, RecordWrite,
         ConnectionClosed
  <2>2. \E s \in Steps : pc' = [pc EXCEPT ![c] = s]
    BY <1>5 DEF HandlerSteady, ConnectionOpened, ReadRequest, ReadEnds, IdleTimeout,
         RecordRead, RejectUnit, HandlePDU, WriteResponse, WriteFails, RecordWrite,
         ConnectionClosed, Steps, HandlerSteps
  <2>3. QED
    BY <2>1, <2>2, QueueKept
<1>6. ASSUME NEW c \in Conns, NEW a \in Addrs, Connect(c, a)
      PROVE  QueueInv'
  <2>1. /\ backlog \in Seq(Conns) /\ backlog' = Append(backlog, c)
        /\ pc[c] = "unused" /\ pc' = [pc EXCEPT ![c] = "queued"]
        /\ pc \in [Conns -> Steps]
    BY <1>6 DEF Connect, StateTypeOK
  <2>2. /\ Len(backlog') = Len(backlog) + 1
        /\ backlog'[Len(backlog) + 1] = c
        /\ \A i \in 1..Len(backlog) : backlog'[i] = backlog[i]
        /\ \A i \in 1..Len(backlog) : backlog[i] \in Conns /\ backlog[i] # c
    BY <2>1 DEF QueueInv
  <2>3. \A i \in 1..Len(backlog') : i \in 1..Len(backlog) \/ i = Len(backlog) + 1
    BY <2>1, <2>2
  <2>4. \A i \in 1..Len(backlog') : pc'[backlog'[i]] = "queued"
    BY <2>1, <2>2, <2>3 DEF QueueInv
  <2>5. \A i, j \in 1..Len(backlog') : backlog'[i] = backlog'[j] => i = j
    BY <2>2, <2>3 DEF QueueInv
  <2>6. QED
    BY <2>4, <2>5 DEF QueueInv
<1>7. CASE \/ Cancel
           \/ \E c \in Conns : Hangup(c) \/ \E f \in Frames : Send(c, f)
           \/ UNCHANGED vars
  BY <1>7 DEF Cancel, Send, Hangup, vars, QueueInv
<1>8. QED
  BY <1>1, <1>2, <1>3, <1>4, <1>5, <1>6, <1>7
  DEF Next, AcceptLoop, Handler, Environment, Finished, HandlerSteady

\* The accept loop has at most one connection in hand.
LEMMA HandStep ==
  ASSUME StateTypeOK, QueueInv, HandInv, [Next]_vars
  PROVE  HandInv'
<1> USE DEF StateTypeOK, HandInv, serverVars, connVars, peerVars, Goto, Release
<1>1. CASE Listen \/ ListenFails \/ AcceptReturns \/ AcceptFails \/ PassCheck
  BY <1>1 DEF Listen, ListenFails, AcceptReturns, AcceptFails, PassCheck
<1>2. CASE CloseListener
  BY <1>2 DEF CloseListener
<1>3. CASE Accept
  <2>1. Head(backlog) \in Conns
    BY <1>3 DEF Accept
  <2>2. \A c \in Conns : pc[c] # "accepted"
    BY <1>3 DEF Accept
  <2>3. pc' = [pc EXCEPT ![Head(backlog)] = "accepted"] /\ serve' = "check"
    BY <1>3 DEF Accept, Goto
  <2>4. \A c \in Conns : pc'[c] = "accepted" => c = Head(backlog)
    BY <2>1, <2>2, <2>3
  <2>5. QED
    BY <2>3, <2>4
<1>4. ASSUME NEW c \in Conns, RejectClient(c) \/ AdmitClient(c)
      PROVE  HandInv'
  <2>1. /\ pc[c] = "accepted"
        /\ \/ pc' = [pc EXCEPT ![c] = "unused"]
           \/ pc' = [pc EXCEPT ![c] = "spawned"]
    BY <1>4 DEF RejectClient, AdmitClient
  <2>2. \A d \in Conns : pc'[d] # "accepted"
    BY <2>1
  <2>3. QED
    BY <2>2
<1>5. ASSUME NEW c \in Conns, HandlerSteady(c) \/ Decrement(c) \/ CloseConn(c)
      PROVE  HandInv'
  <2>1. serve' = serve
    BY <1>5 DEF HandlerSteady, ConnectionOpened, ReadRequest, ReadEnds, IdleTimeout,
         RecordRead, RejectUnit, HandlePDU, WriteResponse, WriteFails, RecordWrite,
         ConnectionClosed, Decrement, CloseConn
  <2>2. \E s \in Steps \ {"accepted"} : pc' = [pc EXCEPT ![c] = s]
    BY <1>5 DEF HandlerSteady, ConnectionOpened, ReadRequest, ReadEnds, IdleTimeout,
         RecordRead, RejectUnit, HandlePDU, WriteResponse, WriteFails, RecordWrite,
         ConnectionClosed, Decrement, CloseConn, Steps, HandlerSteps
  <2>3. QED
    BY <2>1, <2>2
<1>6. ASSUME NEW c \in Conns, NEW a \in Addrs, Connect(c, a)
      PROVE  HandInv'
  BY <1>6 DEF Connect
<1>7. CASE \/ Cancel
           \/ \E c \in Conns : Hangup(c) \/ \E f \in Frames : Send(c, f)
           \/ UNCHANGED vars
  BY <1>7 DEF Cancel, Send, Hangup, vars
<1>8. QED
  BY <1>1, <1>2, <1>3, <1>4, <1>5, <1>6, <1>7
  DEF Next, AcceptLoop, Handler, Environment, Finished, HandlerSteady

-----------------------------------------------------------------------------
LEMMA CountedFinite == IsFiniteSet(Counted) /\ IsFiniteSet(Counted')
BY FS_Subset, ServerAssumption DEF Counted, ServerAssumption

\* Every step but an admission and a decrement leaves the counted connections
\* and the counter alone, and does not let a check pass unseen.
LEMMA CountedKept ==
  ASSUME StateTypeOK, QueueInv, [Next]_vars,
         \A c \in Conns : ~AdmitClient(c) /\ ~Decrement(c)
  PROVE  Counted' = Counted /\ activeClient' = activeClient
<1> USE DEF StateTypeOK, Counted, HandlerSteps, serverVars, connVars, peerVars,
            Goto, Release
<1>1. CASE Listen \/ ListenFails \/ AcceptReturns \/ AcceptFails \/ PassCheck
  BY <1>1 DEF Listen, ListenFails, AcceptReturns, AcceptFails, PassCheck
<1>2. CASE CloseListener
  BY <1>2 DEF CloseListener
<1>3. CASE Accept
  <2>1. Head(backlog) \in Conns /\ pc[Head(backlog)] = "queued"
    BY <1>3 DEF Accept, QueueInv
  <2>2. QED
    BY <1>3, <2>1 DEF Accept
<1>4. ASSUME NEW c \in Conns, RejectClient(c) \/ CloseConn(c)
      PROVE  Counted' = Counted /\ activeClient' = activeClient
  BY <1>4 DEF RejectClient, CloseConn
<1>5. ASSUME NEW c \in Conns, HandlerSteady(c)
      PROVE  Counted' = Counted /\ activeClient' = activeClient
  <2>1. activeClient' = activeClient
    BY <1>5 DEF HandlerSteady, ConnectionOpened, ReadRequest, ReadEnds, IdleTimeout,
         RecordRead, RejectUnit, HandlePDU, WriteResponse, WriteFails, RecordWrite,
         ConnectionClosed
  <2>2. CASE ConnectionClosed(c)
    BY <2>1, <2>2 DEF ConnectionClosed
  <2>3. CASE ~ConnectionClosed(c)
    <3>1. pc[c] \in HandlerSteps \ {"forget", "close"}
      BY <1>5, <2>3 DEF HandlerSteady, ConnectionOpened, ReadRequest, ReadEnds, IdleTimeout,
           RecordRead, RejectUnit, HandlePDU, WriteResponse, WriteFails, RecordWrite
    <3>2. \E s \in HandlerSteps \ {"forget", "close"} : pc' = [pc EXCEPT ![c] = s]
      BY <1>5, <2>3 DEF HandlerSteady, ConnectionOpened, ReadRequest, ReadEnds, IdleTimeout,
           RecordRead, RejectUnit, HandlePDU, WriteResponse, WriteFails, RecordWrite
    <3>3. QED
      BY <2>1, <3>1, <3>2
  <2>4. QED
    BY <2>2, <2>3
<1>6. ASSUME NEW c \in Conns, NEW a \in Addrs, Connect(c, a)
      PROVE  Counted' = Counted /\ activeClient' = activeClient
  BY <1>6 DEF Connect
<1>7. CASE \/ Cancel
           \/ \E c \in Conns : Hangup(c) \/ \E f \in Frames : Send(c, f)
           \/ UNCHANGED vars
  BY <1>7 DEF Cancel, Send, Hangup, vars
<1>8. QED
  BY <1>1, <1>2, <1>3, <1>4, <1>5, <1>6, <1>7
  DEF Next, AcceptLoop, Handler, Environment, Finished, HandlerSteady

\* An admission adds one connection to the counted ones.
LEMMA AdmitCounts ==
  ASSUME StateTypeOK, NEW c \in Conns, AdmitClient(c)
  PROVE  /\ Counted' = Counted \union {c}
         /\ Cardinality(Counted') = Cardinality(Counted) + 1
<1>1. c \notin Counted /\ Counted' = Counted \union {c}
  BY DEF StateTypeOK, AdmitClient, Goto, Counted, HandlerSteps
<1>2. QED
  BY <1>1, CountedFinite, FS_AddElement

\* The deferred Add(-1) takes one connection out of the counted ones.
LEMMA DecrementCounts ==
  ASSUME StateTypeOK, NEW c \in Conns, Decrement(c)
  PROVE  /\ Counted' = Counted \ {c}
         /\ Cardinality(Counted') = Cardinality(Counted) - 1
<1>1. c \in Counted /\ Counted' = Counted \ {c}
  BY DEF StateTypeOK, Decrement, Goto, Counted, HandlerSteps
<1>2. QED
  BY <1>1, CountedFinite, FS_RemoveElement

\* The counter counts the admitted connections and stays within max_clients:
\* handlers only ever make room between a passed check and the Add(1).
LEMMA CountStep ==
  ASSUME StateTypeOK, QueueInv, CountInv, [Next]_vars
  PROVE  CountInv'
<1> USE ServerAssumption DEF ServerAssumption
<1>0. Cardinality(Counted) \in Nat /\ MaxClients \in Nat
  BY CountedFinite, FS_CardinalityType
<1>1. ASSUME NEW c \in Conns, AdmitClient(c)
      PROVE  CountInv'
  BY <1>0, <1>1, AdmitCounts DEF CountInv, AdmitClient
<1>2. ASSUME NEW c \in Conns, Decrement(c)
      PROVE  CountInv'
  BY <1>0, <1>2, DecrementCounts DEF CountInv, Decrement, serverVars
<1>3. CASE \A c \in Conns : ~AdmitClient(c) /\ ~Decrement(c)
  <2>1. Counted' = Counted /\ activeClient' = activeClient
    BY <1>3, CountedKept
  <2>2. serve' = "admit" => serve = "admit" \/ activeClient < MaxClients
    <3>1. CASE PassCheck
      BY <1>0, <3>1 DEF PassCheck, LimitReached, CountInv
    <3>2. CASE ~PassCheck
      BY <1>3, <3>2 DEF Next, AcceptLoop, Handler, Environment, Finished, Listen, ListenFails,
           Accept, AcceptReturns, AcceptFails, RejectClient, CloseListener, Cancel, Connect,
           Send, Hangup, ConnectionOpened, ReadRequest, ReadEnds, IdleTimeout, RecordRead,
           RejectUnit, HandlePDU, WriteResponse, WriteFails, RecordWrite, ConnectionClosed,
           CloseConn, serverVars, vars
    <3>3. QED
      BY <3>1, <3>2
  <2>3. QED
    BY <2>1, <2>2 DEF CountInv
<1>4. QED
  BY <1>1, <1>2, <1>3

LEMMA LimitInductive == Spec => [](QueueInv /\ HandInv /\ CountInv)
<1>1. Init => QueueInv /\ HandInv /\ CountInv
  <2> SUFFICES ASSUME Init PROVE QueueInv /\ HandInv /\ CountInv
    OBVIOUS
  <2>1. Counted = {}
    BY DEF Init, Counted, HandlerSteps
  <2>2. Cardinality(Counted) = 0
    BY <2>1, FS_EmptySet
  <2>3. QED
    BY <2>2, ServerAssumption DEF Init, QueueInv, HandInv, CountInv, ServerAssumption
<1>2. StateTypeOK /\ QueueInv /\ HandInv /\ CountInv /\ [Next]_vars
        => QueueInv' /\ HandInv' /\ CountInv'
  BY QueueStep, HandStep, CountStep
<1>3. QED
  BY <1>1, <1>2, StateTyping, PTL DEF Spec

\* Every variable keeps its type, the counter included: it never goes negative.
THEOREM Typing == Spec => []TypeOK
<1>1. StateTypeOK /\ CountInv => TypeOK
  BY CountedFinite, FS_CardinalityType DEF CountInv, TypeOK
<1>2. QED
  BY <1>1, StateTyping, LimitInductive, PTL

\* The connection limit holds for any number of clients and any limit.
THEOREM Limit == Spec => []LimitHolds
<1>1. CountInv => LimitHolds
  BY DEF CountInv, LimitHolds
<1>2. QED
  BY <1>1, LimitInductive, PTL

-----------------------------------------------------------------------------
\* Without address reuse, two connections never share a remote address, and a
\* connection has one from its establishment to its close.
OwnAddress ==
    /\ \A c \in Conns : pc[c] # "unused" => addr[c] \in Addrs
    /\ \A c \in Conns : link[c] = "none" => pc[c] = "unused"
    /\ \A c, d \in Conns :
          pc[c] # "unused" /\ pc[d] # "unused" /\ addr[c] = addr[d] => c = d
    /\ \A c \in Conns : pc[c] = "unused" => addr[c] = NoAddr

\* The connection table has no entry without a live handler behind it.
THEOREM Table == Spec => []NoStaleEntry
<1>1. Init => NoStaleEntry
  BY ServerAssumption DEF Init, NoStaleEntry, ServerAssumption
<1>2. StateTypeOK /\ QueueInv /\ NoStaleEntry /\ [Next]_vars => NoStaleEntry'
  <2> SUFFICES ASSUME StateTypeOK, QueueInv, NoStaleEntry, [Next]_vars
               PROVE  NoStaleEntry'
    OBVIOUS
  <2> USE ServerAssumption
      DEF ServerAssumption, StateTypeOK, NoStaleEntry, Tabled, HandlerSteps, serverVars,
          connVars, peerVars, Goto, Release
  <2>1. CASE Listen \/ ListenFails \/ AcceptReturns \/ AcceptFails \/ PassCheck
    BY <2>1 DEF Listen, ListenFails, AcceptReturns, AcceptFails, PassCheck
  <2>2. CASE CloseListener
    BY <2>2 DEF CloseListener
  <2>3. CASE Accept
    <3>1. Head(backlog) \in Conns /\ pc[Head(backlog)] = "queued"
      BY <2>3 DEF Accept, QueueInv
    <3>2. QED
      BY <2>3, <3>1 DEF Accept
  <2>4. ASSUME NEW c \in Conns, RejectClient(c) \/ AdmitClient(c) \/ CloseConn(c)
        PROVE  NoStaleEntry'
    <3>1. c \notin Tabled /\ connections' = connections
      BY <2>4 DEF RejectClient, AdmitClient, CloseConn
    <3>2. \A d \in Conns \ {c} : pc'[d] = pc[d] /\ addr'[d] = addr[d]
      BY <2>4 DEF RejectClient, AdmitClient, CloseConn
    <3>3. QED
      BY <3>1, <3>2
  <2>5. ASSUME NEW c \in Conns, ConnectionOpened(c)
        PROVE  NoStaleEntry'
    BY <2>5 DEF ConnectionOpened
  <2>6. ASSUME NEW c \in Conns, ConnectionClosed(c)
        PROVE  NoStaleEntry'
    BY <2>6 DEF ConnectionClosed
  <2>7. ASSUME NEW c \in Conns,
               HandlerSteady(c) \/ Decrement(c), ~ConnectionOpened(c), ~ConnectionClosed(c)
        PROVE  NoStaleEntry'
    <3>1. connections' = connections /\ addr' = addr
      BY <2>7 DEF HandlerSteady, ReadRequest, ReadEnds, IdleTimeout, RecordRead, RejectUnit,
           HandlePDU, WriteResponse, WriteFails, RecordWrite, Decrement
    <3>2. \E s \in HandlerSteps \ {"spawned", "close"} : pc' = [pc EXCEPT ![c] = s]
      BY <2>7 DEF HandlerSteady, ReadRequest, ReadEnds, IdleTimeout, RecordRead, RejectUnit,
           HandlePDU, WriteResponse, WriteFails, RecordWrite, Decrement
    <3>3. QED
      BY <3>1, <3>2
  <2>8. ASSUME NEW c \in Conns, NEW a \in Addrs, Connect(c, a)
        PROVE  NoStaleEntry'
    BY <2>8 DEF Connect
  <2>9. CASE \/ Cancel
             \/ \E c \in Conns : Hangup(c) \/ \E f \in Frames : Send(c, f)
             \/ UNCHANGED vars
    BY <2>9 DEF Cancel, Send, Hangup, vars
  <2>10. QED
    BY <2>1, <2>2, <2>3, <2>4, <2>5, <2>6, <2>7, <2>8, <2>9
    DEF Next, AcceptLoop, Handler, Environment, Finished, HandlerSteady
<1>3. QED
  BY <1>1, <1>2, StateTyping, LimitInductive, PTL DEF Spec

\* Addresses are owned by one connection at a time when clients do not reuse
\* them early.
LEMMA OwnAddressStep ==
  ASSUME StateTypeOK, QueueInv, OwnAddress, ~AddressReuse, [Next]_vars
  PROVE  OwnAddress'
<1> USE ServerAssumption
    DEF ServerAssumption, StateTypeOK, OwnAddress, serverVars, connVars, peerVars,
        Goto, Release
<1>1. CASE Listen \/ ListenFails \/ AcceptReturns \/ AcceptFails \/ PassCheck
  BY <1>1 DEF Listen, ListenFails, AcceptReturns, AcceptFails, PassCheck
<1>2. CASE CloseListener
  BY <1>2 DEF CloseListener
<1>3. CASE Accept
  <2>1. Head(backlog) \in Conns /\ pc[Head(backlog)] = "queued"
    BY <1>3 DEF Accept, QueueInv
  <2>2. QED
    BY <1>3, <2>1 DEF Accept
<1>4. ASSUME NEW c \in Conns, RejectClient(c) \/ CloseConn(c)
      PROVE  OwnAddress'
  <2>1. /\ pc' = [pc EXCEPT ![c] = "unused"]
        /\ link' = [link EXCEPT ![c] = "none"]
        /\ addr' = [addr EXCEPT ![c] = NoAddr]
    BY <1>4 DEF RejectClient, CloseConn
  <2>2. \A d \in Conns \ {c} : pc'[d] = pc[d] /\ link'[d] = link[d] /\ addr'[d] = addr[d]
    BY <2>1
  <2>3. pc'[c] = "unused" /\ addr'[c] = NoAddr
    BY <2>1
  <2>4. \A d \in Conns : pc'[d] # "unused" => d # c
    BY <2>3
  <2>5. \A d \in Conns : pc'[d] # "unused" => addr'[d] \in Addrs
    BY <2>2, <2>4
  <2>6. ASSUME NEW d \in Conns, link'[d] = "none"
        PROVE  pc'[d] = "unused"
    <3>1. CASE d = c
      BY <2>3, <3>1
    <3>2. CASE d # c
      <4>1. link[d] = "none"
        BY <2>2, <2>6, <3>2
      <4>2. QED
        BY <2>2, <3>2, <4>1
    <3>3. QED
      BY <3>1, <3>2
  <2>7. ASSUME NEW d \in Conns, NEW e \in Conns,
               pc'[d] # "unused", pc'[e] # "unused", addr'[d] = addr'[e]
        PROVE  d = e
    <3>1. d # c /\ e # c
      BY <2>4, <2>7
    <3>2. pc[d] # "unused" /\ pc[e] # "unused" /\ addr[d] = addr[e]
      BY <2>2, <2>7, <3>1
    <3>3. QED
      BY <3>2
  <2>8. ASSUME NEW d \in Conns, pc'[d] = "unused"
        PROVE  addr'[d] = NoAddr
    <3>1. CASE d = c
      BY <2>3, <3>1
    <3>2. CASE d # c
      <4>1. pc[d] = "unused"
        BY <2>2, <2>8, <3>2
      <4>2. QED
        BY <2>2, <3>2, <4>1
    <3>3. QED
      BY <3>1, <3>2
  <2>9. QED
    BY <2>5, <2>6, <2>7, <2>8
<1>5. ASSUME NEW c \in Conns, AdmitClient(c) \/ HandlerSteady(c) \/ Decrement(c)
      PROVE  OwnAddress'
  <2>1. addr' = addr /\ link' = link /\ pc[c] # "unused"
    BY <1>5 DEF AdmitClient, HandlerSteady, ConnectionOpened, ReadRequest, ReadEnds,
         IdleTimeout, RecordRead, RejectUnit, HandlePDU, WriteResponse, WriteFails,
         RecordWrite, ConnectionClosed, Decrement
  <2>2. \E s \in Steps \ {"unused"} : pc' = [pc EXCEPT ![c] = s]
    BY <1>5 DEF AdmitClient, HandlerSteady, ConnectionOpened, ReadRequest, ReadEnds,
         IdleTimeout, RecordRead, RejectUnit, HandlePDU, WriteResponse, WriteFails,
         RecordWrite, ConnectionClosed, Decrement, Steps, HandlerSteps
  <2>3. QED
    BY <2>1, <2>2
<1>6. ASSUME NEW c \in Conns, NEW a \in Addrs, Connect(c, a)
      PROVE  OwnAddress'
  <2>1. \A d \in Conns : addr[d] = a => link[d] = "none"
    BY <1>6 DEF Connect, AddressFree
  <2>2. \A d \in Conns : addr[d] # a
    BY <2>1
  <2>3. QED
    BY <1>6, <2>2 DEF Connect
<1>7. CASE \/ Cancel
           \/ \E c \in Conns : Hangup(c) \/ \E f \in Frames : Send(c, f)
           \/ UNCHANGED vars
  BY <1>7 DEF Cancel, Send, Hangup, vars
<1>8. QED
  BY <1>1, <1>2, <1>3, <1>4, <1>5, <1>6, <1>7
  DEF Next, AcceptLoop, Handler, Environment, Finished, HandlerSteady

\* As long as no client dials from an address the server still works for, every
\* connection being served is in the table.
THEOREM Listing == ASSUME ~AddressReuse PROVE Spec => []ServedIsListed
<1>1. Init => OwnAddress /\ ServedIsListed
  BY DEF Init, OwnAddress, ServedIsListed, Serving
<1>2. StateTypeOK /\ QueueInv /\ OwnAddress /\ [Next]_vars => OwnAddress'
  BY OwnAddressStep
<1>3. StateTypeOK /\ QueueInv /\ OwnAddress /\ ServedIsListed /\ [Next]_vars
        => ServedIsListed'
  <2> SUFFICES ASSUME StateTypeOK, QueueInv, OwnAddress, ServedIsListed, [Next]_vars
               PROVE  ServedIsListed'
    OBVIOUS
  <2> USE ServerAssumption
      DEF ServerAssumption, StateTypeOK, ServedIsListed, Serving, serverVars, connVars,
          peerVars, Goto,
          Release
  <2>1. CASE Listen \/ ListenFails \/ AcceptReturns \/ AcceptFails \/ PassCheck
    BY <2>1 DEF Listen, ListenFails, AcceptReturns, AcceptFails, PassCheck
  <2>2. CASE CloseListener
    BY <2>2 DEF CloseListener
  <2>3. CASE Accept
    <3>1. Head(backlog) \in Conns /\ pc[Head(backlog)] = "queued"
      BY <2>3 DEF Accept, QueueInv
    <3>2. QED
      BY <2>3, <3>1 DEF Accept
  <2>4. ASSUME NEW c \in Conns,
               RejectClient(c) \/ AdmitClient(c) \/ CloseConn(c) \/ Decrement(c)
        PROVE  ServedIsListed'
    <3>1. connections' = connections /\ c \notin Serving'
      BY <2>4 DEF RejectClient, AdmitClient, CloseConn, Decrement
    <3>2. \A d \in Conns \ {c} : pc'[d] = pc[d] /\ addr'[d] = addr[d]
      BY <2>4 DEF RejectClient, AdmitClient, CloseConn, Decrement
    <3>3. QED
      BY <3>1, <3>2
  <2>5. ASSUME NEW c \in Conns, ConnectionOpened(c) \/ ConnectionClosed(c)
        PROVE  ServedIsListed'
    <3>1. \A d \in Serving : d # c /\ addr[d] # addr[c]
      BY <2>5 DEF ConnectionOpened, ConnectionClosed, OwnAddress
    <3>2. addr[c] \in Addrs /\ addr' = addr
      BY <2>5 DEF ConnectionOpened, ConnectionClosed, OwnAddress
    <3>3. CASE ConnectionOpened(c)
      BY <3>1, <3>2, <3>3 DEF ConnectionOpened
    <3>4. CASE ConnectionClosed(c)
      BY <3>1, <3>2, <3>4 DEF ConnectionClosed
    <3>5. QED
      BY <2>5, <3>3, <3>4
  <2>6. ASSUME NEW c \in Conns,
               HandlerSteady(c), ~ConnectionOpened(c), ~ConnectionClosed(c)
        PROVE  ServedIsListed'
    <3>1. connections' = connections /\ addr' = addr /\ c \in Serving
      BY <2>6 DEF HandlerSteady, ReadRequest, ReadEnds, IdleTimeout, RecordRead, RejectUnit,
           HandlePDU, WriteResponse, WriteFails, RecordWrite
    <3>2. \A d \in Conns \ {c} : pc'[d] = pc[d]
      BY <2>6 DEF HandlerSteady, ReadRequest, ReadEnds, IdleTimeout, RecordRead, RejectUnit,
           HandlePDU, WriteResponse, WriteFails, RecordWrite
    <3>3. QED
      BY <3>1, <3>2
  <2>7. ASSUME NEW c \in Conns, NEW a \in Addrs, Connect(c, a)
        PROVE  ServedIsListed'
    BY <2>7 DEF Connect
  <2>8. CASE \/ Cancel
             \/ \E c \in Conns : Hangup(c) \/ \E f \in Frames : Send(c, f)
             \/ UNCHANGED vars
    BY <2>8 DEF Cancel, Send, Hangup, vars
  <2>9. QED
    BY <2>1, <2>2, <2>3, <2>4, <2>5, <2>6, <2>7, <2>8
    DEF Next, AcceptLoop, Handler, Environment, Finished, HandlerSteady
<1>4. QED
  BY <1>1, <1>2, <1>3, StateTyping, LimitInductive, PTL DEF Spec

-----------------------------------------------------------------------------
Waiting == {c \in Conns : pc[c] \in {"queued", "accepted"}}

\* The steps of the server that the clients' view of the limit does not see.
LEMMA HiddenStep ==
  ASSUME StateTypeOK, QueueInv, [Next]_vars,
         ~Listen, ~CloseListener,
         \A c \in Conns : /\ ~AdmitClient(c) /\ ~Decrement(c) /\ ~RejectClient(c)
                         /\ \A a \in Addrs : ~Connect(c, a)
  PROVE  Waiting' = Waiting /\ Counted' = Counted /\ listener' = listener
<1>1. Counted' = Counted
  BY CountedKept
<1> USE DEF StateTypeOK, Waiting, serverVars, connVars, peerVars, Goto, Release
<1>2. CASE ListenFails \/ AcceptReturns \/ AcceptFails \/ PassCheck
  BY <1>1, <1>2 DEF ListenFails, AcceptReturns, AcceptFails, PassCheck
<1>3. CASE Accept
  <2>1. Head(backlog) \in Conns /\ pc[Head(backlog)] = "queued"
    BY <1>3 DEF Accept, QueueInv
  <2>2. QED
    BY <1>1, <1>3, <2>1 DEF Accept
<1>4. ASSUME NEW c \in Conns, HandlerSteady(c) \/ CloseConn(c)
      PROVE  Waiting' = Waiting /\ Counted' = Counted /\ listener' = listener
  <2>1. listener' = listener /\ pc[c] \notin {"queued", "accepted"}
    BY <1>4 DEF HandlerSteady, ConnectionOpened, ReadRequest, ReadEnds, IdleTimeout,
         RecordRead, RejectUnit, HandlePDU, WriteResponse, WriteFails, RecordWrite,
         ConnectionClosed, CloseConn
  <2>2. \E s \in Steps \ {"queued", "accepted"} : pc' = [pc EXCEPT ![c] = s]
    BY <1>4 DEF HandlerSteady, ConnectionOpened, ReadRequest, ReadEnds, IdleTimeout,
         RecordRead, RejectUnit, HandlePDU, WriteResponse, WriteFails, RecordWrite,
         ConnectionClosed, CloseConn, Steps, HandlerSteps
  <2>3. QED
    BY <1>1, <2>1, <2>2
<1>5. CASE \/ Cancel
           \/ \E c \in Conns : Hangup(c) \/ \E f \in Frames : Send(c, f)
           \/ UNCHANGED vars
  BY <1>1, <1>5 DEF Cancel, Send, Hangup, vars
<1>6. QED
  BY <1>2, <1>3, <1>4, <1>5
  DEF Next, AcceptLoop, Handler, Environment, Finished, HandlerSteady

\* The cardinality of the instantiated module is that of FiniteSets.
LEMMA SameCardinality == \A S : Promise!Cardinality(S) = Cardinality(S)
BY DEF Promise!Cardinality, Cardinality

\* The server implements the abstract connection limit: it lets a client in
\* only while there is room and turns one away only when there is none.
THEOREM Implements == Spec => KeepsPromise
<1>1. Init => Promise!LimitInit
  BY DEF Init, Promise!LimitInit, Counted, HandlerSteps
<1>2. StateTypeOK /\ QueueInv /\ HandInv /\ CountInv /\ [Next]_vars
        => [Promise!LimitNext]_(Promise!limitVars)
  <2> SUFFICES ASSUME StateTypeOK, QueueInv, HandInv, CountInv, [Next]_vars
               PROVE  [Promise!LimitNext]_(Promise!limitVars)
    OBVIOUS
  <2> USE DEF Waiting, serverVars, connVars, peerVars, Goto, Release
  <2>1. CASE Listen
    <3>1. Waiting' = Waiting /\ Counted' = Counted
      BY <2>1 DEF Listen, Counted
    <3>2. QED
      BY <2>1, <3>1 DEF Listen, Promise!LimitNext, Promise!OpenDoor
  <2>2. CASE CloseListener
    <3> DEFINE Kept == {c \in Conns : pc[c] = "accepted"}
    <3>1. Waiting' = Kept /\ Counted' = Counted
      BY <2>2, CountedKept DEF CloseListener, StateTypeOK, Counted, HandlerSteps
    <3>2. Kept \in SUBSET Waiting /\ \A c, d \in Kept : c = d
      BY DEF HandInv
    <3>3. Promise!ShutDoor
      BY <2>2, <3>1, <3>2 DEF CloseListener, Promise!ShutDoor
    <3>4. QED
      BY <3>3 DEF Promise!LimitNext
  <2>3. ASSUME NEW c \in Conns, AdmitClient(c)
        PROVE  Promise!LimitNext
    <3>1. c \in Waiting /\ Waiting' = Waiting \ {c} /\ listener' = listener
      BY <2>3 DEF AdmitClient, StateTypeOK
    <3>2. Cardinality(Counted) < MaxClients
      BY <2>3 DEF AdmitClient, CountInv
    <3>3. Counted' = Counted \union {c}
      BY <2>3, AdmitCounts
    <3>4. Promise!LetIn(c)
      BY <3>1, <3>2, <3>3, SameCardinality DEF Promise!LetIn
    <3>5. QED
      BY <3>4 DEF Promise!LimitNext
  <2>4. ASSUME NEW c \in Conns, RejectClient(c)
        PROVE  Promise!LimitNext
    <3>1. c \in Waiting /\ Waiting' = Waiting \ {c} /\ listener' = listener
      BY <2>4 DEF RejectClient, StateTypeOK
    <3>2. Cardinality(Counted) = MaxClients
      BY <2>4, CountedFinite, FS_CardinalityType, ServerAssumption
      DEF RejectClient, LimitReached, CountInv, ServerAssumption
    <3>3. Counted' = Counted
      BY <2>4 DEF RejectClient, StateTypeOK, Counted, HandlerSteps
    <3>4. Promise!TurnAway(c)
      BY <3>1, <3>2, <3>3, SameCardinality DEF Promise!TurnAway
    <3>5. QED
      BY <3>4 DEF Promise!LimitNext
  <2>5. ASSUME NEW c \in Conns, Decrement(c)
        PROVE  Promise!LimitNext
    <3>1. Waiting' = Waiting /\ listener' = listener /\ c \in Counted
      BY <2>5 DEF Decrement, StateTypeOK, Counted, HandlerSteps
    <3>2. Counted' = Counted \ {c}
      BY <2>5, DecrementCounts
    <3>3. Promise!GiveBack(c)
      BY <3>1, <3>2 DEF Promise!GiveBack
    <3>4. QED
      BY <3>3 DEF Promise!LimitNext
  <2>6. ASSUME NEW c \in Conns, NEW a \in Addrs, Connect(c, a)
        PROVE  Promise!LimitNext
    <3>1. c \notin Waiting /\ Waiting' = Waiting \union {c}
      BY <2>6 DEF Connect, StateTypeOK
    <3>2. c \notin Counted /\ Counted' = Counted
      BY <2>6 DEF Connect, StateTypeOK, Counted, HandlerSteps
    <3>3. listener = "open" /\ listener' = listener
      BY <2>6 DEF Connect
    <3>4. Promise!Knock(c)
      BY <3>1, <3>2, <3>3 DEF Promise!Knock
    <3>5. QED
      BY <3>4 DEF Promise!LimitNext
  <2>7. CASE /\ ~Listen /\ ~CloseListener
             /\ \A c \in Conns :
                   /\ ~AdmitClient(c) /\ ~Decrement(c) /\ ~RejectClient(c)
                   /\ \A a \in Addrs : ~Connect(c, a)
    BY <2>7, HiddenStep DEF Promise!limitVars
  <2>8. QED
    BY <2>1, <2>2, <2>3, <2>4, <2>5, <2>6, <2>7
<1>3. QED
  BY <1>1, <1>2, StateTyping, LimitInductive, PTL DEF Spec, KeepsPromise, Promise!LimitSpec

-----------------------------------------------------------------------------
(***************************************************************************)
(* The traffic collector beside the server, ServerTraffic.  A step of the  *)
(* server beside its collector is a step of the server, so that what is    *)
(* shown above carries over.  The counts of the rows need two more facts:  *)
(* a connection that is known to the kernel has an address, and a handler  *)
(* that has no row has recorded nothing.                                   *)
(***************************************************************************)

\* The server in the composition behaves as the server alone.
LEMMA TrafficIsServer == TrafficSpec => Spec
<1>1. TrafficInit => Init
  BY DEF TrafficInit
<1>2. [TrafficNext]_allVars => [Next]_vars
  BY DEF TrafficNext, CollectorStep, Open, CountRead, CountWrite, Close, CopyWindow,
         BeginWindow, SendCounted, OtherStep, Next, Handler, Environment, allVars
<1>3. QED
  BY <1>1, <1>2, PTL DEF TrafficSpec, Spec

LEMMA PlusTyped == \A m, n \in Counters : Plus(m, n) \in Counters
BY DEF Plus, Counters

LEMMA MessagesTyped == {Zero, Request, Response} \subseteq Counters
BY DEF Zero, Request, Response, Counters

\* Adding a message to a window adds it to what it counts together with others.
LEMMA PlusAssociates ==
  \A l, m, n \in Counters : Plus(l, Plus(m, n)) = Plus(Plus(l, m), n)
BY DEF Plus, Counters

LEMMA PlusZero == \A m \in Counters : Plus(m, Zero) = m
BY DEF Plus, Counters, Zero

-----------------------------------------------------------------------------
\* The counters keep their types.
THEOREM TrafficTyping == TrafficSpec => []TrafficTypeOK
<1>1. TrafficInit => TrafficTypeOK
  BY MessagesTyped DEF TrafficInit, TrafficTypeOK
<1>2. TrafficTypeOK /\ [TrafficNext]_allVars => TrafficTypeOK'
  <2> SUFFICES ASSUME TrafficTypeOK, [TrafficNext]_allVars
               PROVE  TrafficTypeOK'
    OBVIOUS
  <2> USE MessagesTyped DEF TrafficTypeOK
  <2>1. ASSUME NEW c \in Conns, Open(c) \/ Close(c)
        PROVE  TrafficTypeOK'
    BY <2>1 DEF Open, Close
  <2>2. ASSUME NEW c \in Conns, NEW m \in {Request, Response}, Record(c, m)
        PROVE  TrafficTypeOK'
    <3>1. /\ Plus(totals, m) \in Counters /\ Plus(window, m) \in Counters
          /\ \A a \in Addrs : Plus(counts[a], m) \in Counters
          /\ \A d \in Conns : Plus(own[d], m) \in Counters
      BY PlusTyped
    <3>2. QED
      BY <2>2, <3>1 DEF Record
  <2>3. CASE CopyWindow
    BY <2>3 DEF CopyWindow
  <2>4. CASE BeginWindow
    BY <2>4, PlusTyped DEF BeginWindow
  <2>5. CASE UNCHANGED trafficVars
    BY <2>5 DEF trafficVars, collectorVars
  <2>6. QED
    BY <2>1, <2>2, <2>3, <2>4, <2>5
    DEF TrafficNext, CollectorStep, CountRead, CountWrite, SendCounted, OtherStep, allVars
<1>3. QED
  BY <1>1, <1>2, PTL DEF TrafficSpec

\* A window that is being copied does not change.
CopyInv == copied \in {NoSnapshot, window}

\* No message is counted in two windows or in none, however the snapshots fall.
THEOREM Windows == TrafficSpec => []WindowsAddUp
<1>1. TrafficInit => WindowsAddUp /\ CopyInv
  BY DEF TrafficInit, WindowsAddUp, CopyInv, Plus, Zero
<1>2. TrafficTypeOK /\ WindowsAddUp /\ CopyInv /\ [TrafficNext]_allVars
        => (WindowsAddUp /\ CopyInv)'
  <2> SUFFICES ASSUME TrafficTypeOK, WindowsAddUp, CopyInv, [TrafficNext]_allVars
               PROVE  (WindowsAddUp /\ CopyInv)'
    OBVIOUS
  <2> USE DEF WindowsAddUp, CopyInv
  <2>1. ASSUME NEW c \in Conns, Open(c) \/ Close(c)
        PROVE  (WindowsAddUp /\ CopyInv)'
    BY <2>1 DEF Open, Close
  <2>2. ASSUME NEW c \in Conns, NEW m \in {Request, Response}, Record(c, m)
        PROVE  (WindowsAddUp /\ CopyInv)'
    <3>1. Plus(Plus(reported, window), m) = Plus(reported, Plus(window, m))
      BY PlusAssociates, MessagesTyped DEF TrafficTypeOK
    <3>2. QED
      BY <2>2, <3>1 DEF Record, MutexFree
  <2>3. CASE CopyWindow
    BY <2>3 DEF CopyWindow
  <2>4. CASE BeginWindow
    <3>1. copied = window /\ Plus(reported, window) \in Counters
      BY <2>4, PlusTyped DEF BeginWindow, TrafficTypeOK
    <3>2. QED
      BY <2>4, <3>1, PlusZero DEF BeginWindow
  <2>5. CASE UNCHANGED trafficVars
    BY <2>5 DEF trafficVars, collectorVars
  <2>6. QED
    BY <2>1, <2>2, <2>3, <2>4, <2>5
    DEF TrafficNext, CollectorStep, CountRead, CountWrite, SendCounted, OtherStep, allVars
<1>3. QED
  BY <1>1, <1>2, TrafficTyping, PTL DEF TrafficSpec

-----------------------------------------------------------------------------
HasAddress == \A c \in Conns : pc[c] # "unused" => addr[c] \in Addrs

\* A handler that has no row has recorded nothing.
OwnInv == \A c \in Conns \ Tabled : own[c] = Zero

\* What does not touch the collector leaves the handlers with a row, and their
\* addresses, alone.
LEMMA OthersKeepRows ==
  ASSUME StateTypeOK, QueueInv, OtherStep \/ (\E c \in Conns, f \in Frames : Send(c, f))
                                \/ UNCHANGED vars
  PROVE  /\ Tabled' = Tabled
         /\ \A c \in Tabled : addr'[c] = addr[c]
         /\ connections' = connections
<1> USE DEF StateTypeOK, Tabled, HandlerSteps, serverVars, connVars, peerVars,
            Goto, Release
<1>1. CASE \/ Listen \/ ListenFails \/ AcceptReturns \/ AcceptFails \/ PassCheck
           \/ Cancel \/ UNCHANGED vars
           \/ \E c \in Conns : Hangup(c) \/ \E f \in Frames : Send(c, f)
  BY <1>1 DEF Listen, ListenFails, AcceptReturns, AcceptFails, PassCheck, Cancel, Hangup,
              Send, vars
<1>2. CASE CloseListener
  BY <1>2 DEF CloseListener
<1>3. CASE Accept
  <2>1. Head(backlog) \in Conns /\ pc[Head(backlog)] = "queued"
    BY <1>3 DEF Accept, QueueInv
  <2>2. QED
    BY <1>3, <2>1 DEF Accept
<1>4. ASSUME NEW c \in Conns, RejectClient(c) \/ AdmitClient(c) \/ CloseConn(c)
      PROVE  /\ Tabled' = Tabled
             /\ \A d \in Tabled : addr'[d] = addr[d]
             /\ connections' = connections
  BY <1>4 DEF RejectClient, AdmitClient, CloseConn
<1>5. ASSUME NEW c \in Conns, NEW a \in Addrs, Connect(c, a)
      PROVE  /\ Tabled' = Tabled
             /\ \A d \in Tabled : addr'[d] = addr[d]
             /\ connections' = connections
  BY <1>5 DEF Connect
<1>6. ASSUME NEW c \in Conns,
             \/ ReadRequest(c) \/ ReadEnds(c) \/ IdleTimeout(c) \/ RejectUnit(c)
             \/ HandlePDU(c) \/ WriteResponse(c) \/ WriteFails(c) \/ Decrement(c)
      PROVE  /\ Tabled' = Tabled
             /\ \A d \in Tabled : addr'[d] = addr[d]
             /\ connections' = connections
  BY <1>6 DEF ReadRequest, ReadEnds, IdleTimeout, RejectUnit, HandlePDU, WriteResponse,
              WriteFails, Decrement
<1>7. QED
  BY <1>1, <1>2, <1>3, <1>4, <1>5, <1>6 DEF OtherStep, AcceptLoop, Finished

\* Every connection that the kernel knows has an address.
LEMMA AddressKept ==
  ASSUME StateTypeOK, QueueInv, HasAddress, [Next]_vars
  PROVE  HasAddress'
<1> USE DEF StateTypeOK, HasAddress, serverVars, connVars, peerVars, Goto, Release
<1>1. CASE \/ Listen \/ ListenFails \/ AcceptReturns \/ AcceptFails \/ PassCheck
           \/ Cancel \/ UNCHANGED vars
           \/ \E c \in Conns : Hangup(c) \/ \E f \in Frames : Send(c, f)
  BY <1>1 DEF Listen, ListenFails, AcceptReturns, AcceptFails, PassCheck, Cancel, Hangup,
              Send, vars
<1>2. CASE CloseListener
  BY <1>2 DEF CloseListener
<1>3. CASE Accept
  <2>1. Head(backlog) \in Conns /\ pc[Head(backlog)] = "queued"
    BY <1>3 DEF Accept, QueueInv
  <2>2. QED
    BY <1>3, <2>1 DEF Accept
<1>4. ASSUME NEW c \in Conns, RejectClient(c) \/ AdmitClient(c) \/ CloseConn(c)
      PROVE  HasAddress'
  BY <1>4 DEF RejectClient, AdmitClient, CloseConn
<1>5. ASSUME NEW c \in Conns, NEW a \in Addrs, Connect(c, a)
      PROVE  HasAddress'
  BY <1>5 DEF Connect
<1>6. ASSUME NEW c \in Conns, HandlerSteady(c) \/ Decrement(c)
      PROVE  HasAddress'
  <2>1. pc[c] # "unused" /\ addr' = addr /\ \E s \in Steps : pc' = [pc EXCEPT ![c] = s]
    BY <1>6 DEF HandlerSteady, ConnectionOpened, ReadRequest, ReadEnds, IdleTimeout,
         RecordRead, RejectUnit, HandlePDU, WriteResponse, WriteFails, RecordWrite,
         ConnectionClosed, Decrement, Steps, HandlerSteps
  <2>2. QED
    BY <2>1
<1>7. QED
  BY <1>1, <1>2, <1>3, <1>4, <1>5, <1>6
  DEF Next, AcceptLoop, Handler, Environment, Finished, HandlerSteady

\* A row counts what its own handler counted, for any number of clients that come
\* and go under any addresses.
THEOREM Rows == TrafficSpec => []OwnCounts
<1>1. TrafficInit => HasAddress /\ OwnInv /\ OwnCounts
  BY DEF TrafficInit, Init, HasAddress, OwnInv, OwnCounts, Tabled, HandlerSteps
<1>2. StateTypeOK /\ QueueInv /\ TrafficTypeOK /\ HasAddress /\ OwnInv /\ OwnCounts
        /\ [TrafficNext]_allVars
        => (HasAddress /\ OwnInv /\ OwnCounts)'
  <2> SUFFICES ASSUME StateTypeOK, QueueInv, TrafficTypeOK, HasAddress, OwnInv, OwnCounts,
                      [TrafficNext]_allVars
               PROVE  (HasAddress /\ OwnInv /\ OwnCounts)'
    OBVIOUS
  <2>0. HasAddress'
    <3>1. [Next]_vars
      BY DEF TrafficNext, CollectorStep, Open, CountRead, CountWrite, Close, CopyWindow,
             BeginWindow, SendCounted, OtherStep, Next, Handler, Environment, allVars
    <3>2. QED
      BY <3>1, AddressKept
  <2>1. ASSUME NEW c \in Conns, Open(c)
        PROVE  (OwnInv /\ OwnCounts)'
    <3>1. /\ Tabled' = Tabled \union {c} /\ c \notin Tabled /\ addr' = addr
          /\ connections' = [connections EXCEPT ![addr[c]] = c]
      BY <2>1 DEF Open, ConnectionOpened, StateTypeOK, Tabled, HandlerSteps, Goto, peerVars
    <3>2. addr[c] \in Addrs
      BY <2>1 DEF Open, ConnectionOpened, HasAddress
    <3>3. own' = own /\ counts' = [counts EXCEPT ![addr[c]] = Zero] /\ own[c] = Zero
      BY <2>1, <3>1 DEF Open, OwnInv
    <3>4. OwnInv'
      BY <3>1, <3>3 DEF OwnInv
    <3>5. OwnCounts'
      BY <3>1, <3>2, <3>3 DEF OwnCounts, TrafficTypeOK, StateTypeOK, Tabled
    <3>6. QED
      BY <3>4, <3>5
  <2>2. ASSUME NEW c \in Conns, NEW m, Record(c, m), RecordRead(c) \/ RecordWrite(c)
        PROVE  (OwnInv /\ OwnCounts)'
    <3>1. /\ Tabled' = Tabled /\ c \in Tabled
          /\ addr' = addr /\ connections' = connections
      BY <2>2 DEF RecordRead, RecordWrite, StateTypeOK, Tabled, HandlerSteps, Goto, peerVars
    <3>2. addr[c] \in Addrs
      BY <3>1 DEF HasAddress, Tabled, HandlerSteps
    <3>3. /\ own' = [own EXCEPT ![c] = Plus(@, m)]
          /\ counts' = IF connections[addr[c]] = NoConn THEN counts
                       ELSE [counts EXCEPT ![addr[c]] = Plus(@, m)]
      BY <2>2 DEF Record
    <3>4. OwnInv'
      BY <3>1, <3>3 DEF OwnInv, TrafficTypeOK
    <3>5. ASSUME NEW d \in Tabled, connections[addr[d]] = d,
                 \A e \in Tabled \ {d} : addr[e] # addr[d]
          PROVE  counts'[addr[d]] = own'[d]
      <4>1. d \in Conns /\ addr[d] \in Addrs /\ counts[addr[d]] = own[d]
        BY <3>5 DEF OwnCounts, HasAddress, Tabled, HandlerSteps
      <4>2. CASE d = c
        <5>1. connections[addr[c]] # NoConn
          BY <3>5, <4>2, ServerAssumption DEF ServerAssumption
        <5>2. QED
          BY <3>2, <3>3, <4>1, <4>2, <5>1 DEF TrafficTypeOK
      <4>3. CASE d # c
        <5>1. addr[d] # addr[c]
          BY <3>1, <3>5, <4>3
        <5>2. QED
          BY <3>2, <3>3, <4>1, <4>3, <5>1 DEF TrafficTypeOK
      <4>4. QED
        BY <4>2, <4>3
    <3>6. OwnCounts'
      BY <3>1, <3>5 DEF OwnCounts
    <3>7. QED
      BY <3>4, <3>6
  <2>3. ASSUME NEW c \in Conns, Close(c)
        PROVE  (OwnInv /\ OwnCounts)'
    <3>1. /\ Tabled' = Tabled \ {c} /\ c \in Tabled /\ addr' = addr
          /\ connections' = [connections EXCEPT ![addr[c]] = NoConn]
      BY <2>3 DEF Close, ConnectionClosed, StateTypeOK, Tabled, HandlerSteps, Goto, peerVars
    <3>2. addr[c] \in Addrs
      BY <3>1 DEF HasAddress, Tabled, HandlerSteps
    <3>3. /\ own' = [own EXCEPT ![c] = Zero]
          /\ counts' = [counts EXCEPT ![addr[c]] = Zero]
      BY <2>3 DEF Close
    <3>4. OwnInv'
      BY <3>1, <3>3 DEF OwnInv, TrafficTypeOK
    <3>5. ASSUME NEW d \in Tabled \ {c}, connections'[addr[d]] = d,
                 \A e \in Tabled \ {c, d} : addr[e] # addr[d]
          PROVE  counts'[addr[d]] = own'[d]
      <4>1. d \in Conns /\ d # NoConn /\ addr[d] \in Addrs
        BY <3>5, ServerAssumption DEF HasAddress, Tabled, HandlerSteps, ServerAssumption
      <4>2. addr[d] # addr[c]
        BY <3>1, <3>2, <3>5, <4>1 DEF StateTypeOK
      <4>3. counts[addr[d]] = own[d]
        BY <3>1, <3>2, <3>5, <4>1, <4>2 DEF OwnCounts, StateTypeOK
      <4>4. QED
        BY <3>2, <3>3, <4>1, <4>2, <4>3 DEF TrafficTypeOK
    <3>6. OwnCounts'
      BY <3>1, <3>5 DEF OwnCounts
    <3>7. QED
      BY <3>4, <3>6
  <2>4. CASE CopyWindow \/ BeginWindow
    BY <2>0, <2>4 DEF CopyWindow, BeginWindow, vars, connVars, peerVars, OwnInv, OwnCounts, Tabled
  <2>5. CASE \/ OtherStep
             \/ \E c \in Conns, f \in Frames : SendCounted(c, f)
             \/ UNCHANGED allVars
    <3>1. own' = own /\ counts' = counts
      BY <2>5 DEF OtherStep, SendCounted, allVars, trafficVars, collectorVars
    <3>2. /\ Tabled' = Tabled
          /\ \A c \in Tabled : addr'[c] = addr[c]
          /\ connections' = connections
      BY <2>5, OthersKeepRows DEF SendCounted, allVars
    <3>3. QED
      BY <2>0, <3>1, <3>2 DEF OwnInv, OwnCounts
  <2>6. QED
    BY <2>0, <2>1, <2>2, <2>3, <2>4, <2>5
    DEF TrafficNext, CollectorStep, CountRead, CountWrite
<1>3. QED
  BY <1>1, <1>2, TrafficIsServer, TrafficTyping, StateTyping, LimitInductive, PTL
  DEF TrafficSpec

\* The table has no entry without a handler, beside its counters too.
THEOREM TrafficTable == TrafficSpec => []NoStaleEntry
BY TrafficIsServer, Table, PTL
=============================================================================
