----------------------------- MODULE HmiProofs -----------------------------
(***************************************************************************)
(* Proofs about Hmi and Runtime for any number of configurations, servers  *)
(* and clients, any ports and any history of the dashboard.                *)
(*                                                                         *)
(* At most one server has not returned: the one that the runtime holds, or *)
(* the one that Stop waits for.  A server that has returned does not       *)
(* listen, provided that Accept does not fail for good.                    *)
(***************************************************************************)
EXTENDS Hmi, TLAPS

ServerFields == {"phase", "config", "store", "cancelled", "listening", "done", "serving"}

IsServer(s) ==
    /\ s = [f \in ServerFields |-> s[f]]
    /\ s.listening \in BOOLEAN
    /\ s.done # "empty" => s.phase = "returned"
    /\ ("accept" \notin Failures /\ s.listening) => s.phase = "accepting"

RunInv ==
    /\ starts \in 0..MaxStarts
    /\ {server, waiting} \subseteq 0..starts
    /\ server # None => waiting = None
    /\ run = [g \in Starts |-> run[g]]
    /\ \A g \in Starts :
          /\ IsServer(run[g])
          /\ g > starts => run[g].phase = "unborn"
          /\ (g <= starts /\ g \notin {server, waiting}) => run[g].phase = "returned"

-----------------------------------------------------------------------------
(* The methods of the runtime. *)

LEMMA SyncKeeps ==
  ASSUME RunInv, server' = Alive, run' = Received, UNCHANGED <<waiting, starts>>
  PROVE  RunInv'
<1>1. CASE Ended
  <2>1. server # None /\ server \in Starts /\ run[server].phase = "returned"
    BY <1>1, RuntimeAssumption DEF Ended, RunInv, IsServer, ServerFields, Starts, None
  <2>2. server' = None /\ run' = [run EXCEPT ![server].done = "empty"]
    BY <1>1 DEF Alive, Received
  <2>3. \A g \in Starts : /\ IsServer(run'[g])
                          /\ run'[g].phase = run[g].phase
    BY <2>1, <2>2 DEF RunInv, IsServer, ServerFields
  <2>4. run' = [g \in Starts |-> run'[g]]
    BY <2>2 DEF RunInv
  <2>5. QED
    BY <2>1, <2>2, <2>3, <2>4 DEF RunInv, None
<1>2. CASE ~Ended
  BY <1>2 DEF Alive, Received, RunInv
<1>3. QED
  BY <1>1, <1>2

LEMMA NewServerIsServer == IsServer(NewServer) /\ NewServer.phase = "starting"
BY DEF IsServer, ServerFields, NewServer, Unborn

LEMMA StartKeeps ==
  ASSUME RunInv, waiting = None, Start
  PROVE  RunInv'
<1>1. /\ server = None /\ starts + 1 \in Starts
      /\ starts' = starts + 1 /\ server' = starts + 1 /\ waiting' = None
      /\ run' = [run EXCEPT ![starts + 1] = NewServer]
  BY RuntimeAssumption DEF Start, CanStart, RunInv, Starts
<1>2. run'[starts + 1] = NewServer /\ \A g \in Starts \ {starts + 1} : run'[g] = run[g]
  BY <1>1 DEF RunInv
<1>3. run' = [g \in Starts |-> run'[g]]
  BY <1>1 DEF RunInv
<1>4. \A g \in Starts : IsServer(run'[g])
  BY <1>2, NewServerIsServer DEF RunInv
<1>5. \A g \in Starts : g > starts' => run'[g].phase = "unborn"
  BY <1>1, <1>2 DEF RunInv, Starts
<1>6. \A g \in Starts : (g <= starts' /\ g \notin {server', waiting'}) => run'[g].phase = "returned"
  BY <1>1, <1>2 DEF RunInv, Starts, None
<1>7. starts' \in 0..MaxStarts /\ {server', waiting'} \subseteq 0..starts'
  BY <1>1, RuntimeAssumption DEF RunInv, Starts, None
<1>8. QED
  BY <1>1, <1>3, <1>4, <1>5, <1>6, <1>7 DEF RunInv

LEMMA CancelKeeps ==
  ASSUME RunInv, CancelServer
  PROVE  RunInv' /\ server' = None
<1>1. /\ server # None /\ server \in Starts
      /\ waiting' = server /\ server' = None /\ starts' = starts
      /\ run' = [run EXCEPT ![server].cancelled = TRUE]
  BY RuntimeAssumption DEF CancelServer, Alive, RunInv, Starts, None
<1>2. \A g \in Starts : IsServer(run'[g]) /\ run'[g].phase = run[g].phase
  BY <1>1 DEF RunInv, IsServer, ServerFields
<1>3. run' = [g \in Starts |-> run'[g]]
  BY <1>1 DEF RunInv
<1>4. QED
  BY <1>1, <1>2, <1>3 DEF RunInv, None

LEMMA ReturnedKeeps ==
  ASSUME RunInv, ServerReturned
  PROVE  RunInv' /\ waiting' = None
<1>1. /\ waiting # None /\ waiting \in Starts /\ run[waiting].phase = "returned"
      /\ waiting' = None /\ UNCHANGED <<server, starts>>
      /\ run' = [run EXCEPT ![waiting].done = "empty"]
  BY RuntimeAssumption DEF ServerReturned, RunInv, IsServer, ServerFields, Starts, None
<1>2. \A g \in Starts : IsServer(run'[g]) /\ run'[g].phase = run[g].phase
  BY <1>1 DEF RunInv, IsServer, ServerFields
<1>3. run' = [g \in Starts |-> run'[g]]
  BY <1>1 DEF RunInv
<1>4. QED
  BY <1>1, <1>2, <1>3 DEF RunInv, None

LEMMA EditKeeps ==
  ASSUME RunInv, NEW r, NEW v, SetRegisterValue(r, v)
  PROVE  RunInv' /\ server' = Alive /\ lastAsyncErr' = AsyncErr /\ waiting' = waiting
<1>1. server' = Alive /\ lastAsyncErr' = AsyncErr /\ UNCHANGED <<waiting, starts>>
  BY DEF SetRegisterValue
<1>2. CASE run' = Received
  BY <1>1, <1>2, SyncKeeps
<1>3. CASE run' # Received
  <2>1. /\ Alive # None /\ server' = server
        /\ run' = [run EXCEPT ![server].store[r] = v]
    BY <1>1, <1>3 DEF SetRegisterValue, Alive
  <2>2. \A g \in Starts : IsServer(run'[g]) /\ run'[g].phase = run[g].phase
    BY <2>1 DEF RunInv, IsServer, ServerFields
  <2>3. run' = [g \in Starts |-> run'[g]]
    BY <2>1 DEF RunInv
  <2>4. QED
    BY <1>1, <2>1, <2>2, <2>3 DEF RunInv
<1>4. QED
  BY <1>2, <1>3

\* A step of a server or of its clients.
LEMMA BackgroundKeeps ==
  ASSUME RunInv, NEW g \in Starts, ServerStep(g) \/ ClientStep(g)
  PROVE  RunInv'
<1>1. \E s : Update(g, s)
  BY DEF ServerStep, ClientStep, Listen, ListenFails, CloseListener, AcceptReturns,
         AcceptFails, Connect, Serve, HandlerEnds
<1>2. /\ UNCHANGED <<server, waiting, starts>>
      /\ \A h \in Starts \ {g} : run'[h] = run[h]
      /\ run' = [h \in Starts |-> run'[h]]
  BY <1>1 DEF Update, RunInv
<1>3. /\ IsServer(run'[g])
      /\ \/ run'[g].phase = run[g].phase
         \/ run[g].phase \in {"starting", "accepting"} /\ run'[g].phase \in {"accepting", "returned"}
  <2>1. CASE Listen(g)
    BY <2>1 DEF Listen, Update, RunInv, IsServer, ServerFields
  <2>2. CASE ListenFails(g)
    BY <2>2 DEF ListenFails, Update, RunInv, IsServer, ServerFields
  <2>3. CASE CloseListener(g)
    <3>1. run' = [run EXCEPT ![g] = [run[g] EXCEPT !.listening = FALSE]]
      BY <2>3 DEF CloseListener, Update
    <3>2. QED
      BY <3>1 DEF RunInv, IsServer, ServerFields
  <2>4. CASE AcceptReturns(g)
    BY <2>4 DEF AcceptReturns, Update, RunInv, IsServer, ServerFields
  <2>5. CASE Connect(g) \/ HandlerEnds(g)
    BY <2>5 DEF Connect, HandlerEnds, Update, RunInv, IsServer, ServerFields
  <2>6. CASE Serve(g)
    <3>1. PICK r, v : run' = [run EXCEPT ![g] = [run[g] EXCEPT !.store[r] = v]]
      BY <2>6 DEF Serve, Update
    <3>2. QED
      BY <3>1 DEF RunInv, IsServer, ServerFields
  <2>7. CASE AcceptFails(g)
    BY <2>7 DEF AcceptFails, Update, RunInv, IsServer, ServerFields
  <2>8. QED
    BY <2>1, <2>2, <2>3, <2>4, <2>5, <2>6, <2>7 DEF ServerStep, ClientStep
<1>4. run[g].phase \in {"starting", "accepting"} => g <= starts /\ g \in {server, waiting}
  BY RuntimeAssumption DEF RunInv, Starts
<1>5. QED
  BY <1>2, <1>3, <1>4, RuntimeAssumption DEF RunInv, Starts

-----------------------------------------------------------------------------
(* The calls that a callback has left: Start comes first or not at all,    *)
(* what enables the start button is followed by a look at the server, and  *)
(* a scan by the selection of one of the configurations that it found.     *)

PlainCalls == {"SyncState", "TrafficSnapshot", "SnapshotData", "Stop", "AwaitStop", "Running",
               "SetRoot", "UpdateSelected", "SayLoaded", "SayRunning", "SayStopped",
               "SayEdited"}

Led == {"Discover", "SelectFirst"}

Calls == PlainCalls \union Led \union {"Start", "Gone"}

MayFollow(s, t) ==
    /\ s = "Discover" => t \in {"UpdateSelected", "SelectFirst"}
    /\ s = "SelectFirst" => t = "SyncState"

Ordered(q) ==
    /\ q \in Seq(Calls)
    /\ \A i \in 1..Len(q) :
          /\ q[i] = "Start" => i = 1
          /\ q[i] \in Led => (i < Len(q) /\ MayFollow(q[i], q[i + 1]))

NoStart(q) == \A i \in 1..Len(q) : q[i] # "Start"
NoGone(q) == \A i \in 1..Len(q) : q[i] # "Gone"

LEMMA OrderedTail ==
  ASSUME NEW q, Ordered(q), q # <<>>
  PROVE  Ordered(Tail(q)) /\ NoStart(Tail(q)) /\ (NoGone(q) => NoGone(Tail(q)))
<1>1. /\ Tail(q) \in Seq(Calls) /\ Len(Tail(q)) = Len(q) - 1 /\ Len(q) \in Nat
      /\ \A i \in 1..Len(Tail(q)) : Tail(q)[i] = q[i + 1]
  BY DEF Ordered
<1>2. \A i \in 1..Len(Tail(q)) : i + 1 \in 1..Len(q) /\ i + 1 # 1
  BY <1>1
<1>3. NoStart(Tail(q))
  BY <1>1, <1>2 DEF Ordered, NoStart
<1>4. ASSUME NEW i \in 1..Len(Tail(q)), Tail(q)[i] \in Led
      PROVE  i < Len(Tail(q)) /\ MayFollow(Tail(q)[i], Tail(q)[i + 1])
  <2>1. q[i + 1] \in Led /\ q[i + 1] = Tail(q)[i]
    BY <1>1, <1>4
  <2>2. i + 1 < Len(q) /\ MayFollow(q[i + 1], q[(i + 1) + 1])
    BY <1>2, <2>1 DEF Ordered
  <2>3. i < Len(Tail(q)) /\ i + 1 \in 1..Len(Tail(q))
    BY <1>1, <2>2
  <2>4. QED
    BY <1>1, <2>1, <2>2, <2>3
<1>5. NoGone(q) => NoGone(Tail(q))
  BY <1>1, <1>2 DEF NoGone
<1>6. QED
  BY <1>1, <1>3, <1>4, <1>5 DEF Ordered, NoStart

\* A call before others.
LEMMA OrderedCons ==
  ASSUME NEW q, Ordered(q), NoStart(q), NEW s \in Calls,
         s \in Led => (q # <<>> /\ MayFollow(s, Head(q)))
  PROVE  /\ Ordered(<<s>> \o q) /\ <<s>> \o q # <<>> /\ Head(<<s>> \o q) = s
         /\ s # "Start" => NoStart(<<s>> \o q)
         /\ (NoGone(q) /\ s # "Gone") => NoGone(<<s>> \o q)
<1> DEFINE t == <<s>> \o q
<1>1. /\ t \in Seq(Calls) /\ Len(t) = Len(q) + 1 /\ Len(q) \in Nat
      /\ t[1] = s
  BY DEF Ordered
<1>2. \A i \in 1..Len(q) : t[i + 1] = q[i]
  BY DEF Ordered
<1>3. t # <<>> /\ Head(t) = s
  BY <1>1
<1> HIDE DEF t
<1>4. ASSUME NEW i \in 1..Len(t), i # 1
      PROVE  /\ t[i] # "Start"
             /\ t[i] \in Led => (i < Len(t) /\ MayFollow(t[i], t[i + 1]))
  <2>1. i - 1 \in 1..Len(q) /\ (i - 1) + 1 = i
    BY <1>1, <1>4
  <2>2. t[i] = q[i - 1]
    BY <1>2, <2>1
  <2>3. ASSUME q[i - 1] \in Led
        PROVE  i < Len(t) /\ MayFollow(q[i - 1], t[i + 1])
    <3>1. i - 1 < Len(q) /\ MayFollow(q[i - 1], q[i])
      BY <2>1, <2>3 DEF Ordered
    <3>2. i \in 1..Len(q)
      BY <1>1, <3>1
    <3>3. QED
      BY <1>1, <1>2, <3>1, <3>2
  <2>4. QED
    BY <2>1, <2>2, <2>3 DEF NoStart
<1>5. ASSUME s \in Led
      PROVE  1 < Len(t) /\ MayFollow(s, t[2])
  <2>1. 1 \in 1..Len(q) /\ MayFollow(s, q[1])
    BY <1>1, <1>5 DEF Ordered
  <2>2. QED
    BY <1>1, <1>2, <2>1
<1>6. Ordered(t)
  BY <1>1, <1>4, <1>5 DEF Ordered
<1>7. s # "Start" => NoStart(t)
  BY <1>1, <1>4 DEF NoStart
<1>8. ASSUME NoGone(q), s # "Gone"
      PROVE  NoGone(t)
  <2>1. ASSUME NEW i \in 1..Len(t), i # 1
        PROVE  t[i] # "Gone"
    <3>1. i - 1 \in 1..Len(q) /\ (i - 1) + 1 = i
      BY <1>1, <2>1
    <3>2. QED
      BY <1>2, <1>8, <3>1 DEF NoGone
  <2>2. QED
    BY <1>1, <1>8, <2>1 DEF NoGone
<1>9. QED
  BY <1>3, <1>6, <1>7, <1>8 DEF t

\* Calls after others.
LEMMA OrderedThen ==
  ASSUME NEW q, NEW r, Ordered(q), Ordered(r), NoStart(q), NoStart(r), NoGone(q), NoGone(r)
  PROVE  Ordered(q \o r) /\ NoStart(q \o r) /\ NoGone(q \o r)
BY DEF Ordered, NoStart, NoGone

LEMMA OrderedOne ==
  ASSUME NEW a \in PlainCalls
  PROVE  Ordered(<<a>>) /\ NoStart(<<a>>) /\ NoGone(<<a>>)
<1>1. \A i \in 1..1 : i = 1
  OBVIOUS
<1>2. a \in Calls /\ a \notin Led \union {"Start", "Gone"}
  BY DEF PlainCalls, Led, Calls
<1>3. QED
  BY <1>1, <1>2 DEF Ordered, NoStart, NoGone

LEMMA OrderedTwo ==
  ASSUME NEW a \in PlainCalls, NEW b \in PlainCalls
  PROVE  Ordered(<<a, b>>) /\ NoStart(<<a, b>>) /\ NoGone(<<a, b>>)
<1>1. <<a>> \o <<b>> = Append(<<a>>, b) /\ <<a, b>> = Append(<<a>>, b)
  OBVIOUS
<1>2. QED
  BY <1>1, OrderedOne, OrderedThen

LEMMA OrderedThree ==
  ASSUME NEW a \in PlainCalls, NEW b \in PlainCalls, NEW c \in PlainCalls
  PROVE  Ordered(<<a, b, c>>) /\ NoStart(<<a, b, c>>) /\ NoGone(<<a, b, c>>)
<1>1. <<a, b>> \o <<c>> = Append(<<a, b>>, c) /\ <<a, b, c>> = Append(<<a, b>>, c)
  OBVIOUS
<1>2. QED
  BY <1>1, OrderedOne, OrderedTwo, OrderedThen

LEMMA OrderedStart ==
  ASSUME NEW a, a = "Start"
  PROVE  Ordered(<<a>>)
<1>1. \A i \in 1..1 : i = 1
  OBVIOUS
<1>2. a \in Calls /\ a \notin Led
  BY DEF PlainCalls, Led, Calls
<1>3. QED
  BY <1>1, <1>2 DEF Ordered

LEMMA OrderedFolder ==
  ASSUME NEW q, Ordered(q), NoStart(q), NoGone(q), q # <<>>, Head(q) = "SyncState",
         NEW a \in PlainCalls, NEW b \in PlainCalls, NEW c, c = "Discover",
         NEW d, d = "SelectFirst"
  PROVE  LET t == <<a, b, c, d>> \o q IN Ordered(t) /\ NoStart(t) /\ NoGone(t)
<1> DEFINE q1 == <<d>> \o q
           q2 == <<c>> \o q1
           q3 == <<b>> \o q2
           q4 == <<a>> \o q3
<1>1. /\ {a, b, c, d} \subseteq Calls /\ {a, b, c, d} \intersect {"Start", "Gone"} = {}
      /\ {a, b} \intersect Led = {}
      /\ MayFollow(d, Head(q)) /\ MayFollow(c, d)
  BY DEF PlainCalls, Led, Calls, MayFollow
<1>2. Ordered(q1) /\ NoStart(q1) /\ NoGone(q1) /\ q1 # <<>> /\ Head(q1) = d
  BY <1>1, OrderedCons
<1> HIDE DEF q1
<1>3. Ordered(q2) /\ NoStart(q2) /\ NoGone(q2)
  BY <1>1, <1>2, OrderedCons
<1> HIDE DEF q2
<1>4. Ordered(q3) /\ NoStart(q3) /\ NoGone(q3)
  BY <1>1, <1>3, OrderedCons
<1> HIDE DEF q3
<1>5. Ordered(q4) /\ NoStart(q4) /\ NoGone(q4)
  BY <1>1, <1>4, OrderedCons
<1>6. q4 = <<a, b, c, d>> \o q
  <2>1. q \in Seq(Calls) /\ {a, b, c, d} \subseteq Calls
    BY <1>1 DEF Ordered
  <2>2. q1 \in Seq(Calls) /\ q2 \in Seq(Calls) /\ q3 \in Seq(Calls)
    BY <1>2, <1>3, <1>4 DEF Ordered
  <2>3. q2 = <<c, d>> \o q
    BY <2>1 DEF q2, q1
  <2>4. q3 = <<b, c, d>> \o q
    BY <2>1, <2>3 DEF q3
  <2>5. QED
    BY <2>1, <2>4
<1>7. QED
  BY <1>5, <1>6

\* The calls when the window is closed.
LEMMA OrderedLast ==
  ASSUME NEW a \in PlainCalls, NEW b, b = "Gone"
  PROVE  Ordered(<<a, b>>) /\ NoStart(<<a, b>>)
<1>1. /\ {a, b} \subseteq Calls /\ {a, b} \intersect (Led \union {"Start"}) = {}
  BY DEF PlainCalls, Led, Calls
<1>2. <<a, b>> \in Seq(Calls) /\ Len(<<a, b>>) = 2 /\ <<a, b>>[1] = a /\ <<a, b>>[2] = b
  BY <1>1
<1>3. \A i \in 1..2 : <<a, b>>[i] \notin Led \union {"Start"}
  <2>1. 1..2 = {1, 2}
    OBVIOUS
  <2>2. QED
    BY <1>1, <1>2, <2>1
<1>4. QED
  BY <1>2, <1>3 DEF Ordered, NoStart

\* A scan that keeps what is selected.
LEMMA OrderedScan ==
  ASSUME NEW a, a = "Discover", NEW b, b = "UpdateSelected"
  PROVE  Ordered(<<a, b>>) /\ NoStart(<<a, b>>) /\ NoGone(<<a, b>>)
<1>1. a \in Calls /\ a \notin {"Start", "Gone"} /\ b \in PlainCalls /\ MayFollow(a, b)
  BY DEF PlainCalls, Led, Calls, MayFollow
<1>2. /\ Ordered(<<b>>) /\ NoStart(<<b>>) /\ NoGone(<<b>>)
      /\ <<b>> # <<>> /\ Head(<<b>>) = b
  BY <1>1, OrderedOne
<1>3. <<a>> \o <<b>> = Append(<<a>>, b) /\ <<a, b>> = Append(<<a>>, b)
  OBVIOUS
<1>4. QED
  BY <1>1, <1>2, <1>3, OrderedCons

LEMMA OrderedTelemetry ==
  ASSUME NEW a \in PlainCalls
  PROVE  /\ Ordered(Telemetry) /\ NoStart(Telemetry) /\ NoGone(Telemetry)
         /\ Telemetry # <<>> /\ Head(Telemetry) = "SyncState"
         /\ Ordered(Telemetry \o <<a>>) /\ NoStart(Telemetry \o <<a>>)
         /\ NoGone(Telemetry \o <<a>>)
         /\ Telemetry \o <<a>> # <<>> /\ Head(Telemetry \o <<a>>) = "SyncState"
<1>1. {"SyncState", "TrafficSnapshot", "SnapshotData"} \subseteq PlainCalls
  BY DEF PlainCalls
<1>2. Ordered(Telemetry) /\ NoStart(Telemetry) /\ NoGone(Telemetry)
  BY <1>1, OrderedThree DEF Telemetry
<1>3. Telemetry # <<>> /\ Head(Telemetry) = "SyncState" /\ Len(Telemetry) = 3
  BY DEF Telemetry
<1>4. Telemetry \o <<a>> # <<>> /\ Head(Telemetry \o <<a>>) = "SyncState"
  BY <1>2, <1>3 DEF Ordered, PlainCalls, Calls
<1>5. QED
  BY <1>2, <1>3, <1>4, OrderedOne, OrderedThen

\* What a callback may begin with.
LEMMA OrderedCallbacks ==
  /\ Ordered(<<>>)
  /\ Ordered(<<"Start">>)
  /\ Ordered(<<"Discover", "UpdateSelected">>) /\ NoStart(<<"Discover", "UpdateSelected">>)
  /\ NoGone(<<"Discover", "UpdateSelected">>)
  /\ Ordered(<<"Stop", "Gone">>) /\ NoStart(<<"Stop", "Gone">>)
  /\ LET q == <<"Stop">> \o Telemetry \o <<"SayStopped">> IN Ordered(q) /\ NoStart(q) /\ NoGone(q)
  /\ LET q == <<"Running", "SetRoot", "Discover", "SelectFirst">> \o Telemetry \o <<"SayLoaded">>
     IN  Ordered(q) /\ NoStart(q) /\ NoGone(q)
<1>1. {"Stop", "SayStopped", "Running", "SetRoot", "SayLoaded"} \subseteq PlainCalls
  BY DEF PlainCalls
<1>2. Ordered(<<>>)
  BY DEF Ordered
<1>3. Ordered(<<"Start">>)
  BY OrderedStart
<1>4. /\ Ordered(<<"Discover", "UpdateSelected">>) /\ NoStart(<<"Discover", "UpdateSelected">>)
      /\ NoGone(<<"Discover", "UpdateSelected">>)
  BY OrderedScan, Zenon
<1>5. Ordered(<<"Stop", "Gone">>) /\ NoStart(<<"Stop", "Gone">>)
  BY <1>1, OrderedLast, Zenon
<1>6. LET q == <<"Stop">> \o Telemetry IN Ordered(q) /\ NoStart(q) /\ NoGone(q)
  BY <1>1, OrderedOne, OrderedTelemetry, OrderedThen
<1>7. /\ Ordered((<<"Stop">> \o Telemetry) \o <<"SayStopped">>)
      /\ NoStart((<<"Stop">> \o Telemetry) \o <<"SayStopped">>)
      /\ NoGone((<<"Stop">> \o Telemetry) \o <<"SayStopped">>)
  BY <1>1, <1>6, OrderedOne, OrderedThen
<1>8. LET q == <<"Running", "SetRoot", "Discover", "SelectFirst">> \o Telemetry
      IN  Ordered(q) /\ NoStart(q) /\ NoGone(q)
  BY <1>1, OrderedTelemetry, OrderedFolder, Zenon
<1>9. LET q == (<<"Running", "SetRoot", "Discover", "SelectFirst">> \o Telemetry) \o <<"SayLoaded">>
      IN  Ordered(q) /\ NoStart(q) /\ NoGone(q)
  BY <1>1, <1>8, OrderedOne, OrderedThen, Zenon
<1>10. QED
  BY <1>2, <1>3, <1>4, <1>5, <1>7, <1>9, Zenon

-----------------------------------------------------------------------------
(* What a step does to the calls that are left.                            *)

Kept == todo' = todo /\ startEnabled' = startEnabled
Pressed == todo' = <<"Start">> /\ startEnabled'
Replaced == Ordered(todo') /\ NoStart(todo')

LEMMA NothingLeft == Ordered(<<>>) /\ NoStart(<<>>)
BY DEF Ordered, NoStart

LEMMA TodoOfTaps ==
  ASSUME Tick \/ OperatorStep
  PROVE  /\ Idle
         /\ Kept \/ Pressed \/ Replaced
         /\ UNCHANGED <<startEnabled, waiting>>
<1> USE OrderedCallbacks
<1>0. /\ Ordered(Telemetry) /\ NoStart(Telemetry)
      /\ Ordered(Telemetry \o <<"SayEdited">>) /\ NoStart(Telemetry \o <<"SayEdited">>)
  <2>1. "SayEdited" \in PlainCalls
    BY DEF PlainCalls
  <2>2. QED
    BY <2>1, OrderedTelemetry, Zenon
<1>1. CASE Tick
  BY <1>0, <1>1 DEF Tick, Begin, serverVars, displayVars, Replaced
<1>2. CASE TapStart
  BY <1>2 DEF TapStart, AtRest, Begin, serverVars, displayVars, Pressed
<1>3. CASE TapStop
  BY <1>3 DEF TapStop, AtRest, Begin, serverVars, displayVars, Replaced
<1>4. CASE TapRefreshConfigs
  BY <1>4 DEF TapRefreshConfigs, AtRest, Begin, serverVars, displayVars, Replaced
<1>5. CASE TapSelectFolder
  BY <1>5 DEF TapSelectFolder, AtRest, Begin, serverVars, displayVars, Replaced
<1>6. CASE CloseWindow
  BY <1>6 DEF CloseWindow, Begin, serverVars, displayVars, Replaced
<1>7. CASE \E i \in 1..Len(validConfigs) : SelectItem(i)
  BY <1>7 DEF SelectItem, AtRest, serverVars, Kept
<1>8. CASE \E r \in DOMAIN registerRows : OpenEditor(r)
  BY <1>8 DEF OpenEditor, AtRest, serverVars, displayVars, Kept
<1>9. CASE \E r \in DOMAIN registerRows : ToggleBit(r)
  <2>1. PICK r \in DOMAIN registerRows : ToggleBit(r)
    BY <1>9
  <2>2. /\ Idle
        /\ todo' = todo \/ todo' = Telemetry \o <<"SayEdited">>
        /\ UNCHANGED <<startEnabled, waiting>>
    BY <2>1, Zenon DEF ToggleBit, AtRest, SetRegisterValue, displayVars
  <2>3. QED
    BY <1>0, <2>2 DEF Kept, Replaced
<1>10. CASE CancelEditor
  BY <1>10 DEF CancelEditor, serverVars, displayVars, Kept
<1>11. CASE \E v \in Values : ApplyEdit(v)
  <2>1. PICK v \in Values : ApplyEdit(v)
    BY <1>11
  <2>2. /\ Idle
        /\ todo' = todo \/ todo' = Telemetry \o <<"SayEdited">>
        /\ UNCHANGED <<startEnabled, waiting>>
    BY <2>1, Zenon DEF ApplyEdit, SetRegisterValue, displayVars
  <2>3. QED
    BY <1>0, <2>2 DEF Kept, Replaced
<1>12. QED
  BY <1>1, <1>2, <1>3, <1>4, <1>5, <1>6, <1>7, <1>8, <1>9, <1>10, <1>11 DEF OperatorStep

LEMMA TodoOfCalls ==
  ASSUME Ordered(todo), CallStep
  PROVE  Replaced
<1>1. todo # <<>> /\ Ordered(Tail(todo)) /\ NoStart(Tail(todo))
  <2>1. todo # <<>>
    BY DEF CallStep, CallStart, CallSyncState, CallTrafficSnapshot, CallSnapshotData, CallStop,
           AwaitStop, CallRunning, CallSetRoot, CallDiscover, DiscoverFails, UpdateSelected,
           SelectFirst, SayLoaded, Say, Call
  <2>2. QED
    BY <2>1, OrderedTail
<1>2. /\ {"Stop", "AwaitStop"} \subseteq Calls /\ "SayRunning" \in PlainCalls
      /\ {"Stop", "AwaitStop"} \intersect (Led \union {"Start"}) = {}
  BY DEF Calls, Led, PlainCalls
<1>3. /\ Ordered(<<"Stop">> \o Tail(todo)) /\ NoStart(<<"Stop">> \o Tail(todo))
      /\ Ordered(<<"AwaitStop">> \o Tail(todo)) /\ NoStart(<<"AwaitStop">> \o Tail(todo))
  BY <1>1, <1>2, OrderedCons
<1>4. Ordered(Telemetry \o <<"SayRunning">>) /\ NoStart(Telemetry \o <<"SayRunning">>)
  BY <1>2, OrderedTelemetry, Zenon
<1>5. \/ todo' = Tail(todo) \/ todo' = <<>>
      \/ todo' = <<"Stop">> \o Tail(todo) \/ todo' = <<"AwaitStop">> \o Tail(todo)
      \/ todo' = Telemetry \o <<"SayRunning">>
  BY DEF CallStep, CallStart, CallSyncState, CallTrafficSnapshot, CallSnapshotData, CallStop,
         AwaitStop, CallRunning, CallSetRoot, CallDiscover, DiscoverFails, UpdateSelected,
         SelectFirst, SayLoaded, Say, Reselect, Continue
<1>6. QED
  BY <1>1, <1>3, <1>4, <1>5, NothingLeft DEF Replaced

-----------------------------------------------------------------------------
(* The calls, the buttons and the wait. *)

Queue == Ordered(todo) /\ (Call("Start") => startEnabled)

LEMMA QueueStep ==
  ASSUME Queue, [Next]_vars
  PROVE  Queue'
<1>1. CASE Kept
  BY <1>1 DEF Kept, Queue, Call
<1>2. CASE Pressed
  BY <1>2, OrderedCallbacks DEF Pressed, Queue
<1>3. CASE Replaced
  <2>1. todo' # <<>> => Head(todo') # "Start"
    <3>1. todo' # <<>> => 1 \in 1..Len(todo') /\ Head(todo') = todo'[1]
      BY <1>3 DEF Replaced, Ordered
    <3>2. QED
      BY <1>3, <3>1 DEF Replaced, NoStart
  <2>2. QED
    BY <1>3, <2>1 DEF Replaced, Queue, Call
<1>4. CASE ServersStep
  BY <1>1, <1>4 DEF ServersStep, Background, Kept, displayVars
<1>5. CASE UNCHANGED vars
  BY <1>1, <1>5 DEF vars, Kept, displayVars
<1>6. QED
  BY <1>1, <1>2, <1>3, <1>4, <1>5, TodoOfTaps, TodoOfCalls DEF Next, Queue

\* What waits for a server is the callback.
Waits == waiting # None => Call("AwaitStop")

LEMMA WaitsStep ==
  ASSUME Queue, Waits, [Next]_vars
  PROVE  Waits'
<1>1. ASSUME UNCHANGED <<todo, waiting>> PROVE Waits'
  BY <1>1 DEF Waits, Call
<1>2. ASSUME UNCHANGED waiting, waiting = None PROVE Waits'
  BY <1>2 DEF Waits
<1>3. ASSUME UNCHANGED waiting, Idle PROVE Waits'
  BY <1>2, <1>3 DEF Waits, Idle, Call
<1>4. ASSUME UNCHANGED waiting, NEW x, Call(x), x # "AwaitStop" PROVE Waits'
  BY <1>2, <1>4 DEF Waits, Call
<1>5. CASE CallStop
  <2>1. CASE CancelServer /\ todo' = <<"AwaitStop">> \o Tail(todo)
    <3>1. todo # <<>> /\ Ordered(Tail(todo)) /\ NoStart(Tail(todo))
      BY <1>5, OrderedTail DEF CallStop, Call, Queue
    <3>2. "AwaitStop" \in Calls /\ "AwaitStop" \notin Led
      BY DEF Calls, Led, PlainCalls
    <3>3. QED
      BY <2>1, <3>1, <3>2, OrderedCons DEF Waits, Call
  <2>2. CASE SyncServer
    BY <1>4, <1>5, <2>2 DEF CallStop, SyncServer
  <2>3. QED
    BY <1>5, <2>1, <2>2 DEF CallStop
<1>6. CASE AwaitStop
  BY <1>6 DEF AwaitStop, ServerReturned, Waits
<1>7. CASE CallStart
  BY <1>4, <1>7 DEF CallStart, Start, serverVars
<1>8. CASE CallSyncState
  BY <1>4, <1>8 DEF CallSyncState, SyncState
<1>9. CASE CallTrafficSnapshot
  BY <1>4, <1>9 DEF CallTrafficSnapshot, SyncServer
<1>10. CASE CallSnapshotData
  BY <1>4, <1>10 DEF CallSnapshotData, SyncServer
<1>11. CASE CallRunning
  BY <1>4, <1>11 DEF CallRunning, SyncServer
<1>12. CASE CallSetRoot
  BY <1>4, <1>12 DEF CallSetRoot, serverVars
<1>13. CASE CallDiscover \/ DiscoverFails
  BY <1>4, <1>13 DEF CallDiscover, DiscoverFails, serverVars
<1>14. CASE UpdateSelected \/ SelectFirst \/ SayLoaded
  BY <1>4, <1>14 DEF UpdateSelected, SelectFirst, SayLoaded, Reselect, serverVars
<1>15. ASSUME NEW x, NEW label, x # "AwaitStop", Say(x, label) PROVE Waits'
  BY <1>4, <1>15 DEF Say, serverVars
<1>16. CASE CallStep
  BY <1>5, <1>6, <1>7, <1>8, <1>9, <1>10, <1>11, <1>12, <1>13, <1>14, <1>15, <1>16 DEF CallStep
<1>17. CASE ServersStep
  BY <1>1, <1>17 DEF ServersStep, Background, ServerStep, ClientStep, Update, Listen,
                     ListenFails, CloseListener, AcceptReturns, AcceptFails, Connect, Serve,
                     HandlerEnds
<1>18. CASE UNCHANGED vars
  BY <1>1, <1>18 DEF vars, serverVars
<1>19. QED
  BY <1>3, <1>16, <1>17, <1>18, TodoOfTaps DEF Next

\* Nothing is left of a server.
Clean == server = None /\ lastAsyncErr = None

Buttons == startEnabled => (Clean \/ Call("SyncState"))

LEMMA NothingToSync ==
  ASSUME Clean
  PROVE  ~Ended /\ Alive = None /\ AsyncErr = None
BY DEF Clean, Ended, Alive, AsyncErr

LEMMA CleanTaps ==
  ASSUME Clean, Tick \/ OperatorStep
  PROVE  Clean'
<1>1. CASE \E r \in DOMAIN registerRows : ToggleBit(r)
  BY <1>1, NothingToSync, Zenon DEF ToggleBit, SetRegisterValue, Clean
<1>2. CASE \E v \in Values : ApplyEdit(v)
  BY <1>2, NothingToSync, Zenon DEF ApplyEdit, SetRegisterValue, Clean
<1>3. CASE UNCHANGED <<server, lastAsyncErr>>
  BY <1>3 DEF Clean
<1>4. QED
  BY <1>1, <1>2, <1>3 DEF OperatorStep, Tick, TapStart, TapStop, TapRefreshConfigs,
     TapSelectFolder, CloseWindow, Begin, SelectItem, OpenEditor, CancelEditor, serverVars

LEMMA SecondCall ==
  ASSUME NEW q \in Seq(Calls), 1 < Len(q)
  PROVE  Tail(q) # <<>> /\ Head(Tail(q)) = q[2]
<1> DEFINE t == Tail(q)
<1>1. t \in Seq(Calls) /\ Len(t) = Len(q) - 1 /\ t[1] = q[2]
  OBVIOUS
<1>2. Len(q) \in Nat
  OBVIOUS
<1> HIDE DEF t
<1>3. t # <<>> /\ Head(t) = t[1]
  BY <1>1, <1>2
<1>4. QED
  BY <1>1, <1>3 DEF t

LEMMA ButtonsStep ==
  ASSUME Queue, Buttons, [Next]_vars
  PROVE  Buttons'
<1>1. ASSUME UNCHANGED <<todo, startEnabled, server, lastAsyncErr>> PROVE Buttons'
  BY <1>1 DEF Buttons, Call, Clean
<1>2. CASE Tick \/ OperatorStep
  <2>1. Idle /\ startEnabled' = startEnabled
    BY <1>2, TodoOfTaps
  <2>2. startEnabled => Clean
    BY <2>1 DEF Idle, Call, Buttons
  <2>3. QED
    BY <1>2, <2>1, <2>2, CleanTaps DEF Buttons
<1>3. ASSUME NEW x, Call(x), x # "SyncState", UNCHANGED startEnabled,
             Clean => Clean'
      PROVE  Buttons'
  BY <1>3 DEF Buttons, Call
<1>4. CASE CallStart
  <2>1. startEnabled /\ Clean
    BY <1>4 DEF CallStart, Queue, Buttons, Call
  <2>2. CASE ~CanStart
    <3>1. UNCHANGED serverVars
      BY <1>4, <2>2 DEF CallStart, Start
    <3>2. Clean'
      BY <2>1, <3>1 DEF serverVars, Clean
    <3>3. QED
      BY <3>2 DEF Buttons
  <2>3. CASE CanStart
    <3>1. todo' = Telemetry \o <<"SayRunning">>
      BY <1>4, <2>3 DEF CallStart
    <3>2. "SayRunning" \in PlainCalls
      BY DEF PlainCalls
    <3>3. QED
      BY <3>1, <3>2, OrderedTelemetry, Zenon DEF Buttons, Call
  <2>4. QED
    BY <2>2, <2>3
<1>5. CASE CallSyncState
  BY <1>5 DEF CallSyncState, SyncState, Buttons, Clean
<1>6. CASE CallTrafficSnapshot
  BY <1>3, <1>6, NothingToSync DEF CallTrafficSnapshot, SyncServer, Clean, displayVars
<1>7. CASE CallSnapshotData
  BY <1>3, <1>7, NothingToSync DEF CallSnapshotData, SyncServer, Clean
<1>8. CASE CallStop
  BY <1>3, <1>8, NothingToSync DEF CallStop, CancelServer, SyncServer, Clean, displayVars
<1>9. CASE AwaitStop
  BY <1>3, <1>9 DEF AwaitStop, ServerReturned, Clean
<1>10. CASE CallRunning
  BY <1>3, <1>10, NothingToSync DEF CallRunning, SyncServer, Clean, displayVars
<1>11. CASE CallSetRoot \/ CallDiscover \/ DiscoverFails
  BY <1>3, <1>11 DEF CallSetRoot, CallDiscover, DiscoverFails, serverVars, displayVars, Clean
<1>12. CASE UpdateSelected \/ SayLoaded
  BY <1>3, <1>12 DEF UpdateSelected, SayLoaded, Reselect, serverVars, Clean
<1>13. CASE SelectFirst
  <2>1. todo # <<>> /\ Head(todo) = "SelectFirst" /\ todo' = Tail(todo)
    BY <1>13 DEF SelectFirst, Reselect, Continue, Call
  <2>2. 1 \in 1..Len(todo) /\ todo[1] = "SelectFirst"
    BY <2>1 DEF Queue, Ordered
  <2>3. 1 < Len(todo) /\ todo[2] = "SyncState"
    BY <2>2 DEF Queue, Ordered, Led, MayFollow
  <2>4. todo' # <<>> /\ Head(todo') = "SyncState"
    <3>1. todo \in Seq(Calls)
      BY DEF Queue, Ordered
    <3>2. QED
      BY <2>1, <2>3, <3>1, SecondCall, Zenon
  <2>5. QED
    BY <2>4 DEF Buttons, Call
<1>14. ASSUME NEW x, NEW label, x # "SyncState", Say(x, label) PROVE Buttons'
  BY <1>3, <1>14 DEF Say, serverVars, Clean
<1>15. CASE CallStep
  BY <1>4, <1>5, <1>6, <1>7, <1>8, <1>9, <1>10, <1>11, <1>12, <1>13, <1>14, <1>15 DEF CallStep
<1>16. CASE ServersStep
  BY <1>1, <1>16 DEF ServersStep, Background, ServerStep, ClientStep, Update, Listen,
                     ListenFails, CloseListener, AcceptReturns, AcceptFails, Connect, Serve,
                     HandlerEnds, displayVars
<1>17. CASE UNCHANGED vars
  BY <1>1, <1>17 DEF vars, serverVars, displayVars
<1>18. QED
  BY <1>2, <1>15, <1>16, <1>17 DEF Next

\* The server that the runtime holds, the one that Stop waits for, and the others.
LEMMA RunStep ==
  ASSUME RunInv, Waits, [Next]_vars
  PROVE  RunInv'
<1>1. ASSUME UNCHANGED serverVars PROVE RunInv'
  BY <1>1 DEF serverVars, RunInv
<1>2. ASSUME server' = Alive, run' = Received, UNCHANGED <<waiting, starts>> PROVE RunInv'
  BY <1>2, SyncKeeps
<1>3. CASE \E r \in DOMAIN registerRows : ToggleBit(r)
  BY <1>3, EditKeeps, Zenon DEF ToggleBit
<1>4. CASE \E v \in Values : ApplyEdit(v)
  BY <1>4, EditKeeps, Zenon DEF ApplyEdit
<1>5. CASE Tick \/ OperatorStep
  BY <1>1, <1>3, <1>4, <1>5 DEF OperatorStep, Tick, TapStart, TapStop, TapRefreshConfigs,
     TapSelectFolder, CloseWindow, Begin, SelectItem, OpenEditor, CancelEditor
<1>6. CASE CallStart
  <2>1. waiting = None
    BY <1>6 DEF CallStart, Call, Waits
  <2>2. QED
    BY <1>1, <1>6, <2>1, StartKeeps DEF CallStart
<1>7. CASE CallSyncState
  BY <1>2, <1>7 DEF CallSyncState, SyncState
<1>8. CASE CallTrafficSnapshot \/ CallSnapshotData \/ CallRunning
  BY <1>2, <1>8 DEF CallTrafficSnapshot, CallSnapshotData, CallRunning, SyncServer
<1>9. CASE CallStop
  BY <1>2, <1>9, CancelKeeps DEF CallStop, SyncServer
<1>10. CASE AwaitStop
  BY <1>10, ReturnedKeeps DEF AwaitStop
<1>11. CASE CallStep /\ UNCHANGED serverVars
  BY <1>1, <1>11
<1>12. CASE CallStep
  BY <1>6, <1>7, <1>8, <1>9, <1>10, <1>11, <1>12 DEF CallStep, CallSetRoot, CallDiscover,
     DiscoverFails, UpdateSelected, SelectFirst, SayLoaded, Reselect, Say
<1>13. CASE ServersStep
  BY <1>13, BackgroundKeeps DEF ServersStep, Background
<1>14. CASE UNCHANGED vars
  BY <1>1, <1>14 DEF vars, serverVars
<1>15. QED
  BY <1>5, <1>12, <1>13, <1>14 DEF Next

-----------------------------------------------------------------------------
LEMMA InitRun == Init => RunInv
<1> SUFFICES ASSUME Init PROVE RunInv
  OBVIOUS
<1>1. /\ server = None /\ waiting = None /\ starts = 0
      /\ run = [g \in Starts |-> Unborn]
  BY DEF Init, RuntimeInit
<1>2. IsServer(Unborn) /\ Unborn.phase = "unborn"
  BY DEF IsServer, ServerFields, Unborn
<1>3. QED
  BY <1>1, <1>2, RuntimeAssumption DEF RunInv, None, Starts

\* The start button can be pressed only when no server is left and no error waits to
\* be shown: whatever enables the button looks at the server before the callback ends
\* (runtime.go:123, 141; fynehmi/main.go:276-282).
THEOREM Pressable == Spec => []StartIsClean
<1>1. Init => Queue /\ Buttons
  BY NothingLeft DEF Init, RuntimeInit, Queue, Buttons, Clean, Call
<1>2. Queue /\ Buttons /\ [Next]_vars => Queue' /\ Buttons'
  BY QueueStep, ButtonsStep
<1>3. Buttons => StartIsClean
  BY DEF Buttons, StartIsClean, AtRest, Idle, Call, Clean
<1>4. QED
  BY <1>1, <1>2, <1>3, PTL DEF Spec

\* Unless Accept fails for good, a server that is about to listen never finds its port
\* held by another server of the process: at most one server has not returned, the one
\* that the runtime holds or the one that Stop waits for, and one that has returned
\* does not listen (runtime.go:145-185; server.go:96-106).
THEOREM PortFreed == ("accept" \notin Failures) => (Spec => []RestartFindsPortFree)
<1> SUFFICES ASSUME "accept" \notin Failures
             PROVE  Spec => []RestartFindsPortFree
  OBVIOUS
<1>1. Init => Queue /\ Waits /\ RunInv
  BY InitRun, NothingLeft DEF Init, RuntimeInit, Queue, Waits, Call
<1>2. Queue /\ Waits /\ RunInv /\ [Next]_vars => Queue' /\ Waits' /\ RunInv'
  BY QueueStep, WaitsStep, RunStep
<1>3. RunInv => RestartFindsPortFree
  <2> SUFFICES ASSUME RunInv, NEW g \in Starts, run[g].phase = "starting",
                      NEW h \in Starts \ {g}, run[h].listening
               PROVE  FALSE
    BY DEF RestartFindsPortFree, PortFree
  <2>1. run[h].phase = "accepting"
    BY DEF RunInv, IsServer
  <2>2. g \in {server, waiting} /\ h \in {server, waiting}
    BY <2>1, RuntimeAssumption DEF RunInv, Starts
  <2>3. QED
    BY <2>2, RuntimeAssumption DEF RunInv, Starts, None
<1>4. QED
  BY <1>1, <1>2, <1>3, PTL DEF Spec
=============================================================================
