------------------------ MODULE ServerControlProofs ------------------------
(***************************************************************************)
(* The dashboard implements ServerControl, for any number of               *)
(* configurations and servers, and whatever fails.  Queue, Buttons, Waits  *)
(* and RunInv are those of HmiProofs; ErrInv says where the error of a     *)
(* server is on its way to the operator.                                   *)
(***************************************************************************)
EXTENDS HmiProofs

Current == IF server # None THEN server ELSE waiting
Untold == {g \in Starts : run[g].done = "error" \/ lastAsyncErr = g}

\* An error that has been taken from a server is the last one's, and it is told
\* when no server is left; what was told is not on its way any more.
ErrInv ==
    /\ lastAsyncErr \in 0..starts
    /\ lastAsyncErr # None => server = None /\ waiting = None
    /\ \A g \in Starts : run[g].done # "empty" => g \in {server, waiting}
    /\ shown \in [Starts -> Nat]
    /\ \A g \in Starts : shown[g] > 0 => g <= starts /\ g \notin {server, waiting, lastAsyncErr}

Inv == Queue /\ Buttons /\ Waits /\ RunInv /\ ErrInv

-----------------------------------------------------------------------------
(* What a step does to what ServerControl sees of the servers.             *)

Quiet == UNCHANGED <<Current, Untold, shown>>

Departs == /\ Current # None /\ Current' = None
           /\ UNCHANGED <<Untold, shown>>

Told(g) == /\ g \in Starts
           /\ Untold = {g} /\ Untold' = {}
           /\ shown' = [shown EXCEPT ![g] = @ + 1]
           /\ Current' = None

Broken == /\ Current # None /\ shown[Current] = 0
          /\ Untold' = {Current}
          /\ UNCHANGED <<Current, shown>>

LEMMA StartsAreNumbers == RunInv => /\ \A g \in Starts : g \in Nat /\ g # None
                                    /\ starts \in Nat /\ None = 0
                                    /\ \A g \in 1..starts : g \in Starts
BY RuntimeAssumption DEF RunInv, Starts, None

\* Only done, lastAsyncErr and the two servers matter.
LEMMA SameErrors ==
  ASSUME RunInv, ErrInv, UNCHANGED <<server, waiting, lastAsyncErr, starts, shown>>,
         \A g \in Starts : run'[g].done = run[g].done
  PROVE  ErrInv' /\ Quiet
<1>1. ErrInv'
  BY DEF ErrInv
<1>2. Quiet
  BY DEF Quiet, Current, Untold
<1>3. QED
  BY <1>1, <1>2

LEMMA SyncErrors ==
  ASSUME RunInv, ErrInv, server' = Alive, lastAsyncErr' = AsyncErr, run' = Received,
         UNCHANGED <<waiting, starts, shown>>
  PROVE  ErrInv' /\ (Quiet \/ Departs)
<1>1. CASE ~Ended
  BY <1>1, SameErrors DEF Alive, AsyncErr, Received
<1>2. CASE Ended
  <2>1. /\ server # None /\ server \in Starts /\ server <= starts /\ waiting = None
        /\ lastAsyncErr = None /\ run[server].done # "empty"
        /\ server' = None /\ waiting' = None
        /\ lastAsyncErr' = IF run[server].done = "error" THEN server ELSE None
    BY <1>2, StartsAreNumbers DEF Ended, Alive, AsyncErr, RunInv, ErrInv, None
  <2>2. /\ run'[server].done = "empty"
        /\ \A g \in Starts \ {server} : run'[g] = run[g] /\ run[g].done = "empty"
    <3>1. run' = [run EXCEPT ![server].done = "empty"]
      BY <1>2 DEF Received
    <3>2. run[server] = [f \in ServerFields |-> run[server][f]]
      BY <2>1 DEF RunInv, IsServer
    <3>3. \A g \in Starts \ {server} : run'[g] = run[g]
      BY <3>1 DEF RunInv
    <3>4. \A g \in Starts \ {server} : g # waiting
      BY <2>1, StartsAreNumbers
    <3>5. run'[server] = [run[server] EXCEPT !.done = "empty"]
      BY <2>1, <3>1 DEF RunInv
    <3>6. run'[server].done = "empty"
      BY <3>2, <3>5 DEF ServerFields
    <3>7. QED
      BY <2>1, <3>3, <3>4, <3>6 DEF ErrInv
  <2>3. \A g \in Starts : run'[g].done = "empty"
    BY <2>2
  <2>4. ErrInv'
    BY <2>1, <2>3, StartsAreNumbers DEF ErrInv, RunInv
  <2>5. Untold' = Untold
    <3>1. \A g \in Starts : (run[g].done = "error" \/ lastAsyncErr = g)
                            <=> (g = server /\ run[server].done = "error")
      BY <2>1, <2>2, StartsAreNumbers
    <3>2. \A g \in Starts : (run'[g].done = "error" \/ lastAsyncErr' = g)
                            <=> (g = server /\ run[server].done = "error")
      BY <2>1, <2>3, StartsAreNumbers
    <3>3. QED
      BY <3>1, <3>2 DEF Untold
  <2>6. Departs
    BY <2>1, <2>5 DEF Departs, Current
  <2>7. QED
    BY <2>4, <2>6
<1>3. QED
  BY <1>1, <1>2

\* The error is handed over and shown.
LEMMA TakenErrors ==
  ASSUME RunInv, ErrInv, SyncState, Show(AsyncErr)
  PROVE  ErrInv' /\ (Quiet \/ Departs \/ \E g \in Starts : Told(g))
<1>1. CASE ~Ended /\ lastAsyncErr = None
  <2>1. UNCHANGED <<server, waiting, lastAsyncErr, starts, shown, run>>
    BY <1>1 DEF SyncState, Show, Alive, AsyncErr, Received
  <2>2. QED
    BY <2>1, SameErrors
<1>2. CASE ~Ended /\ lastAsyncErr # None
  <2>1. /\ lastAsyncErr \in Starts /\ lastAsyncErr <= starts
        /\ server = None /\ waiting = None
        /\ UNCHANGED <<server, waiting, starts, run>> /\ lastAsyncErr' = None
        /\ shown' = [shown EXCEPT ![lastAsyncErr] = @ + 1]
    BY <1>2, StartsAreNumbers DEF SyncState, Show, Alive, AsyncErr, Received, ErrInv
  <2>2. \A g \in Starts : run[g].done = "empty"
    BY <2>1, StartsAreNumbers DEF ErrInv
  <2>3. ErrInv'
    BY <2>1, <2>2, StartsAreNumbers DEF ErrInv
  <2>4. Untold = {lastAsyncErr} /\ Untold' = {}
    BY <2>1, <2>2, StartsAreNumbers DEF Untold
  <2>5. Told(lastAsyncErr)
    BY <2>1, <2>4 DEF Told, Current
  <2>6. QED
    BY <2>1, <2>3, <2>5
<1>3. CASE Ended
  <2>1. /\ server # None /\ server \in Starts /\ server <= starts /\ waiting = None
        /\ lastAsyncErr = None /\ run[server].done # "empty"
        /\ server' = None /\ waiting' = None /\ lastAsyncErr' = None /\ starts' = starts
    BY <1>3, StartsAreNumbers DEF Ended, SyncState, Alive, RunInv, ErrInv, None
  <2>2. /\ run'[server].done = "empty"
        /\ \A g \in Starts \ {server} : run'[g] = run[g] /\ run[g].done = "empty"
    <3>1. run' = [run EXCEPT ![server].done = "empty"]
      BY <1>3 DEF SyncState, Received
    <3>2. run[server] = [f \in ServerFields |-> run[server][f]]
      BY <2>1 DEF RunInv, IsServer
    <3>3. \A g \in Starts \ {server} : run'[g] = run[g] /\ g # waiting
      BY <2>1, <3>1, StartsAreNumbers DEF RunInv
    <3>4. run'[server] = [run[server] EXCEPT !.done = "empty"]
      BY <2>1, <3>1 DEF RunInv
    <3>5. run'[server].done = "empty"
      BY <3>2, <3>4 DEF ServerFields
    <3>6. QED
      BY <2>1, <3>3, <3>5 DEF ErrInv
  <2>3. \A g \in Starts : run'[g].done = "empty"
    BY <2>2
  <2>4. Untold' = {}
    BY <2>1, <2>3, StartsAreNumbers DEF Untold
  <2>5. CASE run[server].done = "error"
    <3>1. shown' = [shown EXCEPT ![server] = @ + 1]
      BY <1>3, <2>1, <2>5 DEF Show, AsyncErr
    <3>2. Untold = {server}
      BY <2>1, <2>2, <2>5, StartsAreNumbers DEF Untold
    <3>3. ErrInv'
      BY <2>1, <2>3, <3>1, StartsAreNumbers DEF ErrInv
    <3>4. Told(server)
      BY <2>1, <2>4, <3>1, <3>2 DEF Told, Current
    <3>5. QED
      BY <2>1, <3>3, <3>4
  <2>6. CASE run[server].done # "error"
    <3>1. shown' = shown
      BY <2>1, <2>6 DEF Show, AsyncErr
    <3>2. Untold = {}
      BY <2>1, <2>2, <2>6, StartsAreNumbers DEF Untold
    <3>3. ErrInv'
      BY <2>1, <2>3, <3>1, StartsAreNumbers DEF ErrInv
    <3>4. Departs
      BY <2>1, <2>4, <3>1, <3>2 DEF Departs, Current
    <3>5. QED
      BY <3>3, <3>4
  <2>7. QED
    BY <2>5, <2>6
<1>4. QED
  BY <1>1, <1>2, <1>3

LEMMA StartErrors ==
  ASSUME RunInv, ErrInv, Clean, waiting = None, Start, UNCHANGED shown
  PROVE  /\ ErrInv'
         /\ starts + 1 \in Starts
         /\ Current = None /\ Current' = starts + 1
         /\ Untold = {} /\ Untold' = {}
<1>1. /\ starts + 1 \in Starts /\ starts \in Nat
      /\ starts' = starts + 1 /\ server' = starts + 1 /\ waiting' = None
      /\ server = None /\ lastAsyncErr = None /\ lastAsyncErr' = None
      /\ run' = [run EXCEPT ![starts + 1] = NewServer]
  BY RuntimeAssumption DEF Start, RunInv, Starts, Clean
<1>2. \A g \in Starts : run[g].done = "empty"
  BY <1>1, StartsAreNumbers DEF ErrInv
<1>3. \A g \in Starts : run'[g].done = "empty"
  BY <1>1, <1>2 DEF RunInv, NewServer, Unborn
<1>4. ErrInv'
  BY <1>1, <1>3, StartsAreNumbers DEF ErrInv
<1>5. Untold = {} /\ Untold' = {}
  BY <1>1, <1>2, <1>3, StartsAreNumbers DEF Untold
<1>6. Current = None /\ Current' = starts + 1
  BY <1>1, StartsAreNumbers DEF Current
<1>7. QED
  BY <1>1, <1>4, <1>5, <1>6

LEMMA CancelErrors ==
  ASSUME RunInv, ErrInv, CancelServer, UNCHANGED shown
  PROVE  ErrInv' /\ Quiet
<1>1. /\ server # None /\ server \in Starts /\ waiting = None
      /\ waiting' = server /\ server' = None
      /\ lastAsyncErr = None /\ lastAsyncErr' = None /\ starts' = starts
      /\ run' = [run EXCEPT ![server].cancelled = TRUE]
  BY StartsAreNumbers DEF CancelServer, Alive, AsyncErr, RunInv, ErrInv, None
<1>2. \A g \in Starts : run'[g].done = run[g].done
  BY <1>1 DEF RunInv, IsServer, ServerFields
<1>3. ErrInv'
  BY <1>1, <1>2 DEF ErrInv, None
<1>4. Quiet
  BY <1>1, <1>2 DEF Quiet, Current, Untold, None
<1>5. QED
  BY <1>3, <1>4

\* Stop has the result of the server.
LEMMA ReturnedErrors ==
  ASSUME RunInv, ErrInv, ServerReturned
  PROVE  /\ waiting \in Starts /\ Current = waiting /\ Current' = None /\ Untold' = {}
         /\ Untold = IF run[waiting].done = "error" THEN {waiting} ELSE {}
         /\ (UNCHANGED shown \/ Show(waiting)) => ErrInv'
<1>1. /\ waiting # None /\ waiting \in Starts /\ waiting <= starts /\ server = None
      /\ lastAsyncErr = None /\ run[waiting].done # "empty"
      /\ waiting' = None /\ UNCHANGED <<server, starts, lastAsyncErr>>
      /\ run' = [run EXCEPT ![waiting].done = "empty"]
  BY StartsAreNumbers DEF ServerReturned, RunInv, ErrInv, None
<1>2. /\ run'[waiting].done = "empty"
      /\ \A g \in Starts \ {waiting} : run'[g] = run[g] /\ run[g].done = "empty"
  <2>1. run[waiting] = [f \in ServerFields |-> run[waiting][f]]
    BY <1>1 DEF RunInv, IsServer
  <2>2. run'[waiting] = [run[waiting] EXCEPT !.done = "empty"]
    BY <1>1 DEF RunInv
  <2>3. run'[waiting].done = "empty"
    BY <2>1, <2>2 DEF ServerFields
  <2>4. \A g \in Starts \ {waiting} : run'[g] = run[g] /\ g # server
    BY <1>1, StartsAreNumbers DEF RunInv
  <2>5. QED
    BY <2>3, <2>4 DEF ErrInv
<1>3. \A g \in Starts : run'[g].done = "empty"
  BY <1>2
<1>4. Untold' = {}
  BY <1>1, <1>3, StartsAreNumbers DEF Untold
<1>5. Untold = IF run[waiting].done = "error" THEN {waiting} ELSE {}
  BY <1>1, <1>2, StartsAreNumbers DEF Untold
<1>6. ASSUME UNCHANGED shown PROVE ErrInv'
  BY <1>1, <1>3, <1>6, StartsAreNumbers DEF ErrInv
<1>7. ASSUME Show(waiting) PROVE ErrInv'
  <2>1. shown' = [shown EXCEPT ![waiting] = @ + 1]
    BY <1>1, <1>7 DEF Show
  <2>2. QED
    BY <1>1, <1>3, <2>1, StartsAreNumbers DEF ErrInv
<1>8. QED
  BY <1>1, <1>4, <1>5, <1>6, <1>7 DEF Current

\* A step of a server or of its clients.
LEMMA BackgroundErrors ==
  ASSUME RunInv, ErrInv, NEW g \in Starts, ServerStep(g) \/ ClientStep(g), UNCHANGED shown
  PROVE  ErrInv' /\ (Quiet \/ Broken)
<1>1. \E s : Update(g, s)
  BY DEF ServerStep, ClientStep, Listen, ListenFails, CloseListener, AcceptReturns,
         AcceptFails, Connect, Serve, HandlerEnds
<1>2. /\ UNCHANGED <<server, waiting, lastAsyncErr, starts>>
      /\ \A h \in Starts \ {g} : run'[h] = run[h]
  BY <1>1 DEF Update, RunInv
<1>3. \/ run'[g].done = run[g].done
      \/ /\ run[g].phase \in {"starting", "accepting"}
         /\ run'[g].done \in {"nil", "error"}
  <2>1. CASE Listen(g)
    BY <2>1 DEF Listen, Update, RunInv, IsServer, ServerFields
  <2>2. CASE ListenFails(g)
    BY <2>2 DEF ListenFails, Update, RunInv, IsServer, ServerFields
  <2>3. CASE CloseListener(g)
    <3>1. run' = [run EXCEPT ![g] = [run[g] EXCEPT !.listening = FALSE]]
      BY <2>3 DEF CloseListener, Update
    <3>2. QED
      BY <3>1 DEF RunInv, IsServer, ServerFields
  <2>4. CASE AcceptReturns(g)
    BY <2>4 DEF AcceptReturns, Update, RunInv, IsServer, ServerFields
  <2>5. CASE Connect(g) \/ HandlerEnds(g)
    BY <2>5 DEF Connect, HandlerEnds, Update, RunInv, IsServer, ServerFields
  <2>6. CASE Serve(g)
    <3>1. PICK r, v : run' = [run EXCEPT ![g] = [run[g] EXCEPT !.store[r] = v]]
      BY <2>6 DEF Serve, Update
    <3>2. QED
      BY <3>1 DEF RunInv, IsServer, ServerFields
  <2>7. CASE AcceptFails(g)
    BY <2>7 DEF AcceptFails, Update, RunInv, IsServer, ServerFields
  <2>8. QED
    BY <2>1, <2>2, <2>3, <2>4, <2>5, <2>6, <2>7 DEF ServerStep, ClientStep
<1>4. CASE run'[g].done = run[g].done
  BY <1>2, <1>4, SameErrors
<1>5. CASE run[g].phase \in {"starting", "accepting"} /\ run'[g].done \in {"nil", "error"}
  <2>1. run[g].done = "empty" /\ g <= starts /\ g \in {server, waiting}
    BY <1>5, StartsAreNumbers DEF RunInv, IsServer
  <2>2. lastAsyncErr = None /\ g = Current /\ g # None
    BY <2>1, StartsAreNumbers DEF RunInv, ErrInv, Current
  <2>3. \A h \in Starts \ {g} : run[h].done = "empty"
    BY <2>1, <2>2, StartsAreNumbers DEF RunInv, ErrInv
  <2>4. ErrInv'
    BY <1>2, <2>1, <2>3 DEF ErrInv
  <2>5. shown[g] = 0
    BY <2>1 DEF ErrInv
  <2>6. Untold = {}
    BY <2>1, <2>2, <2>3, StartsAreNumbers DEF Untold
  <2>7. Untold' = IF run'[g].done = "error" THEN {g} ELSE {}
    BY <1>2, <2>2, <2>3, StartsAreNumbers DEF Untold
  <2>8. Current' = Current
    BY <1>2 DEF Current
  <2>9. QED
    BY <1>5, <2>2, <2>4, <2>5, <2>6, <2>7, <2>8 DEF Quiet, Broken
<1>6. QED
  BY <1>3, <1>4, <1>5

LEMMA EditErrors ==
  ASSUME RunInv, ErrInv, NEW r, NEW v, SetRegisterValue(r, v), UNCHANGED shown
  PROVE  ErrInv' /\ (Quiet \/ Departs)
<1>1. server' = Alive /\ lastAsyncErr' = AsyncErr /\ UNCHANGED <<waiting, starts>>
  BY DEF SetRegisterValue
<1>2. CASE run' = Received
  BY <1>1, <1>2, SyncErrors
<1>3. CASE run' # Received
  <2>1. /\ Alive # None /\ server' = server /\ lastAsyncErr' = lastAsyncErr
        /\ run' = [run EXCEPT ![server].store[r] = v]
    BY <1>1, <1>3 DEF SetRegisterValue, Alive, AsyncErr
  <2>2. \A g \in Starts : run'[g].done = run[g].done
    BY <2>1 DEF RunInv, IsServer, ServerFields
  <2>3. QED
    BY <1>1, <2>1, <2>2, SameErrors
<1>4. QED
  BY <1>2, <1>3

-----------------------------------------------------------------------------
(* The closing of the window: the callback has two calls, or one.          *)

Closes(q) == q # <<>> /\ q[Len(q)] = "Gone"

Closing == Closes(todo)

Leaving == Closing => \/ Head(todo) = "Gone"
                      \/ Len(todo) = 2 /\ Head(todo) \in {"Stop", "AwaitStop"}

LEMMA ClosesTail ==
  ASSUME NEW q \in Seq(Calls), q # <<>>, Head(q) # "Gone"
  PROVE  /\ Closes(Tail(q)) <=> Closes(q)
         /\ (Closes(q) /\ Len(q) = 2) => Head(Tail(q)) = "Gone"
<1> DEFINE t == Tail(q)
<1>1. /\ Len(q) \in Nat /\ Len(q) >= 1 /\ q[1] # "Gone"
      /\ t \in Seq(Calls) /\ Len(t) = Len(q) - 1
  OBVIOUS
<1>2. \A i \in 1..Len(t) : t[i] = q[i + 1]
  OBVIOUS
<1> HIDE DEF t
<1>3. ASSUME Len(q) = 1
      PROVE  ~Closes(t) /\ ~Closes(q)
  BY <1>1, <1>3 DEF Closes
<1>4. ASSUME Len(q) # 1
      PROVE  t # <<>> /\ t[Len(t)] = q[Len(q)] /\ Head(t) = q[2]
  <2>1. 1 \in 1..Len(t) /\ Len(t) \in 1..Len(t) /\ Len(t) + 1 = Len(q)
    BY <1>1, <1>4
  <2>2. t # <<>> /\ Head(t) = t[1]
    BY <1>1, <2>1
  <2>3. QED
    BY <1>2, <2>1, <2>2
<1>5. (Closes(t) <=> Closes(q)) /\ ((Closes(q) /\ Len(q) = 2) => Head(t) = "Gone")
  BY <1>3, <1>4 DEF Closes
<1>6. QED
  BY <1>5 DEF t

LEMMA ClosesCons ==
  ASSUME NEW q \in Seq(Calls), NEW s \in Calls, s # "Gone"
  PROVE  /\ Closes(<<s>> \o q) <=> Closes(q)
         /\ <<s>> \o q # <<>> /\ Head(<<s>> \o q) = s
         /\ Len(<<s>> \o q) = Len(q) + 1
<1> DEFINE t == <<s>> \o q
<1>1. /\ t \in Seq(Calls) /\ Len(t) = Len(q) + 1 /\ Len(q) \in Nat /\ t[1] = s
      /\ q = <<>> <=> Len(q) = 0
  OBVIOUS
<1>2. \A i \in 1..Len(q) : t[i + 1] = q[i]
  OBVIOUS
<1>3. t # <<>> /\ Head(t) = s
  BY <1>1
<1> HIDE DEF t
<1>4. ASSUME Len(q) = 0
      PROVE  ~Closes(t) /\ ~Closes(q)
  BY <1>1, <1>3, <1>4 DEF Closes
<1>5. ASSUME Len(q) # 0
      PROVE  Closes(t) <=> Closes(q)
  <2>1. Len(q) \in 1..Len(q) /\ q # <<>>
    BY <1>1, <1>5
  <2>2. t[Len(t)] = q[Len(q)]
    BY <1>1, <1>2, <2>1
  <2>3. QED
    BY <1>3, <2>1, <2>2 DEF Closes
<1>6. Closes(t) <=> Closes(q)
  BY <1>4, <1>5
<1>7. QED
  BY <1>1, <1>3, <1>6 DEF t

LEMMA ClosesNever ==
  ASSUME NEW q, Ordered(q), NoGone(q)
  PROVE  ~Closes(q)
<1>1. q # <<>> => Len(q) \in 1..Len(q)
  BY DEF Ordered
<1>2. QED
  BY <1>1 DEF Closes, NoGone

LEMMA ClosesOne ==
  ASSUME NEW s, s # "Gone"
  PROVE  ~Closes(<<s>>) /\ ~Closes(<<>>)
<1>1. Len(<<s>>) = 1 /\ <<s>>[1] = s
  OBVIOUS
<1>2. QED
  BY <1>1 DEF Closes

LEMMA ClosesLast ==
  ASSUME NEW a, NEW b, b = "Gone"
  PROVE  Closes(<<a, b>>) /\ Len(<<a, b>>) = 2 /\ Head(<<a, b>>) = a
<1>1. Len(<<a, b>>) = 2 /\ <<a, b>>[2] = b /\ Head(<<a, b>>) = a /\ <<a, b>> # <<>>
  OBVIOUS
<1>2. QED
  BY <1>1 DEF Closes

LEMMA ContinueCloses ==
  ASSUME Queue, Leaving, NEW x, Call(x), x # "Gone", Continue
  PROVE  Leaving' /\ Closing' = Closing
<1>1. todo \in Seq(Calls) /\ todo # <<>> /\ Head(todo) # "Gone" /\ todo' = Tail(todo)
  BY DEF Queue, Ordered, Call, Continue
<1>2. Closes(todo') <=> Closes(todo)
  BY <1>1, ClosesTail
<1>3. Closes(todo) => Head(todo') = "Gone"
  BY <1>1, ClosesTail DEF Leaving, Closing
<1>4. QED
  BY <1>2, <1>3 DEF Leaving, Closing, Closes

LEMMA PushCloses ==
  ASSUME Queue, Leaving, NEW x, Call(x), x # "Gone",
         NEW s \in {"Stop", "AwaitStop"}, todo' = <<s>> \o Tail(todo)
  PROVE  Leaving' /\ Closing' = Closing
<1>1. todo \in Seq(Calls) /\ todo # <<>> /\ Head(todo) # "Gone" /\ Tail(todo) \in Seq(Calls)
  BY DEF Queue, Ordered, Call
<1>2. s \in Calls /\ s # "Gone"
  BY DEF Calls, PlainCalls
<1>3. Closes(todo') <=> Closes(todo)
  BY <1>1, <1>2, ClosesTail, ClosesCons
<1>4. Head(todo') = s /\ Len(todo') = Len(todo)
  BY <1>1, <1>2, ClosesCons
<1>5. QED
  BY <1>1, <1>3, <1>4 DEF Leaving, Closing, Closes

\* A callback that ends, or goes on otherwise, is not the one that closes the window.
LEMMA OtherCloses ==
  ASSUME Queue, Leaving, NEW x, Call(x), x \notin {"Stop", "AwaitStop", "Gone"}
  PROVE  ~Closing
BY DEF Leaving, Call

LEMMA TapCloses ==
  ASSUME Tick \/ OperatorStep
  PROVE  /\ ~Closing /\ Leaving'
         /\ Closing' => CloseWindow
<1> USE OrderedCallbacks
<1>0. ~Closes(Telemetry) /\ ~Closes(Telemetry \o <<"SayEdited">>)
  <2>1. "SayEdited" \in PlainCalls
    BY DEF PlainCalls
  <2>2. QED
    BY <2>1, OrderedTelemetry, ClosesNever, Zenon
<1>1. ~Closing
  BY TodoOfTaps DEF Closing, Closes, Idle
<1>2. ASSUME todo' = todo PROVE ~Closing'
  BY <1>1, <1>2 DEF Closing
<1>3. ASSUME NEW q, Begin(q), ~Closes(q) PROVE ~Closing'
  BY <1>3, Zenon DEF Begin, Closing
<1>4. CASE CloseWindow
  <2>1. todo' = <<"Stop", "Gone">>
    BY <1>4 DEF CloseWindow, Begin
  <2>2. Len(todo') = 2 /\ Head(todo') = "Stop"
    BY <2>1, ClosesLast, Zenon
  <2>3. QED
    BY <1>1, <1>4, <2>2 DEF Leaving
<1>5. ASSUME Tick PROVE ~Closing'
  BY <1>0, <1>3, <1>5 DEF Tick
<1>6. ASSUME TapStart PROVE ~Closing'
  <2>1. "Start" # "Gone"
    OBVIOUS
  <2>2. ~Closes(<<"Start">>)
    BY <2>1, ClosesOne, Zenon
  <2>3. QED
    BY <1>3, <1>6, <2>2, Zenon DEF TapStart
<1>7. ASSUME TapStop PROVE ~Closing'
  BY <1>3, <1>7, ClosesNever, Zenon DEF TapStop
<1>8. ASSUME TapRefreshConfigs PROVE ~Closing'
  BY <1>3, <1>8, ClosesNever, Zenon DEF TapRefreshConfigs
<1>9. ASSUME TapSelectFolder PROVE ~Closing'
  BY <1>3, <1>9, ClosesNever, Zenon DEF TapSelectFolder
<1>10. ASSUME \/ \E i \in 1..Len(validConfigs) : SelectItem(i)
              \/ \E r \in DOMAIN registerRows : OpenEditor(r)
              \/ CancelEditor
       PROVE  ~Closing'
  BY <1>2, <1>10 DEF SelectItem, OpenEditor, CancelEditor
<1>11. ASSUME \/ \E r \in DOMAIN registerRows : ToggleBit(r)
              \/ \E v \in Values : ApplyEdit(v)
       PROVE  ~Closing'
  <2>1. todo' = todo \/ todo' = Telemetry \o <<"SayEdited">>
    BY <1>11, Zenon DEF ToggleBit, ApplyEdit
  <2>2. QED
    BY <1>0, <1>2, <2>1 DEF Closing
<1>12. CASE ~Closing'
  BY <1>1, <1>12 DEF Leaving
<1>13. QED
  BY <1>4, <1>5, <1>6, <1>7, <1>8, <1>9, <1>10, <1>11, <1>12 DEF OperatorStep

-----------------------------------------------------------------------------
(* The steps of ServerControl.                                             *)

Mapped == [Control!ControlNext]_(Control!controlVars)

LEMMA ClosingIsMapped == Closing = (todo # <<>> /\ Last(todo) = "Gone")
BY DEF Closing, Closes, Last

LEMMA QuietMaps ==
  ASSUME Quiet, Closing' = Closing
  PROVE  Mapped
BY ClosingIsMapped DEF Mapped, Control!controlVars, Quiet, Current, Untold, Closing, Closes, Last

LEMMA DepartsMaps ==
  ASSUME Departs, Closing' = Closing
  PROVE  Mapped
<1>1. Control!Ends
  BY DEF Control!Ends, Departs, Current, Untold, Closing, Closes, Last
<1>2. QED
  BY <1>1 DEF Mapped, Control!ControlNext

LEMMA BrokenMaps ==
  ASSUME Broken, Closing' = Closing
  PROVE  Mapped
<1>1. Control!Fails
  BY DEF Control!Fails, Broken, Current, Untold, Closing, Closes, Last
<1>2. QED
  BY <1>1 DEF Mapped, Control!ControlNext

LEMMA ToldMaps ==
  ASSUME NEW g \in Starts, Told(g), Closing' = Closing
  PROVE  Mapped
<1>1. Control!Tell(g)
  BY DEF Control!Tell, Told, Current, Untold, Closing, Closes, Last
<1>2. QED
  BY <1>1 DEF Mapped, Control!ControlNext

LEMMA BeginsMaps ==
  ASSUME NEW g \in Starts, Current = None, Current' = g, Untold = {}, Untold' = {},
         UNCHANGED shown, ~Closing, ~Closing'
  PROVE  Mapped
<1>1. Control!Begins(g)
  BY DEF Control!Begins, Current, Untold, Closing, Closes, Last
<1>2. QED
  BY <1>1 DEF Mapped, Control!ControlNext

LEMMA CloseMaps ==
  ASSUME Quiet, ~Closing, Closing'
  PROVE  Mapped
<1>1. Control!Close
  BY DEF Control!Close, Quiet, Current, Untold, Closing, Closes, Last
<1>2. QED
  BY <1>1 DEF Mapped, Control!ControlNext

LEMMA ForgetMaps ==
  ASSUME Current' = None, Untold' = {}, UNCHANGED shown, Closing, Closing'
  PROVE  Mapped
<1>1. Control!Forget
  BY DEF Control!Forget, Current, Untold, Closing, Closes, Last
<1>2. QED
  BY <1>1 DEF Mapped, Control!ControlNext

-----------------------------------------------------------------------------
(* The steps of the dashboard and of its servers.                          *)

Good == ErrInv' /\ Leaving' /\ Mapped

LEMMA TapGood ==
  ASSUME Inv, Leaving, Tick \/ OperatorStep
  PROVE  Good
<1>1. ASSUME UNCHANGED serverVars, UNCHANGED shown PROVE ErrInv' /\ Quiet
  BY <1>1, SameErrors DEF serverVars, Inv
<1>2. ASSUME NEW steps, Begin(steps) PROVE ErrInv' /\ Quiet
  BY <1>1, <1>2 DEF Begin, historyVars
<1>3. CASE CloseWindow
  BY <1>2, <1>3, TapCloses, QuietMaps, CloseMaps DEF CloseWindow, Good, Closing, Closes
<1>4. CASE Tick \/ TapStart \/ TapStop \/ TapRefreshConfigs \/ TapSelectFolder
  <2>1. ErrInv' /\ Quiet
    BY <1>2, <1>4 DEF Tick, TapStart, TapStop, TapRefreshConfigs, TapSelectFolder
  <2>2. QED
    BY <1>3, <2>1, TapCloses, QuietMaps DEF Good, Closing, Closes
<1>5. CASE \/ \E i \in 1..Len(validConfigs) : SelectItem(i)
           \/ \E r \in DOMAIN registerRows : OpenEditor(r)
           \/ CancelEditor
  <2>1. ErrInv' /\ Quiet
    BY <1>1, <1>5 DEF SelectItem, OpenEditor, CancelEditor, historyVars
  <2>2. QED
    BY <1>3, <2>1, TapCloses, QuietMaps DEF Good, Closing, Closes
<1>6. CASE \/ \E r \in DOMAIN registerRows : ToggleBit(r)
           \/ \E v \in Values : ApplyEdit(v)
  <2>1. PICK r, v : SetRegisterValue(r, v) /\ UNCHANGED shown
    BY <1>6, Zenon DEF ToggleBit, ApplyEdit
  <2>2. ErrInv' /\ (Quiet \/ Departs)
    BY <2>1, EditErrors, Zenon DEF Inv
  <2>3. QED
    BY <1>3, <2>2, TapCloses, QuietMaps, DepartsMaps DEF Good, Closing, Closes
<1>7. QED
  BY <1>3, <1>4, <1>5, <1>6 DEF OperatorStep

LEMMA CallGood ==
  ASSUME Inv, Leaving, CallStep
  PROVE  Good
<1> USE DEF Inv
<1>1. ASSUME UNCHANGED serverVars, UNCHANGED shown PROVE ErrInv' /\ Quiet
  BY <1>1, SameErrors DEF serverVars
<1>2. CASE CallStart
  <2>1. Call("Start") /\ UNCHANGED shown
    BY <1>2 DEF CallStart, historyVars
  <2>2. ~Closing /\ waiting = None /\ Clean
    BY <2>1, OtherCloses DEF Waits, Call, Queue, Buttons
  <2>3. CASE Start /\ todo' = Telemetry \o <<"SayRunning">>
    <3>1. "SayRunning" \in PlainCalls
      BY DEF PlainCalls
    <3>2. ~Closing'
      BY <2>3, <3>1, OrderedTelemetry, ClosesNever, Zenon DEF Closing
    <3>3. QED
      BY <2>1, <2>2, <2>3, <3>2, StartErrors, BeginsMaps DEF Good, Leaving
  <2>4. CASE UNCHANGED serverVars /\ todo' = <<>>
    <3>1. ~Closing'
      BY <2>4 DEF Closing, Closes
    <3>2. QED
      BY <1>1, <2>1, <2>2, <2>4, <3>1, QuietMaps DEF Good, Leaving, Closing, Closes
  <2>5. QED
    BY <1>2, <2>3, <2>4 DEF CallStart
<1>3. CASE CallSyncState
  <2>1. Call("SyncState") /\ Continue /\ SyncState /\ Show(AsyncErr)
    BY <1>3 DEF CallSyncState
  <2>2. ErrInv' /\ (Quiet \/ Departs \/ \E g \in Starts : Told(g))
    BY <2>1, TakenErrors
  <2>3. Leaving' /\ Closing' = Closing
    BY <2>1, ContinueCloses
  <2>4. QED
    BY <2>2, <2>3, QuietMaps, DepartsMaps, ToldMaps DEF Good
<1>4. ASSUME SyncServer, UNCHANGED shown, Leaving', Closing' = Closing
      PROVE  Good
  BY <1>4, SyncErrors, QuietMaps, DepartsMaps DEF SyncServer, Good
<1>5. CASE CallTrafficSnapshot \/ CallSnapshotData
  <2>1. SyncServer /\ UNCHANGED shown /\ Leaving' /\ Closing' = Closing
    BY <1>5, ContinueCloses DEF CallTrafficSnapshot, CallSnapshotData, historyVars
  <2>2. QED
    BY <1>4, <2>1
<1>6. CASE CallRunning
  <2>1. SyncServer /\ UNCHANGED shown /\ Call("Running")
    BY <1>6 DEF CallRunning, historyVars
  <2>2. todo' = Tail(todo) \/ todo' = <<"Stop">> \o Tail(todo)
    BY <1>6 DEF CallRunning
  <2>3. Leaving' /\ Closing' = Closing
    BY <2>1, <2>2, ContinueCloses, PushCloses DEF Continue
  <2>4. QED
    BY <1>4, <2>1, <2>3
<1>7. CASE CallStop
  <2>1. Call("Stop") /\ UNCHANGED shown
    BY <1>7 DEF CallStop, historyVars
  <2>2. CASE CancelServer /\ todo' = <<"AwaitStop">> \o Tail(todo)
    <3>1. Leaving' /\ Closing' = Closing
      BY <2>1, <2>2, PushCloses
    <3>2. QED
      BY <2>1, <2>2, <3>1, CancelErrors, QuietMaps DEF Good
  <2>3. CASE SyncServer /\ Continue
    BY <1>4, <2>1, <2>3, ContinueCloses
  <2>4. QED
    BY <1>7, <2>2, <2>3 DEF CallStop
<1>8. CASE AwaitStop
  <2>1. Call("AwaitStop") /\ ServerReturned
    BY <1>8 DEF AwaitStop
  <2>2. /\ waiting \in Starts /\ waiting # None
        /\ Current = waiting /\ Current' = None /\ Untold' = {}
        /\ Untold = IF run[waiting].done = "error" THEN {waiting} ELSE {}
        /\ (UNCHANGED shown \/ Show(waiting)) => ErrInv'
    BY <2>1, ReturnedErrors, StartsAreNumbers
  <2>3. Closing <=> Last(todo) = "Gone"
    BY <2>1, ClosingIsMapped DEF Call
  <2>4. CASE run[waiting].done = "error" /\ ~Closing
    <3>1. Show(waiting) /\ todo' = <<>>
      BY <1>8, <2>3, <2>4 DEF AwaitStop
    <3>2. ~Closing'
      BY <3>1 DEF Closing, Closes
    <3>3. Told(waiting)
      BY <2>2, <2>4, <3>1 DEF Told, Show
    <3>4. QED
      BY <2>2, <2>4, <3>1, <3>2, <3>3, ToldMaps DEF Good, Leaving, Closing, Closes
  <2>5. CASE ~(run[waiting].done = "error" /\ ~Closing)
    <3>1. Continue /\ UNCHANGED shown
      BY <1>8, <2>3, <2>5 DEF AwaitStop
    <3>2. Leaving' /\ Closing' = Closing
      BY <2>1, <3>1, ContinueCloses
    <3>3. CASE Closing
      BY <2>2, <3>1, <3>2, <3>3, ForgetMaps DEF Good
    <3>4. CASE ~Closing
      <4>1. Departs
        BY <2>2, <2>5, <3>1, <3>4 DEF Departs
      <4>2. QED
        BY <2>2, <3>1, <3>2, <4>1, DepartsMaps DEF Good
    <3>5. QED
      BY <3>3, <3>4
  <2>6. QED
    BY <2>4, <2>5
<1>9. ASSUME UNCHANGED serverVars, UNCHANGED shown, Leaving', Closing' = Closing
      PROVE  Good
  BY <1>1, <1>9, QuietMaps DEF Good
<1>10. CASE CallSetRoot \/ CallDiscover \/ UpdateSelected \/ SelectFirst \/ SayLoaded
  <2>1. UNCHANGED serverVars /\ UNCHANGED shown
    BY <1>10 DEF CallSetRoot, CallDiscover, UpdateSelected, SelectFirst, SayLoaded, Reselect,
                 historyVars
  <2>2. Leaving' /\ Closing' = Closing
    BY <1>10, ContinueCloses DEF CallSetRoot, CallDiscover, UpdateSelected, SelectFirst,
                                 SayLoaded, Reselect
  <2>3. QED
    BY <1>9, <2>1, <2>2
<1>11. CASE DiscoverFails
  <2>1. ~Closing /\ ~Closing'
    BY <1>11, OtherCloses DEF DiscoverFails, Closing, Closes
  <2>2. QED
    BY <1>9, <1>11, <2>1 DEF DiscoverFails, historyVars, Leaving, Closing, Closes
<1>12. ASSUME NEW x, NEW label, x # "Gone", Say(x, label)
       PROVE  Good
  <2>1. UNCHANGED serverVars /\ UNCHANGED shown /\ Call(x) /\ Continue
    BY <1>12 DEF Say, historyVars
  <2>2. QED
    BY <1>9, <1>12, <2>1, ContinueCloses
<1>13. QED
  BY <1>2, <1>3, <1>5, <1>6, <1>7, <1>8, <1>10, <1>11, <1>12 DEF CallStep

LEMMA ServersGood ==
  ASSUME Inv, Leaving, ServersStep
  PROVE  Good
<1>1. PICK g \in Starts : Background(ServerStep(g) \/ ClientStep(g))
  BY DEF ServersStep
<1>2. (ServerStep(g) \/ ClientStep(g)) /\ UNCHANGED <<todo, shown>>
  BY <1>1 DEF Background, historyVars
<1>3. ErrInv' /\ (Quiet \/ Broken)
  BY <1>2, BackgroundErrors DEF Inv
<1>4. Leaving' /\ Closing' = Closing
  BY <1>2 DEF Leaving, Closing, Closes
<1>5. QED
  BY <1>3, <1>4, QuietMaps, BrokenMaps DEF Good

LEMMA StepGood ==
  ASSUME Inv, Leaving, [Next]_vars
  PROVE  Inv' /\ Leaving' /\ Mapped
<1>1. Queue' /\ Buttons' /\ Waits' /\ RunInv'
  BY QueueStep, ButtonsStep, WaitsStep, RunStep DEF Inv
<1>2. CASE UNCHANGED vars
  <2>1. UNCHANGED serverVars /\ UNCHANGED <<shown, todo>>
    BY <1>2 DEF vars, historyVars
  <2>2. ErrInv' /\ Quiet
    BY <2>1, SameErrors DEF serverVars, Inv
  <2>3. Leaving' /\ Closing' = Closing
    BY <2>1 DEF Leaving, Closing, Closes
  <2>4. QED
    BY <1>1, <2>2, <2>3, QuietMaps DEF Inv
<1>3. QED
  BY <1>1, <1>2, TapGood, CallGood, ServersGood DEF Next, Good, Inv

LEMMA InitGood ==
  ASSUME Init
  PROVE  Inv /\ Leaving /\ Control!ControlInit
<1>1. /\ server = None /\ waiting = None /\ lastAsyncErr = None /\ starts = 0
      /\ run = [g \in Starts |-> Unborn] /\ todo = <<>> /\ shown = [g \in Starts |-> 0]
  BY DEF Init, RuntimeInit
<1>2. RunInv
  BY InitRun
<1>3. Queue /\ Buttons /\ Waits
  BY <1>1, NothingLeft DEF Queue, Buttons, Waits, Clean, Call
<1>4. \A g \in Starts : run[g].done = "empty" /\ shown[g] = 0
  BY <1>1 DEF Unborn
<1>5. ErrInv
  BY <1>1, <1>4 DEF ErrInv, None
<1>6. Untold = {} /\ Current = None /\ ~Closing
  BY <1>1, <1>2, <1>4, StartsAreNumbers DEF Untold, Current, Closing, Closes
<1>7. Control!ControlInit
  BY <1>1, <1>6 DEF Control!ControlInit, Untold, Current, Closing, Closes, Last
<1>8. QED
  BY <1>2, <1>3, <1>5, <1>6, <1>7 DEF Inv, Leaving

\* The dashboard implements ServerControl: whatever the operator, the ticker, the
\* servers and their clients do, and whatever fails, there is one server at a time,
\* and the error that ends it is told once, before there is another, unless the window
\* is closed first (runtime.go:119-185, 301-317; fynehmi/main.go:258-282, 366-385).
THEOREM TakesTurns == Spec => ServersTakeTurns
<1>1. Init => Inv /\ Leaving /\ Control!ControlInit
  BY InitGood
<1>2. Inv /\ Leaving /\ [Next]_vars => Inv' /\ Leaving' /\ [Control!ControlNext]_(Control!controlVars)
  BY StepGood DEF Mapped
<1>3. QED
  BY <1>1, <1>2, PTL DEF Spec, ServersTakeTurns, Control!ControlSpec
=============================================================================
