-------------------------------- MODULE Hmi --------------------------------
(***************************************************************************)
(* The dashboard (cmd/fynehmi/main.go): its callbacks, as the calls of the *)
(* runtime that each makes one after the other, and what it shows.  All of *)
(* them run in the goroutine of the user interface, the ticker's too       *)
(* (fyne.Do), so a callback ends before the next one begins; the servers   *)
(* and their clients go on in between.                                     *)
(***************************************************************************)
EXTENDS Runtime, SequencesExt

CONSTANT NoRow

ASSUME HmiAssumption == \A c \in Configs : NoRow \notin DOMAIN File[c]

VARIABLES
    todo,           \* the calls that the running callback has left
    validConfigs, selectedIndex,
    registerRows,   \* the register table: the rows and their values
    editing,        \* the row in the edit dialog, which keeps all else out
    startEnabled,   \* the start button is enabled, and the stop button is not
    statusLabel,
    shown,          \* history: how often the error of each server was shown
    edited          \* history: the operator's edits since the last scan

displayVars == <<registerRows, startEnabled, statusLabel>>
listVars == <<validConfigs, selectedIndex>>
historyVars == <<shown, edited>>
vars == <<catalogVars, serverVars, todo, listVars, displayVars, editing, historyVars>>

Labels == {"Ready", "Selected", "Discovered", "Loaded", "Server running", "Server stopped",
           "Server error", "Start failed", "Stop failed", "Set"}

Telemetry == <<"SyncState", "TrafficSnapshot", "SnapshotData">>

Idle == todo = <<>>
AtRest == Idle /\ editing = NoRow

\* The window is closed and the program has ended.
Gone == todo = <<"Gone">>

NoEdits == [c \in Configs |-> Empty]

\* As main leaves it before it shows the window.
Init ==
    /\ \E valid \in Scans :
          /\ RuntimeInit(valid)
          /\ validConfigs = valid
          /\ registerRows = File[valid[1]]
    /\ selectedIndex = 1
    /\ todo = <<>>
    /\ editing = NoRow
    /\ startEnabled = TRUE
    /\ statusLabel = "Selected"
    /\ shown = [g \in Starts |-> 0]
    /\ edited = NoEdits

Show(g) == shown' = IF g = None THEN shown ELSE [shown EXCEPT ![g] = @ + 1]

-----------------------------------------------------------------------------
(* What the operator and the ticker begin. *)

Begin(steps) ==
    /\ Idle
    /\ todo' = steps
    /\ UNCHANGED <<catalogVars, serverVars, listVars, displayVars, editing, historyVars>>

Tick == Begin(Telemetry)

TapStart == AtRest /\ startEnabled /\ starts < MaxStarts /\ Begin(<<"Start">>)

TapStop == AtRest /\ ~startEnabled /\ Begin(<<"Stop">> \o Telemetry \o <<"SayStopped">>)

TapRefreshConfigs == AtRest /\ Begin(<<"Discover", "UpdateSelected">>)

TapSelectFolder ==
    /\ AtRest
    /\ Begin(<<"Running", "SetRoot", "Discover", "SelectFirst">> \o Telemetry \o <<"SayLoaded">>)

\* The window can be closed with the dialog open, and the ticker stops first.
CloseWindow == Begin(<<"Stop", "Gone">>)

SelectItem(i) ==
    /\ AtRest
    /\ i \in 1..Len(validConfigs)
    /\ selectedIndex' = i
    /\ SelectConfig(validConfigs[i])
    /\ statusLabel' = "Selected"
    /\ UNCHANGED <<serverVars, todo, validConfigs, registerRows, startEnabled, editing,
                   historyVars>>

\* What the edits of the selected configuration are after another one.
Noted(r, v) ==
    IF InSelected(r)
    THEN [edited EXCEPT ![selectedPath] =
              [s \in DOMAIN @ \union {r} |-> IF s = r THEN v ELSE @[s]]]
    ELSE edited

\* A tap on a bit sets the opposite of what the table shows.
ToggleBit(r) ==
    /\ AtRest
    /\ r \in DOMAIN registerRows \intersect BitRows
    /\ SetRegisterValue(r, 1 - registerRows[r])
    /\ edited' = Noted(r, 1 - registerRows[r])
    /\ todo' = IF InSelected(r) /\ InServer(r) THEN Telemetry \o <<"SayEdited">> ELSE todo
    /\ UNCHANGED <<listVars, displayVars, editing, shown>>

OpenEditor(r) ==
    /\ AtRest
    /\ r \in DOMAIN registerRows \ BitRows
    /\ editing' = r
    /\ UNCHANGED <<catalogVars, serverVars, todo, listVars, displayVars, historyVars>>

CancelEditor ==
    /\ Idle
    /\ editing # NoRow
    /\ editing' = NoRow
    /\ UNCHANGED <<catalogVars, serverVars, todo, listVars, displayVars, historyVars>>

\* Enter leaves the dialog open when the edit is refused; Apply closes it in any
\* case, which is a refused edit and CancelEditor.
ApplyEdit(v) ==
    /\ Idle
    /\ editing # NoRow
    /\ SetRegisterValue(editing, v)
    /\ IF InSelected(editing) /\ InServer(editing)
       THEN editing' = NoRow /\ todo' = Telemetry \o <<"SayEdited">>
       ELSE UNCHANGED <<editing, todo>>
    /\ edited' = Noted(editing, v)
    /\ UNCHANGED <<listVars, displayVars, shown>>

-----------------------------------------------------------------------------
(* The calls of a callback. *)

Call(step) == todo # <<>> /\ Head(todo) = step

Continue == todo' = Tail(todo)

CallStart ==
    /\ Call("Start")
    /\ \/ /\ Start
          /\ todo' = Telemetry \o <<"SayRunning">>
          /\ UNCHANGED <<startEnabled, statusLabel>>
       \/ /\ ~CanStart
          /\ todo' = <<>>
          /\ startEnabled' = TRUE
          /\ statusLabel' = "Start failed"
          /\ UNCHANGED serverVars
    /\ UNCHANGED <<catalogVars, listVars, registerRows, editing, historyVars>>

CallSyncState ==
    /\ Call("SyncState")
    /\ SyncState
    /\ Show(AsyncErr)
    /\ startEnabled' = (Alive = None)
    /\ statusLabel' = IF AsyncErr # None THEN "Server error" ELSE statusLabel
    /\ Continue
    /\ UNCHANGED <<catalogVars, listVars, registerRows, editing, edited>>

CallTrafficSnapshot ==
    /\ Call("TrafficSnapshot")
    /\ SyncServer
    /\ Continue
    /\ UNCHANGED <<catalogVars, listVars, displayVars, editing, historyVars>>

\* Variant: the table shows the selected configuration in any case.
CallSnapshotOfSelected ==
    /\ Call("SnapshotData")
    /\ SyncServer
    /\ registerRows' = SelectedCfg
    /\ Continue
    /\ UNCHANGED <<catalogVars, listVars, startEnabled, statusLabel, editing, historyVars>>

CallSnapshotData ==
    /\ Call("SnapshotData")
    /\ SyncServer
    /\ registerRows' = IF Alive # None THEN run[Alive].store ELSE SelectedCfg
    /\ Continue
    /\ UNCHANGED <<catalogVars, listVars, startEnabled, statusLabel, editing, historyVars>>

CallStop ==
    /\ Call("Stop")
    /\ \/ /\ CancelServer
          /\ todo' = <<"AwaitStop">> \o Tail(todo)
       \/ /\ Alive = None
          /\ SyncServer
          /\ Continue
    /\ UNCHANGED <<catalogVars, listVars, displayVars, editing, historyVars>>

\* An error that Stop returns is shown at once, and ends the callback, unless the
\* window is being closed.
AwaitStop ==
    /\ Call("AwaitStop")
    /\ ServerReturned
    /\ IF run[waiting].done = "error" /\ Last(todo) # "Gone"
       THEN /\ Show(waiting)
            /\ todo' = <<>>
            /\ statusLabel' = IF Last(todo) = "SayStopped" THEN "Stop failed" ELSE statusLabel
       ELSE /\ Continue
            /\ UNCHANGED <<shown, statusLabel>>
    /\ UNCHANGED <<catalogVars, listVars, registerRows, startEnabled, editing, edited>>

CallRunning ==
    /\ Call("Running")
    /\ SyncServer
    /\ todo' = IF Alive # None THEN <<"Stop">> \o Tail(todo) ELSE Tail(todo)
    /\ UNCHANGED <<catalogVars, listVars, displayVars, editing, historyVars>>

CallSetRoot ==
    /\ Call("SetRoot")
    /\ SetRoot
    /\ edited' = NoEdits
    /\ Continue
    /\ UNCHANGED <<serverVars, listVars, displayVars, editing, shown>>

CallDiscover ==
    /\ Call("Discover")
    /\ \E valid \in Scans :
          /\ Discover(valid)
          /\ validConfigs' = valid
    /\ edited' = NoEdits
    /\ Continue
    /\ UNCHANGED <<serverVars, selectedIndex, displayVars, editing, shown>>

\* The folder cannot be read, or holds a default configuration that is not valid.
DiscoverFails ==
    /\ Call("Discover")
    /\ todo' = <<>>
    /\ UNCHANGED <<catalogVars, serverVars, listVars, displayVars, editing, historyVars>>

Reselect(i, label) ==
    /\ selectedIndex' = i
    /\ SelectConfig(validConfigs[i])
    /\ statusLabel' = label
    /\ Continue
    /\ UNCHANGED <<serverVars, validConfigs, registerRows, editing, historyVars>>

UpdateSelected ==
    /\ Call("UpdateSelected")
    /\ Reselect(IF selectedIndex <= Len(validConfigs) THEN selectedIndex ELSE 1, "Discovered")
    /\ UNCHANGED startEnabled

\* updateServerControls(false)
SelectFirst ==
    /\ Call("SelectFirst")
    /\ Reselect(1, statusLabel)
    /\ startEnabled' = TRUE

SayLoaded ==
    /\ Call("SayLoaded")
    /\ Reselect(1, "Loaded")
    /\ UNCHANGED startEnabled

Say(step, label) ==
    /\ Call(step)
    /\ statusLabel' = label
    /\ Continue
    /\ UNCHANGED <<catalogVars, serverVars, listVars, registerRows, startEnabled, editing,
                   historyVars>>

CallStep ==
    \/ CallStart \/ CallSyncState \/ CallTrafficSnapshot \/ CallSnapshotData
    \/ CallStop \/ AwaitStop \/ CallRunning \/ CallSetRoot
    \/ CallDiscover \/ DiscoverFails \/ UpdateSelected \/ SelectFirst \/ SayLoaded
    \/ Say("SayRunning", "Server running")
    \/ Say("SayStopped", "Server stopped")
    \/ Say("SayEdited", "Set")

OperatorStep ==
    \/ TapStart \/ TapStop \/ TapRefreshConfigs \/ TapSelectFolder
    \/ \E i \in 1..Len(validConfigs) : SelectItem(i)
    \/ \E r \in DOMAIN registerRows : OpenEditor(r) \/ ToggleBit(r)
    \/ CancelEditor
    \/ CloseWindow
    \/ \E v \in Values : ApplyEdit(v)

Background(step) ==
    /\ step
    /\ UNCHANGED <<todo, listVars, displayVars, editing, historyVars>>

ServersStep == ~Gone /\ \E g \in Starts : Background(ServerStep(g) \/ ClientStep(g))

Next == Tick \/ OperatorStep \/ CallStep \/ ServersStep \/ (Gone /\ UNCHANGED vars)

Spec == Init /\ [][Next]_vars

\* A callback goes on, and the ticker's calls are queued with the operator's.  A
\* goroutine that can go on does, while the program runs.  The clients owe nothing,
\* but the handler of a silent client ends.
Fairness ==
    /\ WF_vars(CallStep)
    /\ SF_vars(Tick)
    /\ \A g \in Starts :
          /\ WF_vars(~Gone /\ Background(Listen(g) \/ ListenFails(g)))
          /\ WF_vars(~Gone /\ Background(CloseListener(g)))
          /\ WF_vars(~Gone /\ Background(AcceptReturns(g)))
          /\ WF_vars(~Gone /\ Background(Serve(g) \/ HandlerEnds(g)))

FairSpec == Spec /\ Fairness

-----------------------------------------------------------------------------
Runs == [phase : {"unborn", "starting", "accepting", "returned"},
         config : Configs \union {NoPath}, store : Blocks, cancelled : BOOLEAN,
         listening : BOOLEAN, done : {"empty", "nil", "error"}, serving : BOOLEAN]

TypeOK ==
    /\ DOMAIN discovery \subseteq Configs
    /\ \A c \in DOMAIN discovery : discovery[c] \in BlocksOf(DOMAIN File[c])
    /\ selectedPath \in Configs \union {NoPath}
    /\ own \in Blocks \union {Shared}
    /\ (selectedPath # NoPath /\ own = Shared) => selectedPath \in DOMAIN discovery
    /\ {server, lastAsyncErr, waiting} \subseteq Starts \union {None}
    /\ starts \in 0..MaxStarts
    /\ run \in [Starts -> Runs]
    /\ validConfigs \in Scans
    /\ selectedIndex \in 1..Cardinality(Configs)
    /\ registerRows \in Blocks
    /\ editing \in ((UNION {DOMAIN File[c] : c \in Configs}) \ BitRows) \union {NoRow}
    /\ startEnabled \in BOOLEAN
    /\ shown \in [Starts -> Nat]

\* A server that is about to listen never finds its port held by an earlier
\* server of the same process: Stop returns only when its listener is closed
\* (runtime.go:161-163).
RestartFindsPortFree == \A g \in Starts : run[g].phase = "starting" => PortFree(g)

\* The start button can be pressed only when no server is left, running or ended,
\* and no error waits to be shown, which Start would clear (runtime.go:123, 141;
\* the buttons are set from SyncState, fynehmi/main.go:276-282).
StartIsClean == (AtRest /\ startEnabled) => (server = None /\ lastAsyncErr = None)

\* What ends a server is shown to the operator, and once: by the callback that
\* stops it or by the next tick, unless the window is closed before
\* (runtime.go:145-185, 301-317).
ErrorsAreShownOnce ==
    \A g \in Starts : run[g].done = "error" ~> (Gone \/ [](shown[g] = 1))

\* The user interface never freezes, and a closed window does not leave the program
\* behind: Stop's wait for the server ends (runtime.go:161-166).
StopReturns == waiting # None ~> (Idle \/ Gone)

\* A configuration keeps the edits that it took, and nothing else, until the next
\* scan, whatever else is selected, started and written to in between: it is the
\* shared slice that keeps them (runtime.go:97-108, 268-283).
EditsAreKept ==
    (Idle /\ selectedPath # NoPath) =>
        SelectedCfg = [r \in DOMAIN File[selectedPath] |->
                          IF r \in DOMAIN edited[selectedPath] THEN edited[selectedPath][r]
                          ELSE File[selectedPath][r]]

\* An edit that is refused changes no configuration, although the configuration
\* is changed before the server is asked (runtime.go:274-283).
RefusedEditsChangeNothing ==
    [][(editing # NoRow /\ editing' = editing) => UNCHANGED catalogVars]_vars

\* "Server stopped" (fynehmi/main.go:384): once the operator has stopped a server,
\* its clients are not served for ever.
StoppedServesNobody ==
    \A g \in Starts : (run[g].cancelled /\ statusLabel = "Server stopped") ~> ~run[g].serving

\* There is one server at a time, and the error that ends it is told once, before
\* there is another: neither Stop, nor Start, nor the queries that notice the end
\* on their way lose it (runtime.go:141, 145-185, 301-317; fynehmi/main.go:258-282,
\* 366-385).
Control == INSTANCE ServerControl WITH
    Servers <- Starts,
    Nobody <- None,
    current <- IF server # None THEN server ELSE waiting,
    untold <- {g \in Starts : run[g].done = "error" \/ lastAsyncErr = g},
    told <- shown,
    closing <- todo # <<>> /\ Last(todo) = "Gone"

ServersTakeTurns == Control!ControlSpec
=============================================================================
