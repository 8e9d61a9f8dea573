--------------------------- MODULE HmiEditProofs ---------------------------
(***************************************************************************)
(* What becomes of edits, for any number of configurations and servers.    *)
(* The types of the dashboard: what it selects is in the catalog or is a   *)
(* block of the runtime's own, and what a block holds fits its rows.       *)
(* A configuration keeps the edits it took: the runtime edits a block of   *)
(* its own, which the catalog does not have, only between a scan and the   *)
(* selection that follows it, and there the dashboard edits nothing.       *)
(* A refused edit changes no configuration: the runtime changes the        *)
(* configuration before it asks the server; but the dialog opens on a row  *)
(* of the table, the table shows the rows of the server, if there is one,  *)
(* and while the dialog is open no other server is started.                *)
(***************************************************************************)
EXTENDS HmiProofs, FiniteSetTheorems

-----------------------------------------------------------------------------
(* What a step does to the catalog of configurations.                      *)

\* An edit of the selected configuration, for the dashboard or for the server.
EditOf(r, v) ==
    /\ Idle
    /\ InSelected(r)
    /\ SetSelectedValue(r, v)
    /\ edited' = Noted(r, v)

CatalogSame == UNCHANGED <<catalogVars, validConfigs, edited>>

\* Every step does one of these to the catalog (CatalogSteps).
CatalogChange ==
    \/ CatalogSame
    \/ SetRoot /\ edited' = NoEdits /\ UNCHANGED validConfigs
    \/ CallDiscover
    \/ (\E c : SelectConfig(c)) /\ UNCHANGED <<validConfigs, edited>>
    \/ (\E r : \E v \in ValuesOf(r) : EditOf(r, v)) /\ UNCHANGED validConfigs

\* TypeOK in three parts: the catalog and the selection, the servers, the display.
CatalogOK ==
    /\ DOMAIN discovery \subseteq Configs
    /\ \A c \in DOMAIN discovery : discovery[c] \in BlocksOf(DOMAIN File[c])
    /\ selectedPath \in Configs \union {NoPath}
    /\ own \in Blocks \union {Shared}
    /\ (selectedPath # NoPath /\ own = Shared) => selectedPath \in DOMAIN discovery

ServersOK ==
    /\ {server, lastAsyncErr, waiting} \subseteq Starts \union {None}
    /\ starts \in 0..MaxStarts
    /\ run \in [Starts -> Runs]

DisplayOK ==
    /\ validConfigs \in Scans
    /\ selectedIndex \in 1..Cardinality(Configs)
    /\ registerRows \in Blocks
    /\ editing \in ((UNION {DOMAIN File[c] : c \in Configs}) \ BitRows) \union {NoRow}
    /\ startEnabled \in BOOLEAN
    /\ shown \in [Starts -> Nat]

LEMMA TypeParts == TypeOK <=> CatalogOK /\ ServersOK /\ DisplayOK
BY DEF TypeOK, CatalogOK, ServersOK, DisplayOK

\* A row of a block holds what a row of its kind may hold.
LEMMA BlockValues ==
  ASSUME NEW block \in Blocks, NEW r \in DOMAIN block
  PROVE  block[r] \in ValuesOf(r) /\ \E c \in Configs : DOMAIN block = DOMAIN File[c]
<1>1. block # Empty
  BY DEF Empty
<1>2. PICK c \in Configs : block \in BlocksOf(DOMAIN File[c])
  BY <1>1 DEF Blocks
<1>3. QED
  BY <1>2 DEF BlocksOf

\* A block stays a block of its rows when one of them is edited.
LEMMA EditedBlockOf ==
  ASSUME NEW rows, NEW block \in BlocksOf(rows), NEW r \in rows, NEW v \in ValuesOf(r)
  PROVE  [block EXCEPT ![r] = v] \in BlocksOf(rows)
<1>1. v \in Values \union {0, 1}
  BY DEF ValuesOf
<1>2. QED
  BY <1>1 DEF BlocksOf

LEMMA EditedBlock ==
  ASSUME NEW block \in Blocks, NEW r \in DOMAIN block, NEW v \in ValuesOf(r)
  PROVE  [block EXCEPT ![r] = v] \in Blocks
<1>1. block # Empty
  BY DEF Empty
<1>2. PICK c \in Configs : block \in BlocksOf(DOMAIN File[c])
  BY <1>1 DEF Blocks
<1>3. r \in DOMAIN File[c]
  BY <1>2 DEF BlocksOf
<1>4. [block EXCEPT ![r] = v] \in BlocksOf(DOMAIN File[c])
  BY <1>2, <1>3, EditedBlockOf
<1>5. QED
  BY <1>4 DEF Blocks

LEMMA SelectedShape ==
  ASSUME CatalogOK
  PROVE  SelectedCfg \in Blocks
BY DEF CatalogOK, SelectedCfg, Blocks, Shared

\* A toggled bit is a bit, and what the dialog applies is a value for its row.
LEMMA CatalogSteps ==
  ASSUME TypeOK, [Next]_vars
  PROVE  CatalogChange
<1>1. ASSUME NEW r, NEW v \in ValuesOf(r), Idle, SetRegisterValue(r, v), edited' = Noted(r, v),
             UNCHANGED validConfigs
      PROVE  CatalogChange
  <2>1. CASE InSelected(r)
    <3>1. EditOf(r, v)
      BY <1>1, <2>1 DEF SetRegisterValue, EditOf
    <3>2. QED
      BY <1>1, <3>1 DEF CatalogChange
  <2>2. CASE ~InSelected(r)
    BY <1>1, <2>2 DEF SetRegisterValue, Noted, CatalogChange, CatalogSame
  <2>3. QED
    BY <2>1, <2>2
<1>2. ASSUME NEW r \in DOMAIN registerRows, ToggleBit(r)
      PROVE  CatalogChange
  <2>1. registerRows[r] \in {0, 1} /\ ValuesOf(r) = {0, 1}
    BY <1>2, BlockValues DEF ToggleBit, TypeOK, ValuesOf
  <2>2. 1 - registerRows[r] \in ValuesOf(r)
    BY <2>1
  <2>3. /\ Idle /\ SetRegisterValue(r, 1 - registerRows[r]) /\ edited' = Noted(r, 1 - registerRows[r])
        /\ UNCHANGED validConfigs
    BY <1>2 DEF ToggleBit, AtRest, listVars
  <2>4. QED
    BY <1>1, <2>2, <2>3, Zenon
<1>3. ASSUME NEW v \in Values, ApplyEdit(v)
      PROVE  CatalogChange
  <2>1. v \in ValuesOf(editing)
    BY <1>3 DEF ApplyEdit, TypeOK, ValuesOf
  <2>2. /\ Idle /\ SetRegisterValue(editing, v) /\ edited' = Noted(editing, v)
        /\ UNCHANGED validConfigs
    BY <1>3 DEF ApplyEdit, listVars
  <2>3. QED
    BY <1>1, <2>1, <2>2, Zenon
<1>4. CASE Tick \/ OperatorStep
  <2>1. CASE \E i \in 1..Len(validConfigs) : SelectItem(i)
    BY <2>1 DEF SelectItem, historyVars, CatalogChange
  <2>2. CASE Tick \/ TapStart \/ TapStop \/ TapRefreshConfigs \/ TapSelectFolder \/ CloseWindow
    BY <2>2 DEF Tick, TapStart, TapStop, TapRefreshConfigs, TapSelectFolder, CloseWindow, Begin,
       historyVars, listVars, CatalogChange, CatalogSame
  <2>3. CASE CancelEditor \/ \E r \in DOMAIN registerRows : OpenEditor(r)
    BY <2>3 DEF CancelEditor, OpenEditor, historyVars, listVars, CatalogChange, CatalogSame
  <2>4. QED
    BY <1>2, <1>3, <1>4, <2>1, <2>2, <2>3 DEF OperatorStep
<1>5. CASE CallSetRoot
  BY <1>5 DEF CallSetRoot, listVars, CatalogChange
<1>6. CASE CallDiscover
  BY <1>6 DEF CatalogChange
<1>7. CASE UpdateSelected \/ SelectFirst \/ SayLoaded
  BY <1>7 DEF UpdateSelected, SelectFirst, SayLoaded, Reselect, historyVars, CatalogChange
<1>8. CASE CallStep
  <2>1. CASE CallStart \/ CallSyncState \/ CallTrafficSnapshot \/ CallSnapshotData \/ CallStop
    BY <2>1 DEF CallStart, CallSyncState, CallTrafficSnapshot, CallSnapshotData, CallStop,
       historyVars, listVars, CatalogChange, CatalogSame
  <2>2. CASE AwaitStop \/ CallRunning \/ DiscoverFails
    BY <2>2 DEF AwaitStop, CallRunning, DiscoverFails, historyVars, listVars,
       CatalogChange, CatalogSame
  <2>3. ASSUME NEW step, NEW label, Say(step, label)
        PROVE  CatalogChange
    BY <2>3 DEF Say, historyVars, listVars, CatalogChange, CatalogSame
  <2>4. QED
    BY <1>5, <1>6, <1>7, <1>8, <2>1, <2>2, <2>3 DEF CallStep
<1>9. CASE ServersStep
  BY <1>9 DEF ServersStep, Background, ServerStep, ClientStep, Update, Listen, ListenFails,
     CloseListener, AcceptReturns, AcceptFails, Connect, Serve, HandlerEnds, historyVars, listVars,
     CatalogChange, CatalogSame
<1>10. CASE UNCHANGED vars
  BY <1>10 DEF vars, historyVars, listVars, CatalogChange, CatalogSame
<1>11. QED
  BY <1>4, <1>8, <1>9, <1>10 DEF Next

-----------------------------------------------------------------------------
\* A scan has found something.
LEMMA ScanShape ==
  ASSUME NEW valid \in Scans
  PROVE  /\ Range(valid) \subseteq Configs
         /\ 1 \in 1..Len(valid) /\ valid[1] \in Range(valid)
         /\ Len(valid) \in 1..Cardinality(Configs)
         /\ \A i \in 1..Len(valid) : valid[i] \in Range(valid)
<1>1. PICK n \in 1..Cardinality(Configs) : valid \in [1..n -> Configs]
  BY DEF Scans
<1>2. Cardinality(Configs) \in Nat
  BY FS_CardinalityType, RuntimeAssumption
<1>3. n \in Nat /\ n >= 1
  BY <1>1, <1>2
<1>4. Len(valid) = n /\ DOMAIN valid = 1..n
  BY <1>1, <1>3
<1>5. QED
  BY <1>1, <1>3, <1>4 DEF Range

LEMMA FileShape ==
  ASSUME NEW c \in Configs
  PROVE  File[c] \in BlocksOf(DOMAIN File[c]) /\ File[c] \in Blocks
BY RuntimeAssumption DEF Blocks

LEMMA CatalogTyped ==
  ASSUME CatalogOK, CatalogChange
  PROVE  CatalogOK'
<1>1. CASE CatalogSame
  BY <1>1 DEF CatalogSame, catalogVars, CatalogOK
<1>2. CASE SetRoot
  BY <1>2 DEF SetRoot, CatalogOK, Empty
<1>3. ASSUME NEW valid \in Scans, Discover(valid) PROVE CatalogOK'
  <2>1. /\ DOMAIN discovery' = Range(valid) /\ Range(valid) \subseteq Configs
        /\ \A c \in DOMAIN discovery' : discovery'[c] = File[c]
    BY <1>3, ScanShape DEF Discover
  <2>2. \A c \in DOMAIN discovery' : discovery'[c] \in BlocksOf(DOMAIN File[c])
    BY <2>1, FileShape
  <2>3. CASE selectedPath = NoPath
    <3>1. selectedPath' = valid[1] /\ own' = Shared
      BY <1>3, <2>3 DEF Discover
    <3>2. valid[1] \in Range(valid)
      BY ScanShape
    <3>3. QED
      BY <2>1, <2>2, <3>1, <3>2 DEF CatalogOK
  <2>4. CASE selectedPath # NoPath
    <3>1. selectedPath' = selectedPath /\ own' = SelectedCfg
      BY <1>3, <2>4 DEF Discover
    <3>2. own' \in Blocks /\ own' # Shared
      BY <3>1, SelectedShape, RuntimeAssumption DEF Shared
    <3>3. QED
      BY <2>1, <2>2, <3>1, <3>2 DEF CatalogOK
  <2>5. QED
    BY <2>3, <2>4
<1>4. ASSUME NEW c, SelectConfig(c) PROVE CatalogOK'
  BY <1>4 DEF SelectConfig, CatalogOK
<1>5. ASSUME NEW r, NEW v \in ValuesOf(r), EditOf(r, v) PROVE CatalogOK'
  <2>1. SetSelectedValue(r, v) /\ r \in DOMAIN SelectedCfg /\ selectedPath # NoPath
    BY <1>5 DEF EditOf, InSelected, SelectedCfg, Empty
  <2>2. CASE own = Shared
    <3> DEFINE block == discovery[selectedPath]
    <3>1. /\ selectedPath \in DOMAIN discovery /\ selectedPath' = selectedPath /\ own' = Shared
          /\ SelectedCfg = block
          /\ discovery' = [discovery EXCEPT ![selectedPath][r] = v]
      BY <2>1, <2>2 DEF SetSelectedValue, CatalogOK, SelectedCfg
    <3>2. block \in BlocksOf(DOMAIN File[selectedPath])
      BY <3>1 DEF CatalogOK
    <3>3. DOMAIN block = DOMAIN File[selectedPath]
      BY <3>2 DEF BlocksOf
    <3>4. [block EXCEPT ![r] = v] \in BlocksOf(DOMAIN File[selectedPath])
      BY <2>1, <3>1, <3>2, <3>3, EditedBlockOf
    <3>5. /\ DOMAIN discovery' = DOMAIN discovery
          /\ discovery'[selectedPath] = [block EXCEPT ![r] = v]
          /\ \A c \in DOMAIN discovery \ {selectedPath} : discovery'[c] = discovery[c]
      BY <3>1
    <3>6. \A c \in DOMAIN discovery' : discovery'[c] \in BlocksOf(DOMAIN File[c])
      BY <3>4, <3>5 DEF CatalogOK
    <3>7. QED
      BY <3>1, <3>5, <3>6 DEF CatalogOK
  <2>3. CASE own # Shared
    <3>1. /\ UNCHANGED <<selectedPath, discovery>>
          /\ own' = [own EXCEPT ![r] = v] /\ own \in Blocks /\ r \in DOMAIN own
      BY <2>1, <2>3 DEF SetSelectedValue, CatalogOK, SelectedCfg
    <3>2. own' \in Blocks
      BY <3>1, EditedBlock
    <3>3. own' # Shared
      BY <3>2, RuntimeAssumption DEF Shared
    <3>4. QED
      BY <3>1, <3>2, <3>3 DEF CatalogOK
  <2>4. QED
    BY <2>2, <2>3
<1>6. QED
  BY <1>1, <1>2, <1>3, <1>4, <1>5 DEF CatalogChange, CallDiscover

-----------------------------------------------------------------------------
(* The servers.                                                            *)

LEMMA NewServerTyped ==
  ASSUME CatalogOK
  PROVE  NewServer \in Runs
BY SelectedShape DEF CatalogOK, NewServer, Unborn, Runs

LEMMA StoreTyped ==
  ASSUME NEW server1 \in Runs, NEW block \in Blocks
  PROVE  [server1 EXCEPT !.store = block] \in Runs
BY DEF Runs

LEMMA SyncTyped ==
  ASSUME ServersOK
  PROVE  Alive \in Starts \union {None} /\ AsyncErr \in Starts \union {None}
         /\ Received \in [Starts -> Runs]
<1>1. Alive \in Starts \union {None} /\ AsyncErr \in Starts \union {None}
  BY DEF ServersOK, Alive, AsyncErr
<1>2. CASE Ended
  <2>1. server \in Starts /\ run[server] \in Runs
    BY <1>2 DEF Ended, ServersOK
  <2>2. [run[server] EXCEPT !.done = "empty"] \in Runs
    BY <2>1 DEF Runs
  <2>3. Received = [run EXCEPT ![server] = [run[server] EXCEPT !.done = "empty"]]
    BY <1>2, <2>1 DEF Received, ServersOK
  <2>4. QED
    BY <1>1, <2>1, <2>2, <2>3 DEF ServersOK
<1>3. CASE ~Ended
  BY <1>1, <1>3 DEF Received, ServersOK
<1>4. QED
  BY <1>2, <1>3

LEMMA EditTyped ==
  ASSUME ServersOK, NEW r, NEW v \in ValuesOf(r), SetRegisterValue(r, v)
  PROVE  ServersOK'
<1>1. server' = Alive /\ lastAsyncErr' = AsyncErr /\ UNCHANGED <<waiting, starts>>
  BY DEF SetRegisterValue
<1>2. CASE run' = Received
  BY <1>1, <1>2, SyncTyped DEF ServersOK
<1>3. CASE run' # Received
  <2>1. /\ Alive # None /\ Alive = server /\ r \in DOMAIN run[Alive].store
        /\ run' = [run EXCEPT ![Alive].store[r] = v]
    BY <1>3 DEF SetRegisterValue, Alive, InServer
  <2>2. Alive \in Starts /\ run[Alive] \in Runs /\ run[Alive].store \in Blocks
    BY <2>1, SyncTyped DEF ServersOK, Runs
  <2>3. [run[Alive].store EXCEPT ![r] = v] \in Blocks
    BY <2>1, <2>2, EditedBlock
  <2>4. [run[Alive] EXCEPT !.store = [run[Alive].store EXCEPT ![r] = v]] \in Runs
    BY <2>2, <2>3, StoreTyped
  <2>5. run' = [run EXCEPT ![Alive] =
                   [run[Alive] EXCEPT !.store = [run[Alive].store EXCEPT ![r] = v]]]
    BY <2>1, <2>2 DEF ServersOK, Runs
  <2>6. run' \in [Starts -> Runs]
    BY <2>4, <2>5 DEF ServersOK
  <2>7. QED
    BY <1>1, <2>6, SyncTyped DEF ServersOK
<1>4. QED
  BY <1>2, <1>3

LEMMA BackgroundTyped ==
  ASSUME ServersOK, NEW g \in Starts, ServerStep(g) \/ ClientStep(g)
  PROVE  ServersOK'
<1>1. run[g] \in Runs /\ run[g].store \in Blocks
  BY DEF ServersOK, Runs
<1>2. ASSUME NEW s \in Runs, Update(g, s)
      PROVE  ServersOK'
  BY <1>2 DEF Update, ServersOK
<1>3. CASE Listen(g)
  <2>1. [run[g] EXCEPT !.phase = "accepting", !.listening = TRUE] \in Runs
    BY <1>1 DEF Runs
  <2>2. QED
    BY <1>2, <1>3, <2>1 DEF Listen
<1>4. CASE ListenFails(g)
  <2>1. [run[g] EXCEPT !.phase = "returned", !.done = "error"] \in Runs
    BY <1>1 DEF Runs
  <2>2. QED
    BY <1>2, <1>4, <2>1 DEF ListenFails
<1>5. CASE CloseListener(g)
  <2>1. [run[g] EXCEPT !.listening = FALSE] \in Runs
    BY <1>1 DEF Runs
  <2>2. QED
    BY <1>2, <1>5, <2>1 DEF CloseListener
<1>6. CASE AcceptReturns(g)
  <2>1. [run[g] EXCEPT !.phase = "returned", !.done = "nil"] \in Runs
    BY <1>1 DEF Runs
  <2>2. QED
    BY <1>2, <1>6, <2>1 DEF AcceptReturns
<1>7. CASE AcceptFails(g)
  <2> DEFINE done == IF run[g].cancelled THEN "nil" ELSE "error"
  <2>1. done \in {"empty", "nil", "error"}
    OBVIOUS
  <2>2. Update(g, [run[g] EXCEPT !.phase = "returned", !.done = done])
    BY <1>7 DEF AcceptFails
  <2> HIDE DEF done
  <2>3. [run[g] EXCEPT !.phase = "returned", !.done = done] \in Runs
    BY <1>1, <2>1 DEF Runs
  <2>4. QED
    BY <1>2, <2>2, <2>3
<1>8. CASE Connect(g) \/ HandlerEnds(g)
  <2>1. \A b \in BOOLEAN : [run[g] EXCEPT !.serving = b] \in Runs
    BY <1>1 DEF Runs
  <2>2. QED
    BY <1>2, <1>8, <2>1 DEF Connect, HandlerEnds
<1>9. CASE Serve(g)
  <2>1. PICK r \in DOMAIN run[g].store : \E v \in ValuesOf(r) :
           Update(g, [run[g] EXCEPT !.store[r] = v])
    BY <1>9 DEF Serve
  <2>2. PICK v \in ValuesOf(r) : Update(g, [run[g] EXCEPT !.store[r] = v])
    BY <2>1
  <2>3. [run[g].store EXCEPT ![r] = v] \in Blocks
    BY <1>1, EditedBlock
  <2>4. [run[g] EXCEPT !.store = [run[g].store EXCEPT ![r] = v]] \in Runs
    BY <1>1, <2>3, StoreTyped
  <2>5. Update(g, [run[g] EXCEPT !.store = [run[g].store EXCEPT ![r] = v]])
    BY <2>2
  <2>6. QED
    BY <1>2, <2>4, <2>5
<1>10. QED
  BY <1>3, <1>4, <1>5, <1>6, <1>7, <1>8, <1>9 DEF ServerStep, ClientStep

LEMMA ServersTyped ==
  ASSUME TypeOK, [Next]_vars
  PROVE  ServersOK'
<1>1. CatalogOK /\ ServersOK /\ DisplayOK
  BY TypeParts
<1>2. ASSUME UNCHANGED serverVars PROVE ServersOK'
  BY <1>1, <1>2 DEF serverVars, ServersOK
<1>3. ASSUME SyncServer \/ SyncState PROVE ServersOK'
  BY <1>1, <1>3, SyncTyped DEF SyncServer, SyncState, ServersOK
<1>4. ASSUME NEW r \in DOMAIN registerRows, ToggleBit(r) PROVE ServersOK'
  <2>1. registerRows[r] \in {0, 1} /\ ValuesOf(r) = {0, 1}
    BY <1>4, BlockValues DEF ToggleBit, TypeOK, ValuesOf
  <2>2. 1 - registerRows[r] \in ValuesOf(r)
    BY <2>1
  <2>3. QED
    BY <1>1, <1>4, <2>2, EditTyped, Zenon DEF ToggleBit
<1>5. ASSUME NEW v \in Values, ApplyEdit(v) PROVE ServersOK'
  <2>1. v \in ValuesOf(editing)
    BY <1>5 DEF ApplyEdit, TypeOK, ValuesOf
  <2>2. QED
    BY <1>1, <1>5, <2>1, EditTyped, Zenon DEF ApplyEdit
<1>6. CASE Tick \/ OperatorStep
  BY <1>2, <1>4, <1>5, <1>6 DEF OperatorStep, Tick, TapStart, TapStop, TapRefreshConfigs,
     TapSelectFolder, CloseWindow, Begin, SelectItem, OpenEditor, CancelEditor
<1>7. CASE CallStart
  <2>1. CASE UNCHANGED serverVars
    BY <1>2, <2>1
  <2>2. CASE Start
    <3>1. /\ starts' = starts + 1 /\ server' = starts + 1 /\ lastAsyncErr' = None
          /\ waiting' = waiting /\ run' = [run EXCEPT ![starts + 1] = NewServer]
          /\ starts < MaxStarts
      BY <2>2 DEF Start
    <3>2. starts + 1 \in Starts /\ starts + 1 \in 0..MaxStarts
      BY <1>1, <3>1, RuntimeAssumption DEF ServersOK, Starts
    <3>3. run' \in [Starts -> Runs]
      BY <1>1, <3>1, NewServerTyped DEF ServersOK
    <3>4. QED
      BY <1>1, <3>1, <3>2, <3>3 DEF ServersOK
  <2>3. QED
    BY <1>7, <2>1, <2>2 DEF CallStart
<1>8. CASE CallStop
  <2>1. CASE CancelServer
    <3>1. /\ waiting' = server /\ server' = None /\ lastAsyncErr' = AsyncErr /\ starts' = starts
          /\ run' = [run EXCEPT ![server].cancelled = TRUE] /\ server # None
      BY <2>1 DEF CancelServer, Alive
    <3>2. server \in Starts /\ run[server] \in Runs
      BY <1>1, <3>1 DEF ServersOK
    <3>3. [run[server] EXCEPT !.cancelled = TRUE] \in Runs
      BY <3>2 DEF Runs
    <3>4. run' \in [Starts -> Runs]
      BY <1>1, <3>1, <3>2, <3>3 DEF ServersOK
    <3>5. QED
      BY <1>1, <3>1, <3>4, SyncTyped DEF ServersOK
  <2>2. QED
    BY <1>3, <1>8, <2>1 DEF CallStop
<1>9. CASE AwaitStop
  <2>1. /\ waiting # None /\ waiting' = None /\ UNCHANGED <<server, lastAsyncErr, starts>>
        /\ run' = [run EXCEPT ![waiting].done = "empty"]
    BY <1>9 DEF AwaitStop, ServerReturned
  <2>2. waiting \in Starts /\ run[waiting] \in Runs
    BY <1>1, <2>1 DEF ServersOK
  <2>3. [run[waiting] EXCEPT !.done = "empty"] \in Runs
    BY <2>2 DEF Runs
  <2>4. run' \in [Starts -> Runs]
    BY <1>1, <2>1, <2>2, <2>3 DEF ServersOK
  <2>5. QED
    BY <1>1, <2>1, <2>4 DEF ServersOK
<1>10. CASE CallStep
  BY <1>2, <1>3, <1>7, <1>8, <1>9, <1>10 DEF CallStep, CallSyncState, CallTrafficSnapshot,
     CallSnapshotData, CallRunning, CallSetRoot, CallDiscover, DiscoverFails, UpdateSelected,
     SelectFirst, SayLoaded, Reselect, Say
<1>11. CASE ServersStep
  BY <1>1, <1>11, BackgroundTyped DEF ServersStep, Background
<1>12. CASE UNCHANGED vars
  BY <1>2, <1>12 DEF vars
<1>13. QED
  BY <1>6, <1>10, <1>11, <1>12 DEF Next

-----------------------------------------------------------------------------
(* What the dashboard shows.                                               *)

LEMMA DisplayTyped ==
  ASSUME TypeOK, [Next]_vars
  PROVE  DisplayOK'
<1>1. CatalogOK /\ ServersOK /\ DisplayOK
  BY TypeParts
<1>2. ASSUME UNCHANGED <<validConfigs, registerRows, editing, shown>>,
             selectedIndex' \in 1..Cardinality(Configs), startEnabled' \in BOOLEAN
      PROVE  DisplayOK'
  BY <1>1, <1>2 DEF DisplayOK
<1>3. ASSUME UNCHANGED <<validConfigs, selectedIndex, registerRows, editing, shown>>,
             startEnabled' \in BOOLEAN
      PROVE  DisplayOK'
  BY <1>1, <1>3 DEF DisplayOK
<1>4. \A i \in 1..Len(validConfigs) : i \in 1..Cardinality(Configs)
  <2>1. Len(validConfigs) \in 1..Cardinality(Configs)
    BY <1>1, ScanShape DEF DisplayOK
  <2>2. Cardinality(Configs) \in Nat
    BY FS_CardinalityType, RuntimeAssumption
  <2>3. QED
    BY <2>1, <2>2
<1>5. 1 \in 1..Cardinality(Configs)
  BY <1>1, <1>4, ScanShape DEF DisplayOK
<1>6. ASSUME NEW r \in DOMAIN registerRows, OpenEditor(r) PROVE DisplayOK'
  <2>1. \E c \in Configs : DOMAIN registerRows = DOMAIN File[c]
    BY <1>1, BlockValues DEF DisplayOK
  <2>2. editing' \in ((UNION {DOMAIN File[c] : c \in Configs}) \ BitRows) \union {NoRow}
    BY <1>6, <2>1 DEF OpenEditor
  <2>3. QED
    BY <1>1, <1>6, <2>2 DEF OpenEditor, listVars, displayVars, historyVars, DisplayOK
<1>7. ASSUME NEW v \in Values, ApplyEdit(v) PROVE DisplayOK'
  <2>1. editing' \in {editing, NoRow} /\ UNCHANGED <<listVars, displayVars, shown>>
    BY <1>7 DEF ApplyEdit
  <2>2. QED
    BY <1>1, <2>1 DEF listVars, displayVars, DisplayOK
<1>8. CASE Tick \/ OperatorStep
  <2>1. CASE CancelEditor
    BY <1>1, <2>1 DEF CancelEditor, listVars, displayVars, historyVars, DisplayOK
  <2>2. ASSUME NEW i \in 1..Len(validConfigs), SelectItem(i) PROVE DisplayOK'
    BY <1>1, <1>2, <1>4, <2>2 DEF SelectItem, historyVars, DisplayOK
  <2>3. ASSUME NEW r \in DOMAIN registerRows, ToggleBit(r) PROVE DisplayOK'
    <3>1. UNCHANGED <<listVars, displayVars, editing, shown>>
      BY <2>3, Zenon DEF ToggleBit
    <3>2. QED
      BY <1>1, <1>3, <3>1 DEF listVars, displayVars, DisplayOK
  <2>4. CASE Tick \/ TapStart \/ TapStop \/ TapRefreshConfigs \/ TapSelectFolder \/ CloseWindow
    <3>1. UNCHANGED <<listVars, displayVars, editing, historyVars>>
      BY <2>4 DEF Tick, TapStart, TapStop, TapRefreshConfigs, TapSelectFolder, CloseWindow, Begin
    <3>2. QED
      BY <1>1, <1>3, <3>1 DEF listVars, displayVars, historyVars, DisplayOK
  <2>5. QED
    BY <1>6, <1>7, <1>8, <2>1, <2>2, <2>3, <2>4 DEF OperatorStep
<1>9. ASSUME NEW g \in Starts \union {None}, Show(g) PROVE shown' \in [Starts -> Nat]
  BY <1>1, <1>9 DEF Show, DisplayOK
<1>10. CASE CallSyncState
  <2>1. shown' \in [Starts -> Nat]
    BY <1>1, <1>9, <1>10, SyncTyped DEF CallSyncState
  <2>2. UNCHANGED <<validConfigs, selectedIndex, registerRows, editing>> /\ startEnabled' \in BOOLEAN
    BY <1>10 DEF CallSyncState, listVars
  <2>3. QED
    BY <1>1, <2>1, <2>2 DEF DisplayOK
<1>11. CASE CallSnapshotData
  <2>1. registerRows' \in Blocks
    <3>1. ASSUME Alive # None PROVE run[Alive].store \in Blocks
      BY <1>1, <3>1, SyncTyped DEF ServersOK, Runs
    <3>2. QED
      BY <1>1, <1>11, <3>1, SelectedShape DEF CallSnapshotData
  <2>2. QED
    BY <1>1, <1>11, <2>1 DEF CallSnapshotData, listVars, historyVars, DisplayOK
<1>12. CASE AwaitStop
  <2>1. shown' \in [Starts -> Nat]
    BY <1>1, <1>9, <1>12 DEF AwaitStop, ServersOK, DisplayOK
  <2>2. UNCHANGED <<validConfigs, selectedIndex, registerRows, editing, startEnabled>>
    BY <1>12 DEF AwaitStop, listVars
  <2>3. QED
    BY <1>1, <2>1, <2>2 DEF DisplayOK
<1>13. CASE CallDiscover
  BY <1>1, <1>13 DEF CallDiscover, displayVars, DisplayOK
<1>14. CASE UpdateSelected \/ SelectFirst \/ SayLoaded
  <2>1. /\ UNCHANGED <<validConfigs, registerRows, editing, shown>>
        /\ startEnabled' \in BOOLEAN
        /\ selectedIndex' \in {selectedIndex, 1}
    BY <1>1, <1>14 DEF UpdateSelected, SelectFirst, SayLoaded, Reselect, historyVars, DisplayOK
  <2>2. QED
    BY <1>1, <1>2, <1>5, <2>1 DEF DisplayOK
<1>15. ASSUME NEW step, NEW label, Say(step, label) PROVE DisplayOK'
  BY <1>1, <1>3, <1>15 DEF Say, listVars, historyVars, DisplayOK
<1>16. CASE CallStart \/ CallTrafficSnapshot \/ CallStop \/ CallRunning
  BY <1>1, <1>3, <1>16 DEF CallStart, CallTrafficSnapshot, CallStop, CallRunning, listVars,
     displayVars, historyVars, DisplayOK
<1>17. CASE CallSetRoot \/ DiscoverFails
  BY <1>1, <1>3, <1>17 DEF CallSetRoot, DiscoverFails, listVars, displayVars, historyVars, DisplayOK
<1>18. CASE ServersStep
  BY <1>1, <1>3, <1>18 DEF ServersStep, Background, listVars, displayVars, historyVars, DisplayOK
<1>19. CASE UNCHANGED vars
  BY <1>1, <1>3, <1>19 DEF vars, listVars, displayVars, historyVars, DisplayOK
<1>20. QED
  BY <1>8, <1>10, <1>11, <1>12, <1>13, <1>14, <1>15, <1>16, <1>17, <1>18, <1>19 DEF Next, CallStep

LEMMA TypeInit == Init => TypeOK
<1> SUFFICES ASSUME Init PROVE TypeOK
  OBVIOUS
<1>1. PICK valid \in Scans : /\ RuntimeInit(valid)
                             /\ validConfigs = valid
                             /\ registerRows = File[valid[1]]
  BY DEF Init
<1>2. /\ Range(valid) \subseteq Configs /\ valid[1] \in Range(valid)
      /\ 1 \in 1..Len(valid) /\ Len(valid) \in 1..Cardinality(Configs)
  BY ScanShape
<1>3. CatalogOK
  BY <1>1, <1>2, FileShape DEF RuntimeInit, CatalogOK
<1>4. ServersOK
  BY <1>1, RuntimeAssumption DEF RuntimeInit, Unborn, Runs, Blocks, ServersOK
<1>5. Cardinality(Configs) \in Nat
  BY FS_CardinalityType, RuntimeAssumption
<1>6. DisplayOK
  BY <1>1, <1>2, <1>5, FileShape DEF Init, DisplayOK
<1>7. QED
  BY <1>3, <1>4, <1>6, TypeParts

\* The dashboard keeps its types (main.go:140-533, runtime.go): what is selected without
\* a block of its own is in the catalog, and every block, the servers' and the table's
\* too, is one that a file could hold, with bits where the file has bits.
THEOREM HmiTyping == Spec => []TypeOK
<1>1. TypeOK /\ [Next]_vars => TypeOK'
  BY TypeParts, CatalogSteps, CatalogTyped, ServersTyped, DisplayTyped, PTL
<1>2. QED
  BY <1>1, TypeInit, PTL DEF Spec

-----------------------------------------------------------------------------
(* The edits.                                                              *)

\* What a configuration holds if it took its edits and nothing else.
WithEdits(c) == [r \in DOMAIN File[c] |-> IF r \in DOMAIN edited[c] THEN edited[c][r]
                                          ELSE File[c][r]]

\* The next call selects one of the configurations that the last scan found.
Reselects == Call("UpdateSelected") \/ Call("SelectFirst")

\* The selection has a block of its own only between a scan and the selection of one
\* of the configurations that it found.
EditsInv ==
    /\ edited = [c \in Configs |-> edited[c]]
    /\ \A c \in DOMAIN discovery : discovery[c] = WithEdits(c)
    /\ DOMAIN discovery \in {{}, Range(validConfigs)}
    /\ own # Shared => DOMAIN discovery # {} /\ Reselects

LEMMA UneditedFile ==
  ASSUME NEW c \in Configs, edited' = NoEdits
  PROVE  File[c] = WithEdits(c)'
<1>1. /\ edited'[c] = Empty /\ DOMAIN Empty = {}
  BY DEF NoEdits, Empty
<1>2. File[c] = [r \in DOMAIN File[c] |-> File[c][r]]
  BY FileShape DEF BlocksOf
<1>3. QED
  BY <1>1, <1>2 DEF WithEdits

\* A step of another kind than those of the callbacks that look at the catalog.
LEMMA ReselectsSteps ==
  ASSUME Queue, [Next]_vars, Reselects
  PROVE  UpdateSelected \/ SelectFirst \/ UNCHANGED <<todo, catalogVars, validConfigs, edited>>
<1>1. ~Idle /\ \A x : Call(x) => x \in {"UpdateSelected", "SelectFirst"}
  BY DEF Reselects, Idle, Call
<1>2. CASE CallStep
  <2>1. \A x \in {"Start", "SyncState", "TrafficSnapshot", "SnapshotData", "Stop", "AwaitStop",
                  "Running", "SetRoot", "Discover", "SayLoaded", "SayRunning", "SayStopped",
                  "SayEdited"} : ~Call(x)
    BY <1>1
  <2>2. QED
    BY <1>2, <2>1 DEF CallStep, CallStart, CallSyncState, CallTrafficSnapshot, CallSnapshotData,
       CallStop, AwaitStop, CallRunning, CallSetRoot, CallDiscover, DiscoverFails, SayLoaded, Say
<1>3. CASE ServersStep
  BY <1>3 DEF ServersStep, Background, ServerStep, ClientStep, Update, Listen, ListenFails,
     CloseListener, AcceptReturns, AcceptFails, Connect, Serve, HandlerEnds, historyVars, listVars
<1>4. CASE UNCHANGED vars
  BY <1>4 DEF vars, historyVars, listVars
<1>5. QED
  BY <1>1, <1>2, <1>3, <1>4, TodoOfTaps DEF Next

LEMMA SelectKeeps ==
  ASSUME TypeOK, EditsInv, NEW c, SelectConfig(c), UNCHANGED <<validConfigs, edited>>,
         own = Shared \/ c \in DOMAIN discovery
  PROVE  EditsInv'
<1>1. own' = Shared
  BY DEF SelectConfig
<1>2. discovery' = discovery
  BY DEF SelectConfig
<1>3. QED
  BY <1>1, <1>2 DEF EditsInv, WithEdits

\* A scan is followed by a selection: this is what Queue says of the calls.
LEMMA DiscoverKeeps ==
  ASSUME TypeOK, Queue, CallDiscover
  PROVE  EditsInv'
<1>1. PICK valid \in Scans : Discover(valid) /\ validConfigs' = valid
  BY DEF CallDiscover
<1>2. edited' = NoEdits /\ todo # <<>> /\ Head(todo) = "Discover" /\ todo' = Tail(todo)
  BY DEF CallDiscover, Call, Continue
<1>3. Reselects'
  <2>1. todo \in Seq(Calls) /\ 1 \in 1..Len(todo) /\ todo[1] = "Discover"
    BY <1>2 DEF Queue, Ordered
  <2>2. 1 < Len(todo) /\ todo[2] \in {"UpdateSelected", "SelectFirst"}
    BY <2>1 DEF Queue, Ordered, Led, MayFollow
  <2>3. todo' # <<>> /\ Head(todo') = todo[2]
    BY <1>2, <2>1, <2>2, SecondCall
  <2>4. QED
    BY <2>2, <2>3 DEF Reselects, Call
<1>4. /\ DOMAIN discovery' = Range(valid) /\ Range(valid) \subseteq Configs /\ Range(valid) # {}
      /\ \A c \in DOMAIN discovery' : discovery'[c] = File[c]
  BY <1>1, ScanShape DEF Discover
<1>5. \A c \in DOMAIN discovery' : discovery'[c] = WithEdits(c)'
  BY <1>2, <1>4, UneditedFile
<1>6. edited' = [c \in Configs |-> edited'[c]]
  BY <1>2 DEF NoEdits
<1>7. QED
  BY <1>1, <1>3, <1>4, <1>5, <1>6 DEF EditsInv

LEMMA EditKept ==
  ASSUME TypeOK, EditsInv, NEW r, NEW v \in ValuesOf(r), EditOf(r, v), UNCHANGED validConfigs
  PROVE  EditsInv'
<1> PICK c : c = selectedPath
  OBVIOUS
<1> DEFINE block == discovery[c]
<1>1. own = Shared
  BY DEF EditOf, Idle, EditsInv, Reselects, Call
<1>2. c # NoPath /\ SelectedCfg = block /\ r \in DOMAIN block
  BY <1>1 DEF EditOf, InSelected, SelectedCfg, Empty
<1>3. c \in DOMAIN discovery /\ c \in Configs
  BY <1>1, <1>2 DEF TypeOK
<1>4. /\ discovery' = [discovery EXCEPT ![c][r] = v] /\ own' = Shared
      /\ edited' = [edited EXCEPT ![c] =
                       [s \in DOMAIN @ \union {r} |-> IF s = r THEN v ELSE @[s]]]
  BY <1>1 DEF EditOf, SetSelectedValue, Noted
<1>5. block = WithEdits(c) /\ DOMAIN block = DOMAIN File[c]
  BY <1>3 DEF EditsInv, WithEdits
<1> DEFINE after == [s \in DOMAIN edited[c] \union {r} |-> IF s = r THEN v ELSE edited[c][s]]
<1>6. edited' = [d \in Configs |-> IF d = c THEN after ELSE edited[d]]
  <2>1. edited' = [edited EXCEPT ![c] = after]
    BY <1>3, <1>4 DEF EditsInv
  <2> HIDE DEF after
  <2>2. DOMAIN edited = Configs
    BY DEF EditsInv
  <2>3. QED
    BY <2>1, <2>2
<1>7. discovery'[c] = WithEdits(c)'
  <2>1. discovery'[c] = [block EXCEPT ![r] = v]
    BY <1>3, <1>4
  <2>2. [block EXCEPT ![r] = v] = [s \in DOMAIN File[c] |-> IF s = r THEN v ELSE block[s]]
    BY <1>5
  <2>3. edited'[c] = after
    BY <1>3, <1>6
  <2> DEFINE new(s) == IF s = r THEN v ELSE block[s]
             kept(s) == IF s \in DOMAIN edited'[c] THEN edited'[c][s] ELSE File[c][s]
  <2>4. ASSUME NEW s \in DOMAIN File[c]
        PROVE  new(s) = kept(s)
    BY <1>5, <2>3 DEF WithEdits
  <2> HIDE DEF new, kept
  <2>5. [s \in DOMAIN File[c] |-> new(s)] = [s \in DOMAIN File[c] |-> kept(s)]
    BY <2>4
  <2>6. QED
    BY <2>1, <2>2, <2>5, Zenon DEF WithEdits, new, kept
<1> HIDE DEF after
<1>8. ASSUME NEW d \in DOMAIN discovery, d # c
      PROVE  discovery'[d] = WithEdits(d)'
  <2>1. discovery'[d] = discovery[d]
    BY <1>4, <1>8
  <2>2. edited'[d] = edited[d]
    BY <1>6, <1>8 DEF TypeOK
  <2>3. WithEdits(d)' = WithEdits(d)
    BY <2>2, Zenon DEF WithEdits
  <2>4. QED
    BY <2>1, <2>3 DEF EditsInv
<1>9. DOMAIN discovery' = DOMAIN discovery
  BY <1>4
<1>10. edited' = [d \in Configs |-> edited'[d]]
  BY <1>6
<1>11. QED
  BY <1>4, <1>7, <1>8, <1>9, <1>10 DEF EditsInv

LEMMA EditsStep ==
  ASSUME TypeOK, Queue, EditsInv, [Next]_vars
  PROVE  EditsInv'
<1>1. ASSUME UNCHANGED <<discovery, own, validConfigs, edited>>, own = Shared \/ UNCHANGED todo
      PROVE  EditsInv'
  BY <1>1 DEF EditsInv, WithEdits, Reselects, Call
<1>2. CASE own # Shared
  <2>1. Reselects /\ Range(validConfigs) = DOMAIN discovery
    BY <1>2 DEF EditsInv
  <2>2. \A i \in 1..Len(validConfigs) : validConfigs[i] \in DOMAIN discovery
    BY <2>1, ScanShape DEF TypeOK
  <2>3. 1 \in 1..Len(validConfigs) /\ selectedIndex \in Nat /\ selectedIndex >= 1
    BY ScanShape DEF TypeOK
  <2>4. ASSUME NEW i \in 1..Len(validConfigs), NEW label, Reselect(i, label)
        PROVE  EditsInv'
    BY <2>2, <2>4, SelectKeeps DEF Reselect, historyVars
  <2>5. CASE UpdateSelected
    <3> DEFINE i == IF selectedIndex <= Len(validConfigs) THEN selectedIndex ELSE 1
    <3>1. i \in 1..Len(validConfigs)
      BY <2>3
    <3>2. QED
      BY <2>4, <2>5, <3>1 DEF UpdateSelected
  <2>6. CASE SelectFirst
    BY <2>3, <2>4, <2>6 DEF SelectFirst
  <2>7. QED
    BY <1>1, <2>1, <2>5, <2>6, ReselectsSteps DEF catalogVars
<1>3. CASE own = Shared
  <2>1. CASE CatalogSame
    BY <1>1, <1>3, <2>1 DEF CatalogSame, catalogVars
  <2>2. CASE SetRoot /\ edited' = NoEdits
    BY <2>2 DEF SetRoot, NoEdits, EditsInv, Empty
  <2>3. CASE CallDiscover
    BY <2>3, DiscoverKeeps
  <2>4. ASSUME NEW c, SelectConfig(c), UNCHANGED <<validConfigs, edited>>
        PROVE  EditsInv'
    BY <1>3, <2>4, SelectKeeps
  <2>5. ASSUME NEW r, NEW v \in ValuesOf(r), EditOf(r, v), UNCHANGED validConfigs
        PROVE  EditsInv'
    BY <2>5, EditKept
  <2>6. QED
    BY <2>1, <2>2, <2>3, <2>4, <2>5, CatalogSteps DEF CatalogChange
<1>4. QED
  BY <1>2, <1>3

\* A configuration keeps the edits that it took until the next scan, and has nothing
\* else: what is selected is the catalog's own block whenever the dashboard is idle,
\* for a scan that leaves the selection with a block of its own is followed by the
\* selection of a configuration that it found (runtime.go:97-108, 268-283).
THEOREM KeepsEdits == Spec => []EditsAreKept
<1>1. Init => TypeOK /\ Queue /\ EditsInv
  <2> SUFFICES ASSUME Init PROVE TypeOK /\ Queue /\ EditsInv
    OBVIOUS
  <2>1. Queue
    BY NothingLeft DEF Init, Queue, Call
  <2>2. PICK valid \in Scans : RuntimeInit(valid) /\ validConfigs = valid
    BY DEF Init
  <2>3. /\ edited = [c \in Configs |-> Empty] /\ own = Shared
        /\ DOMAIN discovery = Range(valid) /\ Range(valid) \subseteq Configs
        /\ \A c \in DOMAIN discovery : discovery[c] = File[c]
    BY <2>2, ScanShape DEF Init, RuntimeInit, NoEdits
  <2>4. ASSUME NEW c \in DOMAIN discovery PROVE discovery[c] = WithEdits(c)
    <3>1. File[c] = [r \in DOMAIN File[c] |-> File[c][r]] /\ edited[c] = Empty
      BY <2>3, FileShape DEF BlocksOf
    <3>2. QED
      BY <2>3, <3>1 DEF WithEdits, Empty
  <2>5. EditsInv
    BY <2>2, <2>3, <2>4 DEF EditsInv
  <2>6. QED
    BY <2>1, <2>5, TypeInit
<1>2. TypeOK /\ Queue /\ EditsInv /\ [Next]_vars => TypeOK' /\ Queue' /\ EditsInv'
  BY TypeParts, CatalogSteps, CatalogTyped, ServersTyped, DisplayTyped, QueueStep, EditsStep, PTL
<1>3. TypeOK /\ EditsInv => EditsAreKept
  <2> SUFFICES ASSUME TypeOK, EditsInv, Idle, selectedPath # NoPath
               PROVE  SelectedCfg = WithEdits(selectedPath)
    BY DEF EditsAreKept, WithEdits
  <2>1. own = Shared
    BY DEF Idle, EditsInv, Reselects, Call
  <2>2. selectedPath \in DOMAIN discovery /\ SelectedCfg = discovery[selectedPath]
    BY <2>1 DEF TypeOK, SelectedCfg
  <2>3. QED
    BY <2>2 DEF EditsInv
<1>4. QED
  BY <1>1, <1>2, <1>3, PTL DEF Spec

-----------------------------------------------------------------------------
(* The edits that are refused.                                             *)

\* The table is about to be drawn.
Pending ==
    \E i \in 1..Len(todo) :
        /\ todo[i] = "SnapshotData"
        /\ \A j \in 1..(i - 1) : todo[j] \in {"SyncState", "TrafficSnapshot"}

RowsInv == server # None => \/ DOMAIN registerRows = DOMAIN run[server].store
                            \/ Pending

\* What may be called while the dialog is open: the ticker's calls and those of the
\* closing of the window.
Harmless == {"SyncState", "TrafficSnapshot", "SnapshotData", "Stop", "AwaitStop", "Gone"}

AllHarmless(q) == \A i \in 1..Len(q) : q[i] \in Harmless

DialogInv ==
    editing # NoRow =>
        /\ AllHarmless(todo)
        /\ server # None => editing \in DOMAIN run[server].store

\* What a step leaves of the server has the rows that it had.
Same == server' # None => /\ server' = server
                          /\ DOMAIN run'[server].store = DOMAIN run[server].store

-----------------------------------------------------------------------------
LEMMA SyncIsSame ==
  ASSUME RunInv, server' = Alive, run' = Received
  PROVE  Same
BY DEF Alive, Received, Same

LEMMA EditIsSame ==
  ASSUME RunInv, NEW r, NEW v, SetRegisterValue(r, v)
  PROVE  Same
<1>1. server' = Alive
  BY DEF SetRegisterValue
<1>2. CASE run' = Received
  BY <1>1, <1>2, SyncIsSame
<1>3. CASE run' # Received
  <2>1. /\ Alive # None /\ server' = server
        /\ run' = [run EXCEPT ![server].store[r] = v]
    BY <1>1, <1>3 DEF SetRegisterValue, Alive
  <2>2. server \in Starts
    BY <2>1, RuntimeAssumption DEF RunInv, Starts, None, Alive
  <2>3. run[server] = [f \in ServerFields |-> run[server][f]]
    BY <2>2 DEF RunInv, IsServer
  <2>4. run'[server] = [run[server] EXCEPT !.store[r] = v]
    BY <2>1, <2>2 DEF RunInv
  <2>5. DOMAIN run'[server].store = DOMAIN run[server].store
    BY <2>3, <2>4 DEF ServerFields
  <2>6. QED
    BY <2>1, <2>5 DEF Same
<1>4. QED
  BY <1>2, <1>3

LEMMA BackgroundIsSame ==
  ASSUME RunInv, NEW g \in Starts, ServerStep(g) \/ ClientStep(g)
  PROVE  Same
<1>1. \E s : Update(g, s)
  BY DEF ServerStep, ClientStep, Listen, ListenFails, CloseListener, AcceptReturns,
         AcceptFails, Connect, Serve, HandlerEnds
<1>2. server' = server /\ \A h \in Starts \ {g} : run'[h] = run[h]
  BY <1>1 DEF Update, RunInv
<1>3. DOMAIN run'[g].store = DOMAIN run[g].store
  <2>1. CASE Listen(g)
    BY <2>1 DEF Listen, Update, RunInv, IsServer, ServerFields
  <2>2. CASE ListenFails(g)
    BY <2>2 DEF ListenFails, Update, RunInv, IsServer, ServerFields
  <2>3. CASE CloseListener(g)
    <3>1. run' = [run EXCEPT ![g] = [run[g] EXCEPT !.listening = FALSE]]
      BY <2>3 DEF CloseListener, Update
    <3>2. QED
      BY <3>1 DEF RunInv, IsServer, ServerFields
  <2>4. CASE AcceptReturns(g)
    BY <2>4 DEF AcceptReturns, Update, RunInv, IsServer, ServerFields
  <2>5. CASE Connect(g) \/ HandlerEnds(g)
    BY <2>5 DEF Connect, HandlerEnds, Update, RunInv, IsServer, ServerFields
  <2>6. CASE Serve(g)
    <3>1. PICK r, v : run' = [run EXCEPT ![g] = [run[g] EXCEPT !.store[r] = v]]
      BY <2>6 DEF Serve, Update
    <3>2. run[g] = [f \in ServerFields |-> run[g][f]]
      BY DEF RunInv, IsServer
    <3>3. run'[g] = [run[g] EXCEPT !.store[r] = v]
      BY <3>1 DEF RunInv
    <3>4. QED
      BY <3>2, <3>3 DEF ServerFields
  <2>7. CASE AcceptFails(g)
    BY <2>7 DEF AcceptFails, Update, RunInv, IsServer, ServerFields
  <2>8. QED
    BY <2>1, <2>2, <2>3, <2>4, <2>5, <2>6, <2>7 DEF ServerStep, ClientStep
<1>4. server' # None => server \in Starts
  BY <1>2, RuntimeAssumption DEF RunInv, Starts, None
<1>5. QED
  BY <1>2, <1>3, <1>4 DEF Same

\* Only Start makes another server.
LEMMA StepIsSame ==
  ASSUME RunInv, [Next]_vars
  PROVE  Same \/ (CallStart /\ Start)
<1>1. ASSUME UNCHANGED serverVars PROVE Same
  BY <1>1 DEF serverVars, Same
<1>2. CASE \/ \E r \in DOMAIN registerRows : ToggleBit(r)
           \/ \E v \in Values : ApplyEdit(v)
  <2>1. PICK r, v : SetRegisterValue(r, v)
    BY <1>2, Zenon DEF ToggleBit, ApplyEdit
  <2>2. QED
    BY <2>1, EditIsSame, Zenon
<1>3. CASE Tick \/ OperatorStep
  BY <1>1, <1>2, <1>3 DEF OperatorStep, Tick, TapStart, TapStop, TapRefreshConfigs,
     TapSelectFolder, CloseWindow, Begin, SelectItem, OpenEditor, CancelEditor
<1>4. CASE CallStart
  BY <1>1, <1>4 DEF CallStart
<1>5. CASE CallSyncState \/ CallTrafficSnapshot \/ CallSnapshotData \/ CallRunning
  BY <1>5, SyncIsSame DEF CallSyncState, CallTrafficSnapshot, CallSnapshotData, CallRunning,
     SyncState, SyncServer
<1>6. CASE CallStop
  BY <1>6, SyncIsSame DEF CallStop, CancelServer, SyncServer, Same
<1>7. CASE AwaitStop
  <2>1. server' = server /\ waiting # None
    BY <1>7 DEF AwaitStop, ServerReturned
  <2>2. server = None
    BY <2>1 DEF RunInv
  <2>3. QED
    BY <2>1, <2>2 DEF Same
<1>8. CASE CallStep
  BY <1>1, <1>4, <1>5, <1>6, <1>7, <1>8 DEF CallStep, CallSetRoot, CallDiscover,
     DiscoverFails, UpdateSelected, SelectFirst, SayLoaded, Reselect, Say
<1>9. CASE ServersStep
  BY <1>9, BackgroundIsSame DEF ServersStep, Background
<1>10. CASE UNCHANGED vars
  BY <1>1, <1>10 DEF vars
<1>11. QED
  BY <1>3, <1>8, <1>9, <1>10 DEF Next

-----------------------------------------------------------------------------
(* The table shows the rows of the server, or is about to.                 *)

LEMMA PendingCalls ==
  ASSUME Ordered(todo), Pending
  PROVE  /\ todo # <<>>
         /\ \A x : Call(x) => x \in {"SyncState", "TrafficSnapshot", "SnapshotData"}
<1>1. PICK i \in 1..Len(todo) : /\ todo[i] = "SnapshotData"
                               /\ \A j \in 1..(i - 1) : todo[j] \in {"SyncState", "TrafficSnapshot"}
  BY DEF Pending
<1>2. Len(todo) \in Nat /\ todo \in Seq(Calls)
  BY DEF Ordered
<1>3. todo # <<>> /\ Head(todo) = todo[1]
  BY <1>1, <1>2
<1>4. todo[1] \in {"SyncState", "TrafficSnapshot", "SnapshotData"}
  BY <1>1, <1>2
<1>5. QED
  BY <1>3, <1>4 DEF Call

LEMMA PendingGoesOn ==
  ASSUME Ordered(todo), Pending, ~Call("SnapshotData"), Continue
  PROVE  Pending'
<1>1. PICK i \in 1..Len(todo) : /\ todo[i] = "SnapshotData"
                               /\ \A j \in 1..(i - 1) : todo[j] \in {"SyncState", "TrafficSnapshot"}
  BY DEF Pending
<1>2. /\ Len(todo) \in Nat /\ todo \in Seq(Calls) /\ todo # <<>> /\ Head(todo) = todo[1]
      /\ todo' = Tail(todo)
  BY PendingCalls DEF Ordered, Continue
<1>3. i # 1
  BY <1>1, <1>2 DEF Call
<1>4. Len(todo') = Len(todo) - 1 /\ \A j \in 1..Len(todo') : todo'[j] = todo[j + 1]
  BY <1>2
<1>5. i - 1 \in 1..Len(todo') /\ todo'[i - 1] = "SnapshotData"
  BY <1>1, <1>2, <1>3, <1>4
<1>6. ASSUME NEW j \in 1..((i - 1) - 1)
      PROVE  todo'[j] \in {"SyncState", "TrafficSnapshot"}
  <2>1. j \in 1..Len(todo') /\ j + 1 \in 1..(i - 1)
    BY <1>1, <1>2, <1>4
  <2>2. QED
    BY <1>1, <1>4, <2>1
<1>7. QED
  BY <1>5, <1>6 DEF Pending

LEMMA FourCalls ==
  ASSUME NEW a, NEW b, NEW c, NEW d
  PROVE  /\ Len(<<a, b, c>> \o <<d>>) = 4
         /\ (<<a, b, c>> \o <<d>>)[1] = a
         /\ (<<a, b, c>> \o <<d>>)[2] = b
         /\ (<<a, b, c>> \o <<d>>)[3] = c
<1>1. <<a, b, c>> \o <<d>> = Append(<<a, b, c>>, d) /\ <<a, b, c, d>> = Append(<<a, b, c>>, d)
  OBVIOUS
<1>2. /\ Len(<<a, b, c, d>>) = 4 /\ <<a, b, c, d>>[1] = a /\ <<a, b, c, d>>[2] = b
      /\ <<a, b, c, d>>[3] = c
  OBVIOUS
<1>3. QED
  BY <1>1, <1>2, Zenon

LEMMA PendingFirst ==
  ASSUME NEW a, a = "SyncState", NEW b, b = "TrafficSnapshot", NEW c, c = "SnapshotData",
         NEW d, todo' = <<a, b, c>> \o <<d>>
  PROVE  Pending'
<1>1. Len(todo') = 4 /\ todo'[1] = a /\ todo'[2] = b /\ todo'[3] = c
  <2> DEFINE q == <<a, b, c>> \o <<d>>
  <2>1. Len(q) = 4 /\ q[1] = a /\ q[2] = b /\ q[3] = c
    BY FourCalls
  <2>2. todo' = q
    OBVIOUS
  <2> HIDE DEF q
  <2>3. QED
    BY <2>1, <2>2
<1>2. 3 \in 1..Len(todo') /\ 1..(3 - 1) = {1, 2}
  BY <1>1
<1>3. QED
  BY <1>1, <1>2 DEF Pending

LEMMA PendingBegins ==
  ASSUME NEW d, todo' = Telemetry \o <<d>>
  PROVE  Pending'
BY PendingFirst, Zenon DEF Telemetry

LEMMA RowsStep ==
  ASSUME Queue, RunInv, RowsInv, [Next]_vars
  PROVE  RowsInv'
<1>1. CASE CallStart /\ Start
  <2>1. CanStart
    BY <1>1 DEF Start
  <2>2. todo' = Telemetry \o <<"SayRunning">>
    BY <1>1, <2>1 DEF CallStart
  <2>3. QED
    BY <2>2, PendingBegins, Zenon DEF RowsInv
<1>2. CASE Same
  <2>1. ASSUME UNCHANGED registerRows, DOMAIN registerRows = DOMAIN run[server].store
        PROVE  RowsInv'
    BY <1>2, <2>1 DEF RowsInv, Same
  <2>2. ASSUME server' = None PROVE RowsInv'
    BY <2>2 DEF RowsInv
  <2>3. CASE CallSnapshotData
    BY <2>3 DEF CallSnapshotData, SyncServer, RowsInv, Alive, Received
  <2>4. ASSUME ~CallSnapshotData PROVE UNCHANGED registerRows
    BY <2>4 DEF Next, Tick, OperatorStep, TapStart, TapStop, TapRefreshConfigs, TapSelectFolder,
       CloseWindow, Begin, SelectItem, OpenEditor, CancelEditor, ToggleBit, ApplyEdit,
       CallStep, CallStart, CallSyncState, CallTrafficSnapshot, CallStop, AwaitStop,
       CallRunning, CallSetRoot, CallDiscover, DiscoverFails, UpdateSelected, SelectFirst,
       SayLoaded, Reselect, Say, ServersStep, Background, displayVars, vars
  <2>5. CASE Pending /\ ~CallSnapshotData
    <3>1. ASSUME todo' = todo PROVE Pending'
      BY <2>5, <3>1 DEF Pending
    <3>2. ~Idle /\ \A x : Call(x) => x \in {"SyncState", "TrafficSnapshot", "SnapshotData"}
      BY <2>5, PendingCalls DEF Queue, Idle
    <3>3. CASE CallSyncState \/ CallTrafficSnapshot
      <4>1. Continue /\ ~Call("SnapshotData")
        BY <3>3 DEF CallSyncState, CallTrafficSnapshot, Call
      <4>2. Pending'
        BY <2>5, <4>1, PendingGoesOn DEF Queue
      <4>3. QED
        BY <4>2 DEF RowsInv
    <3>4. CASE CallStep
      <4>1. \A x \in {"Start", "Stop", "AwaitStop", "Running", "SetRoot", "Discover",
                      "UpdateSelected", "SelectFirst", "SayLoaded", "SayRunning",
                      "SayStopped", "SayEdited"} : ~Call(x)
        BY <3>2
      <4>2. CallSyncState \/ CallTrafficSnapshot \/ CallSnapshotData
        BY <3>4, <4>1 DEF CallStep, CallStart, CallStop, AwaitStop, CallRunning, CallSetRoot,
           CallDiscover, DiscoverFails, UpdateSelected, SelectFirst, SayLoaded, Say
      <4>3. QED
        BY <2>5, <3>3, <4>2
    <3>5. CASE ServersStep
      BY <3>1, <3>5 DEF ServersStep, Background, RowsInv
    <3>6. CASE UNCHANGED vars
      BY <3>1, <3>6 DEF vars, RowsInv
    <3>7. QED
      BY <3>2, <3>4, <3>5, <3>6, TodoOfTaps DEF Next
  <2>6. CASE server = None
    BY <1>2, <2>2, <2>6 DEF Same
  <2>7. QED
    BY <2>1, <2>3, <2>4, <2>5, <2>6 DEF RowsInv
<1>3. QED
  BY <1>1, <1>2, StepIsSame

-----------------------------------------------------------------------------
(* The dialog.                                                             *)

LEMMA HarmlessTail ==
  ASSUME NEW q \in Seq(Calls), q # <<>>, \A i \in 1..Len(q) : q[i] \in Harmless
  PROVE  /\ Head(q) \in Harmless
         /\ \A i \in 1..Len(Tail(q)) : Tail(q)[i] \in Harmless
<1>1. /\ Len(q) \in Nat /\ Len(q) >= 1 /\ Head(q) = q[1]
      /\ Len(Tail(q)) = Len(q) - 1
  OBVIOUS
<1>2. \A i \in 1..Len(Tail(q)) : Tail(q)[i] = q[i + 1]
  OBVIOUS
<1>3. \A i \in 1..Len(Tail(q)) : i + 1 \in 1..Len(q)
  BY <1>1
<1>4. QED
  BY <1>1, <1>2, <1>3

LEMMA HarmlessCons ==
  ASSUME NEW q \in Seq(Calls), \A i \in 1..Len(q) : q[i] \in Harmless,
         NEW s \in Harmless
  PROVE  \A i \in 1..Len(<<s>> \o q) : (<<s>> \o q)[i] \in Harmless
<1> DEFINE t == <<s>> \o q
<1>1. Len(t) = Len(q) + 1 /\ Len(q) \in Nat /\ t[1] = s
  OBVIOUS
<1>2. \A i \in 1..Len(q) : t[i + 1] = q[i]
  OBVIOUS
<1> HIDE DEF t
<1>3. ASSUME NEW i \in 1..Len(t), i # 1
      PROVE  t[i] \in Harmless
  <2>1. i - 1 \in 1..Len(q) /\ (i - 1) + 1 = i
    BY <1>1, <1>3
  <2>2. QED
    BY <1>2, <2>1
<1>4. \A i \in 1..Len(t) : t[i] \in Harmless
  BY <1>1, <1>3
<1>5. QED
  BY <1>4 DEF t

LEMMA HarmlessThree ==
  ASSUME NEW a \in Harmless, NEW b \in Harmless, NEW c \in Harmless
  PROVE  /\ \A i \in 1..Len(<<a, b, c>>) : <<a, b, c>>[i] \in Harmless
         /\ \A i \in 1..Len(<<a, b>>) : <<a, b>>[i] \in Harmless
         /\ \A i \in 1..Len(<<>>) : <<>>[i] \in Harmless
<1>1. 1..3 = {1, 2, 3} /\ 1..2 = {1, 2} /\ 1..0 = {}
  OBVIOUS
<1>2. /\ Len(<<a, b, c>>) = 3 /\ <<a, b, c>>[1] = a /\ <<a, b, c>>[2] = b /\ <<a, b, c>>[3] = c
      /\ Len(<<a, b>>) = 2 /\ <<a, b>>[1] = a /\ <<a, b>>[2] = b
      /\ Len(<<>>) = 0
  OBVIOUS
<1>3. QED
  BY <1>1, <1>2

\* What the calls become while the dialog is open.
LEMMA HarmlessBegins == AllHarmless(<<>>) /\ AllHarmless(Telemetry) /\ AllHarmless(<<"Stop", "Gone">>)
<1>1. {"SyncState", "TrafficSnapshot", "SnapshotData", "Stop", "Gone"} \subseteq Harmless
  BY DEF Harmless
<1>2. QED
  BY <1>1, HarmlessThree, Zenon DEF AllHarmless, Telemetry

LEMMA DialogCalls ==
  ASSUME Queue, AllHarmless(todo), CallStep
  PROVE  /\ CallSyncState \/ CallTrafficSnapshot \/ CallSnapshotData \/ CallStop \/ AwaitStop
         /\ AllHarmless(todo')
<1>1. todo # <<>> /\ todo \in Seq(Calls)
  BY DEF Queue, Ordered, CallStep, CallStart, CallSyncState, CallTrafficSnapshot, CallSnapshotData,
     CallStop, AwaitStop, CallRunning, CallSetRoot, CallDiscover, DiscoverFails, UpdateSelected,
     SelectFirst, SayLoaded, Say, Call
<1>2. Head(todo) \in Harmless /\ AllHarmless(Tail(todo)) /\ Tail(todo) \in Seq(Calls)
  BY <1>1, HarmlessTail DEF AllHarmless
<1>3. \A x \in {"Start", "Running", "SetRoot", "Discover", "UpdateSelected", "SelectFirst",
                "SayLoaded", "SayRunning", "SayStopped", "SayEdited"} : ~Call(x)
  BY <1>2 DEF Call, Harmless
<1>4. CallSyncState \/ CallTrafficSnapshot \/ CallSnapshotData \/ CallStop \/ AwaitStop
  BY <1>3 DEF CallStep, CallStart, CallRunning, CallSetRoot, CallDiscover, DiscoverFails,
     UpdateSelected, SelectFirst, SayLoaded, Say
<1>5. todo' = Tail(todo) \/ todo' = <<>> \/ todo' = <<"AwaitStop">> \o Tail(todo)
  BY <1>4 DEF CallSyncState, CallTrafficSnapshot, CallSnapshotData, CallStop, AwaitStop, Continue
<1>6. AllHarmless(<<"AwaitStop">> \o Tail(todo))
  <2>1. "AwaitStop" \in Harmless
    BY DEF Harmless
  <2>2. QED
    BY <1>2, <2>1, HarmlessCons, Zenon DEF AllHarmless
<1>7. QED
  BY <1>2, <1>4, <1>5, <1>6, HarmlessBegins

LEMMA DialogTaps ==
  ASSUME editing # NoRow, editing' # NoRow, Tick \/ OperatorStep
  PROVE  /\ Tick \/ CloseWindow \/ \E v \in Values : ApplyEdit(v) /\ editing' = editing
         /\ UNCHANGED editing
         /\ AllHarmless(todo) => AllHarmless(todo')
<1>1. CASE Tick
  BY <1>1, HarmlessBegins DEF Tick, Begin
<1>2. CASE CloseWindow
  BY <1>2, HarmlessBegins, Zenon DEF CloseWindow, Begin
<1>3. CASE \E v \in Values : ApplyEdit(v)
  BY <1>3 DEF ApplyEdit
<1>4. QED
  BY <1>1, <1>2, <1>3 DEF OperatorStep, TapStart, TapStop, TapRefreshConfigs, TapSelectFolder,
     SelectItem, OpenEditor, CancelEditor, ToggleBit, AtRest

LEMMA DialogStep ==
  ASSUME Queue, RunInv, RowsInv, DialogInv, [Next]_vars
  PROVE  DialogInv'
<1>1. CASE editing' = NoRow
  BY <1>1 DEF DialogInv
<1>2. ASSUME NEW r \in DOMAIN registerRows, OpenEditor(r) PROVE DialogInv'
  <2>1. /\ todo = <<>> /\ todo' = <<>> /\ editing' = r
        /\ UNCHANGED <<server, run>>
    BY <1>2 DEF OpenEditor, AtRest, Idle, serverVars
  <2>2. ~Pending
    BY <2>1, PendingCalls, NothingLeft
  <2>3. server # None => r \in DOMAIN run[server].store
    BY <2>2 DEF RowsInv
  <2>4. AllHarmless(todo')
    BY <2>1, HarmlessBegins
  <2>5. QED
    BY <2>1, <2>3, <2>4 DEF DialogInv, AllHarmless
<1>3. CASE editing # NoRow /\ editing' # NoRow
  <2>1. AllHarmless(todo)
    BY <1>3 DEF DialogInv, AllHarmless
  <2>2. ASSUME UNCHANGED editing, AllHarmless(todo'), Same PROVE DialogInv'
    BY <1>3, <2>2 DEF DialogInv, AllHarmless, Same
  <2>3. CASE Tick \/ OperatorStep
    <3>1. Same
      BY <2>3, StepIsSame, TodoOfTaps DEF Next, CallStart, Call, Idle
    <3>2. QED
      BY <1>3, <2>1, <2>2, <2>3, <3>1, DialogTaps
  <2>4. CASE CallStep
    <3>1. UNCHANGED editing /\ ~CallStart
      BY <2>1, <2>4, DialogCalls DEF CallSyncState, CallTrafficSnapshot, CallSnapshotData,
         CallStop, AwaitStop, CallStart, Call
    <3>2. QED
      BY <2>1, <2>2, <2>4, <3>1, DialogCalls, StepIsSame
  <2>5. CASE ServersStep
    <3>1. UNCHANGED <<todo, editing>>
      BY <2>5 DEF ServersStep, Background
    <3>2. Same
      BY <2>5, BackgroundIsSame DEF ServersStep, Background
    <3>3. QED
      BY <2>1, <2>2, <3>1, <3>2 DEF AllHarmless
  <2>6. CASE UNCHANGED vars
    BY <2>1, <2>2, <2>6 DEF vars, serverVars, Same, AllHarmless
  <2>7. QED
    BY <2>3, <2>4, <2>5, <2>6 DEF Next
<1>4. CASE editing = NoRow /\ UNCHANGED editing
  BY <1>1, <1>4
<1>5. ASSUME editing = NoRow, ~ \E r \in DOMAIN registerRows : OpenEditor(r)
      PROVE  editing' = NoRow
  BY <1>5 DEF Next, Tick, OperatorStep, TapStart, TapStop, TapRefreshConfigs, TapSelectFolder,
     CloseWindow, Begin, SelectItem, CancelEditor, ToggleBit, ApplyEdit,
     CallStep, CallStart, CallSyncState, CallTrafficSnapshot, CallSnapshotData, CallStop,
     AwaitStop, CallRunning, CallSetRoot, CallDiscover, DiscoverFails, UpdateSelected,
     SelectFirst, SayLoaded, Reselect, Say, ServersStep, Background, vars
<1>6. QED
  BY <1>1, <1>2, <1>3, <1>5

LEMMA RefusedStep ==
  ASSUME Queue, DialogInv, [Next]_vars, editing # NoRow, editing' = editing
  PROVE  UNCHANGED catalogVars
<1>1. AllHarmless(todo)
  BY DEF DialogInv, AllHarmless
<1>2. ASSUME NEW v \in Values, ApplyEdit(v) PROVE UNCHANGED catalogVars
  <2>1. SetRegisterValue(editing, v) /\ ~(InSelected(editing) /\ InServer(editing))
    BY <1>2 DEF ApplyEdit
  <2>2. InServer(editing)
    BY DEF InServer, Alive, DialogInv
  <2>3. QED
    BY <2>1, <2>2 DEF SetRegisterValue
<1>3. CASE Tick \/ OperatorStep
  BY <1>2, <1>3, DialogTaps DEF Tick, CloseWindow, Begin
<1>4. CASE CallStep
  BY <1>1, <1>4, DialogCalls DEF CallSyncState, CallTrafficSnapshot, CallSnapshotData, CallStop,
     AwaitStop
<1>5. CASE ServersStep
  BY <1>5 DEF ServersStep, Background, ServerStep, ClientStep, Update, Listen, ListenFails,
     CloseListener, AcceptReturns, AcceptFails, Connect, Serve, HandlerEnds
<1>6. CASE UNCHANGED vars
  BY <1>6 DEF vars
<1>7. QED
  BY <1>3, <1>4, <1>5, <1>6 DEF Next

\* An edit that is refused changes no configuration, although the configuration is
\* changed before the server is asked: a server that runs has the row that the dialog
\* was opened on (runtime.go:268-294; fynehmi/main.go:157-230).
THEOREM Refused == Spec => RefusedEditsChangeNothing
<1>1. Init => Queue /\ Waits /\ RunInv /\ RowsInv /\ DialogInv
  <2> SUFFICES ASSUME Init PROVE Queue /\ Waits /\ RunInv /\ RowsInv /\ DialogInv
    OBVIOUS
  <2>1. server = None /\ waiting = None /\ todo = <<>> /\ editing = NoRow
    BY DEF Init, RuntimeInit
  <2>2. QED
    BY <2>1, InitRun, NothingLeft DEF Queue, Waits, Call, RowsInv, DialogInv
<1>2. Queue /\ Waits /\ RunInv /\ RowsInv /\ DialogInv /\ [Next]_vars
      => Queue' /\ Waits' /\ RunInv' /\ RowsInv' /\ DialogInv'
  BY QueueStep, WaitsStep, RunStep, RowsStep, DialogStep
<1>3. Queue /\ DialogInv /\ [Next]_vars
      => [(editing # NoRow /\ editing' = editing) => UNCHANGED catalogVars]_vars
  BY RefusedStep
<1>4. QED
  BY <1>1, <1>2, <1>3, PTL DEF Spec, RefusedEditsChangeNothing
=============================================================================
