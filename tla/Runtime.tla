------------------------------ MODULE Runtime ------------------------------
(***************************************************************************)
(* app.Runtime (internal/app/runtime.go): the catalog of configurations,   *)
(* the selected one, and the server that was started from it.  A method    *)
(* is an operator here; who calls which is up to the user interface (Hmi), *)
(* which has one goroutine, so that a method is one step.  Only Stop has   *)
(* two: it clears the server and cancels it, then waits for it to return.  *)
(*                                                                         *)
(* Each Start makes a server with goroutines of its own, which go on       *)
(* while the user interface works: ListenAndServe, the goroutine that      *)
(* closes the listener, and the handlers.  ModbusServer has them in full.  *)
(***************************************************************************)
EXTENDS FiniteSets, Functions, Sequences

CONSTANTS
    Configs,        \* the paths of the configuration files, ordered by number
    File,           \* the register block that each file holds
    Port,           \* the port that each file names
    BitRows,        \* the rows of coils and discrete inputs; the rest are registers
    Values,         \* what a register holds
    Failures,       \* of "listen", "accept": the calls that fail at any time
    MaxStarts,      \* bound: the servers that are started
    NoPath

Starts == 1..MaxStarts
None == 0

ValuesOf(r) == IF r \in BitRows THEN {0, 1} ELSE Values

BlocksOf(rows) ==
    {block \in [rows -> Values \union {0, 1}] : \A r \in rows : block[r] \in ValuesOf(r)}

Empty == [r \in {} |-> None]

Blocks == (UNION {BlocksOf(DOMAIN File[c]) : c \in Configs}) \union {Empty}

ASSUME RuntimeAssumption ==
    /\ Configs \subseteq Nat
    /\ IsFiniteSet(Configs)
    /\ DOMAIN File = Configs
    /\ \A c \in Configs : File[c] \in BlocksOf(DOMAIN File[c])
    /\ DOMAIN Port = Configs
    /\ Failures \subseteq {"listen", "accept"}
    /\ MaxStarts \in Nat
    /\ NoPath \notin Configs \union Blocks

VARIABLES
    discovery,      \* the blocks of the configurations found by the last scan
    selectedPath,
    own,            \* the block of selectedCfg, if it is no longer discovery's
    server,         \* the server, with its cancel and its done, or None
    lastAsyncErr,   \* the server whose error has not been reported, or None
    waiting,        \* the server that Stop waits for, or None
    starts,         \* how many servers have been started
    run             \* the servers

catalogVars == <<discovery, selectedPath, own>>
serverVars == <<server, lastAsyncErr, waiting, starts, run>>

\* Config is copied shallowly: selectedCfg has the Values slice of its entry.
Shared == NoPath

SelectedCfg ==
    CASE selectedPath = NoPath -> Empty
      [] selectedPath # NoPath /\ own = Shared -> discovery[selectedPath]
      [] OTHER -> own

\* done is a channel of one place: what ListenAndServe has returned.
Unborn == [phase |-> "unborn", config |-> NoPath, store |-> Empty, cancelled |-> FALSE,
           listening |-> FALSE, done |-> "empty", serving |-> FALSE]

\* NewServer copies the block.
NewServer == [Unborn EXCEPT !.phase = "starting", !.config = selectedPath, !.store = SelectedCfg]

\* What a scan may find: discovery.Valid, which is sorted by path and never empty.
Scans ==
    {valid \in UNION {[1..n -> Configs] : n \in 1..Cardinality(Configs)} :
        \A i, j \in DOMAIN valid : i < j => valid[i] < valid[j]}

\* NewRuntime, and the scan that every program makes first.
RuntimeInit(valid) ==
    /\ discovery = [c \in Range(valid) |-> File[c]]
    /\ selectedPath = valid[1]
    /\ own = Shared
    /\ server = None
    /\ lastAsyncErr = None
    /\ waiting = None
    /\ starts = 0
    /\ run = [g \in Starts |-> Unborn]

-----------------------------------------------------------------------------
(* The catalog. *)

SetRoot ==
    /\ discovery' = Empty
    /\ selectedPath' = NoPath
    /\ own' = Shared

\* A scan reads fresh blocks.  What was selected stays, with its old block.
Discover(valid) ==
    /\ discovery' = [c \in Range(valid) |-> File[c]]
    /\ IF selectedPath = NoPath
       THEN /\ selectedPath' = valid[1]
            /\ own' = Shared
       ELSE /\ selectedPath' = selectedPath
            /\ own' = SelectedCfg

\* Variant: the configuration is copied with its values.
SelectConfigCopied(c) ==
    /\ discovery' = discovery
    /\ IF c \in DOMAIN discovery
       THEN selectedPath' = c /\ own' = discovery[c]
       ELSE UNCHANGED <<selectedPath, own>>

\* Variant: the path is not looked up.
SelectConfigUnchecked(c) ==
    /\ discovery' = discovery
    /\ selectedPath' = c
    /\ own' = Shared

SelectConfig(c) ==
    /\ discovery' = discovery
    /\ IF c \in DOMAIN discovery
       THEN selectedPath' = c /\ own' = Shared
       ELSE UNCHANGED <<selectedPath, own>>

SetSelectedValue(r, v) ==
    /\ selectedPath' = selectedPath
    /\ IF own = Shared
       THEN discovery' = [discovery EXCEPT ![selectedPath][r] = v] /\ own' = Shared
       ELSE discovery' = discovery /\ own' = [own EXCEPT ![r] = v]

-----------------------------------------------------------------------------
(* syncServerLocked: what is left of the server, its error and its channel *)
(* after a look into done.                                                 *)

Ended == server # None /\ run[server].done # "empty"

Alive == IF Ended THEN None ELSE server

\* Variant: the error is logged and that is all.
AsyncErrLogged == lastAsyncErr

AsyncErr == IF Ended /\ run[server].done = "error" THEN server ELSE lastAsyncErr

Received == IF Ended THEN [run EXCEPT ![server].done = "empty"] ELSE run

SyncServer ==
    /\ server' = Alive
    /\ lastAsyncErr' = AsyncErr
    /\ run' = Received
    /\ UNCHANGED <<waiting, starts>>

\* Variant: the error is not taken.
SyncStateKept ==
    /\ server' = Alive
    /\ lastAsyncErr' = AsyncErr
    /\ run' = Received
    /\ UNCHANGED <<waiting, starts>>

\* SyncServer, and the error is handed over.
SyncState ==
    /\ server' = Alive
    /\ lastAsyncErr' = None
    /\ run' = Received
    /\ UNCHANGED <<waiting, starts>>

-----------------------------------------------------------------------------
(* Start, Stop and the edits. *)

CanStart == server = None /\ selectedPath # NoPath

Start ==
    /\ CanStart
    /\ starts < MaxStarts
    /\ starts' = starts + 1
    /\ server' = starts + 1
    /\ lastAsyncErr' = None
    /\ run' = [run EXCEPT ![starts + 1] = NewServer]
    /\ UNCHANGED waiting

\* Variant: Stop drops the cancel function.
CancelDropped ==
    /\ Alive # None
    /\ waiting' = server
    /\ server' = None
    /\ lastAsyncErr' = AsyncErr
    /\ UNCHANGED <<starts, run>>

\* The first half of Stop, if there is a server.
CancelServer ==
    /\ Alive # None
    /\ waiting' = server
    /\ server' = None
    /\ lastAsyncErr' = AsyncErr
    /\ run' = [run EXCEPT ![server].cancelled = TRUE]
    /\ UNCHANGED starts

\* Variant: Stop does not wait for the server.
ServerNotAwaited ==
    /\ waiting # None
    /\ waiting' = None
    /\ UNCHANGED <<server, lastAsyncErr, starts, run>>

\* The second half.
ServerReturned ==
    /\ waiting # None
    /\ run[waiting].done # "empty"
    /\ run' = [run EXCEPT ![waiting].done = "empty"]
    /\ waiting' = None
    /\ UNCHANGED <<server, lastAsyncErr, starts>>

\* An edit changes the selected configuration first, then the server.
InSelected(r) == r \in DOMAIN SelectedCfg
InServer(r) == Alive # None => r \in DOMAIN run[Alive].store

SetRegisterValue(r, v) ==
    /\ IF InSelected(r) THEN SetSelectedValue(r, v) ELSE UNCHANGED catalogVars
    /\ server' = Alive
    /\ lastAsyncErr' = AsyncErr
    /\ run' = IF Alive # None /\ InSelected(r) /\ InServer(r)
              THEN [run EXCEPT ![Alive].store[r] = v]
              ELSE Received
    /\ UNCHANGED <<waiting, starts>>

-----------------------------------------------------------------------------
(* The goroutines of a server, and its clients. *)

PortFree(g) ==
    ~ \E h \in Starts \ {g} : run[h].listening /\ Port[run[h].config] = Port[run[g].config]

Update(g, server1) ==
    /\ run' = [run EXCEPT ![g] = server1]
    /\ UNCHANGED <<catalogVars, server, lastAsyncErr, waiting, starts>>

Listen(g) ==
    /\ run[g].phase = "starting"
    /\ PortFree(g)
    /\ Update(g, [run[g] EXCEPT !.phase = "accepting", !.listening = TRUE])

ListenFails(g) ==
    /\ run[g].phase = "starting"
    /\ ~PortFree(g) \/ "listen" \in Failures
    /\ Update(g, [run[g] EXCEPT !.phase = "returned", !.done = "error"])

CloseListener(g) ==
    /\ run[g].listening
    /\ run[g].cancelled
    /\ Update(g, [run[g] EXCEPT !.listening = FALSE])

\* Accept fails because the listener is closed.
AcceptReturns(g) ==
    /\ run[g].phase = "accepting"
    /\ ~run[g].listening
    /\ Update(g, [run[g] EXCEPT !.phase = "returned", !.done = "nil"])

\* Accept fails for good; nothing closes the listener before the context ends.
AcceptFails(g) ==
    /\ run[g].phase = "accepting"
    /\ run[g].listening
    /\ "accept" \in Failures
    /\ Update(g, [run[g] EXCEPT !.phase = "returned",
                                !.done = IF run[g].cancelled THEN "nil" ELSE "error"])

Connect(g) ==
    /\ run[g].phase = "accepting"
    /\ run[g].listening
    /\ ~run[g].serving
    /\ Update(g, [run[g] EXCEPT !.serving = TRUE])

\* A client is served, whatever has become of the listener and the context.
Serve(g) ==
    /\ run[g].serving
    /\ \E r \in DOMAIN run[g].store : \E v \in ValuesOf(r) :
          Update(g, [run[g] EXCEPT !.store[r] = v])

\* The client hangs up or falls silent.
HandlerEnds(g) ==
    /\ run[g].serving
    /\ Update(g, [run[g] EXCEPT !.serving = FALSE])

ServerStep(g) ==
    \/ Listen(g) \/ ListenFails(g) \/ CloseListener(g) \/ AcceptReturns(g) \/ AcceptFails(g)

ClientStep(g) == Connect(g) \/ Serve(g) \/ HandlerEnds(g)
=============================================================================
