-------------------------------- MODULE Cli --------------------------------
(***************************************************************************)
(* The command line (cmd/mockserver/main.go), in as many processes as the  *)
(* user launches ("can be launched multiple times", Readme.md), on one     *)
(* folder of configuration files.  Each process scans the folder or loads  *)
(* the file of its -config flag, goes through the menus, and runs a server *)
(* beside its runtime menu.                                                *)
(*                                                                         *)
(* A process can be killed at any time, and a write of a file can fail or  *)
(* be interrupted.  os.WriteFile is two steps: it truncates the file, then *)
(* writes it.  A process that has ended has no state, so that the number   *)
(* of launches is not bounded.  A folder that cannot be scanned ends a     *)
(* process as being killed does.                                           *)
(*                                                                         *)
(* The server is reduced to its listener and to what ListenAndServe puts   *)
(* into serverErr; ModbusServer has the rest.  The sub-menu of the network *)
(* parameters is the one step Edit, in which a field is typed and checked. *)
(***************************************************************************)
EXTENDS ConfigFiles

CONSTANTS
    Procs,
    Files,          \* the paths under the scan root, ordered by number
    DefaultFile,    \* config.default_c.json
    Folders,        \* what the folder may hold at first: written by hand
    Flags,          \* the paths that -config may name
    Edits,          \* <<field, value>>: what may be typed in the edit menu
    NoPath

Editable == {"listen_address", "port", "unit_ids", "protocol", "data_bits", "parity",
             "stop_bits"}

ASSUME CliAssumption ==
    /\ Files \subseteq Nat
    /\ DefaultFile \in Files
    /\ \A d \in Folders : d = [f \in Files |-> d[f]]
    /\ Flags \subseteq Files
    /\ NoPath \notin Files
    \* an empty input to a prompt means the current value
    /\ \A e \in Edits : e[1] \in Editable /\ (e[1] \in Texts => e[2] # "")

VARIABLES
    disk,           \* the files
    step,           \* where each process is, see Steps
    flag,           \* it was launched with -config
    left,           \* the files that its scan has not yet read
    valid,          \* discovery.Valid: the configurations by path
    path, cfg,      \* the configuration in hand
    server,         \* its server, and what is in serverErr
    ctxDone,        \* its signal context is cancelled
    author,         \* history: who wrote each file last: "hand", "program" or,
                    \* when the write was broken off or overlapped, "torn"
    late            \* history: the choices it carried out when it should have ended

procVars == <<step, flag, left, valid, path, cfg, server, ctxDone, late>>
fileVars == <<disk, author>>
vars == <<fileVars, procVars>>

Startup == {"scan", "load", "create", "creating", "choose", "menu", "saving"}
Runtime == {"check", "prompt", "path", "await"}
Steps == {"off"} \union Startup \union Runtime

NoConfigs == [f \in {} |-> ZeroConfig]

Init ==
    /\ disk \in Folders
    /\ author = [f \in Files |-> "hand"]
    /\ step = [p \in Procs |-> "off"]
    /\ flag = [p \in Procs |-> FALSE]
    /\ left = [p \in Procs |-> {}]
    /\ valid = [p \in Procs |-> NoConfigs]
    /\ path = [p \in Procs |-> NoPath]
    /\ cfg = [p \in Procs |-> ZeroConfig]
    /\ server = [p \in Procs |-> "none"]
    /\ ctxDone = [p \in Procs |-> FALSE]
    /\ late = [p \in Procs |-> 0]

At(p, s) == step[p] = s

Goto(p, s) == step' = [step EXCEPT ![p] = s]

Select(p, f, c) ==
    /\ path' = [path EXCEPT ![p] = f]
    /\ cfg' = [cfg EXCEPT ![p] = c]

\* The process ends, whether it returns from main or by a fatal error.
End(p) ==
    /\ Goto(p, "off")
    /\ flag' = [flag EXCEPT ![p] = FALSE]
    /\ left' = [left EXCEPT ![p] = {}]
    /\ valid' = [valid EXCEPT ![p] = NoConfigs]
    /\ Select(p, NoPath, ZeroConfig)
    /\ server' = [server EXCEPT ![p] = "none"]
    /\ ctxDone' = [ctxDone EXCEPT ![p] = FALSE]
    /\ late' = [late EXCEPT ![p] = 0]

-----------------------------------------------------------------------------
(* resolveConfig: a file, or a scan. *)

LaunchWithFlag(p, f) ==
    /\ At(p, "off")
    /\ Goto(p, "load")
    /\ flag' = [flag EXCEPT ![p] = TRUE]
    /\ path' = [path EXCEPT ![p] = f]
    /\ UNCHANGED <<fileVars, left, valid, cfg, server, ctxDone, late>>

\* WalkDir has the names of the folder's files before it visits the first.
LaunchScan(p) ==
    /\ At(p, "off")
    /\ Goto(p, "scan")
    /\ left' = [left EXCEPT ![p] = {f \in Files : disk[f] # Absent}]
    /\ UNCHANGED <<fileVars, flag, valid, path, cfg, server, ctxDone, late>>

\* The next file in the order of the names; what does not load is left out.
ScanFile(p, f) ==
    /\ At(p, "scan")
    /\ f \in left[p]
    /\ \A g \in left[p] : f <= g
    /\ left' = [left EXCEPT ![p] = @ \ {f}]
    /\ valid' = IF Loads(disk[f])
                THEN [valid EXCEPT ![p] =
                         [g \in DOMAIN @ \union {f} |-> IF g = f THEN Loaded(disk[f]) ELSE @[g]]]
                ELSE valid
    /\ UNCHANGED <<fileVars, step, flag, path, cfg, server, ctxDone, late>>

\* Variant: the path of the default configuration is not set.
ScanEndsNowhere(p) ==
    /\ At(p, "scan")
    /\ left[p] = {}
    /\ Goto(p, IF DOMAIN valid[p] = {} THEN "load" ELSE "choose")
    /\ UNCHANGED <<fileVars, flag, left, valid, path, cfg, server, ctxDone, late>>

ScanEnds(p) ==
    /\ At(p, "scan")
    /\ left[p] = {}
    /\ IF DOMAIN valid[p] = {}
       THEN Goto(p, "load") /\ path' = [path EXCEPT ![p] = DefaultFile]
       ELSE Goto(p, "choose") /\ UNCHANGED path
    /\ UNCHANGED <<fileVars, flag, left, valid, cfg, server, ctxDone, late>>

\* What LoadOrCreateConfig returns becomes the configuration in hand, or the only one
\* in the list.
Resolved(p, c) ==
    IF flag[p]
    THEN /\ Goto(p, "menu")
         /\ cfg' = [cfg EXCEPT ![p] = c]
         /\ UNCHANGED <<path, valid>>
    ELSE /\ Goto(p, "choose")
         /\ valid' = [valid EXCEPT ![p] = [f \in {path[p]} |-> c]]
         /\ Select(p, NoPath, ZeroConfig)

LoadExisting(p) ==
    /\ At(p, "load")
    /\ Loads(disk[path[p]])
    /\ Resolved(p, Loaded(disk[path[p]]))
    /\ UNCHANGED <<fileVars, flag, left, server, ctxDone, late>>

\* Only a file that does not exist is created.
LoadFindsNone(p) ==
    /\ At(p, "load")
    /\ disk[path[p]] = Absent
    /\ Goto(p, "create")
    /\ cfg' = [cfg EXCEPT ![p] = DefaultMS300Config]
    /\ UNCHANGED <<fileVars, flag, left, valid, path, server, ctxDone, late>>

LoadFails(p) ==
    /\ At(p, "load")
    /\ disk[path[p]] # Absent
    /\ ~Loads(disk[path[p]])
    /\ End(p)
    /\ UNCHANGED fileVars

-----------------------------------------------------------------------------
(* os.WriteFile, for the default configuration and for option 3 of the menu. *)

Truncate(p) ==
    /\ \/ At(p, "create") /\ Goto(p, "creating")
       \/ At(p, "menu") /\ Goto(p, "saving")
    /\ disk' = [disk EXCEPT ![path[p]] = Empty]
    /\ author' = [author EXCEPT ![path[p]] = "program"]
    /\ UNCHANGED <<flag, left, valid, path, cfg, server, ctxDone, late>>

\* A file that another process has written since the truncation keeps what is
\* longer than this configuration.
Written(p) ==
    IF disk[path[p]] \in {Empty, Whole(cfg[p])} THEN {Whole(cfg[p])}
    ELSE {Whole(cfg[p]), Garbage}

Write(p) ==
    /\ step[p] \in {"creating", "saving"}
    /\ \E content \in Written(p) :
          /\ disk' = [disk EXCEPT ![path[p]] = content]
          /\ author' = [author EXCEPT ![path[p]] =
                           IF content = Garbage THEN "torn" ELSE "program"]
    /\ IF At(p, "saving")
       THEN Goto(p, "menu") /\ UNCHANGED <<valid, path, cfg>>
       ELSE Resolved(p, cfg[p])
    /\ UNCHANGED <<flag, left, server, ctxDone, late>>

\* The file cannot be opened, or is left as it was truncated or half written.
\* The menu goes on after a failure to save; a failure to create is fatal.
WriteFails(p) ==
    /\ \/ step[p] \in {"create", "menu"} /\ UNCHANGED fileVars
       \/ /\ step[p] \in {"creating", "saving"}
          /\ \E content \in {disk[path[p]], Garbage} :
                disk' = [disk EXCEPT ![path[p]] = content]
          /\ author' = [author EXCEPT ![path[p]] = "torn"]
    /\ IF step[p] \in {"create", "creating"}
       THEN End(p)
       ELSE Goto(p, "menu") /\ UNCHANGED <<flag, left, valid, path, cfg, server, ctxDone, late>>

-----------------------------------------------------------------------------
(* The menus before the server. *)

Choose(p, f) ==
    /\ At(p, "choose")
    /\ f \in DOMAIN valid[p]
    /\ Goto(p, "menu")
    /\ Select(p, f, valid[p][f])
    /\ UNCHANGED <<fileVars, flag, left, valid, server, ctxDone, late>>

\* Variant: a change that is refused stays.
EditKept(p, field, value) ==
    /\ At(p, "menu")
    /\ cfg' = [cfg EXCEPT ![p][field] = value]
    /\ UNCHANGED <<fileVars, step, flag, left, valid, path, server, ctxDone, late>>

Edit(p, field, value) ==
    /\ At(p, "menu")
    /\ LET edited == [cfg[p] EXCEPT ![field] = value] IN
       cfg' = IF Valid(edited) THEN [cfg EXCEPT ![p] = edited] ELSE cfg
    /\ UNCHANGED <<fileVars, step, flag, left, valid, path, server, ctxDone, late>>

\* main has the configuration and makes the server.
Serve(p, c) ==
    /\ Goto(p, "check")
    /\ server' = [server EXCEPT ![p] = "starting"]
    /\ flag' = [flag EXCEPT ![p] = FALSE]
    /\ valid' = [valid EXCEPT ![p] = NoConfigs]
    /\ Select(p, NoPath, c)
    /\ UNCHANGED <<fileVars, left, ctxDone, late>>

StartServer(p) == At(p, "menu") /\ Serve(p, cfg[p])

\* Option 4.  With -config there is no list to go back to: resolveConfig drops the
\* answer, and the empty configuration that comes with it is served.
ChooseAnother(p) ==
    /\ At(p, "menu")
    /\ IF flag[p]
       THEN Serve(p, ZeroConfig)
       ELSE /\ Goto(p, "choose")
            /\ Select(p, NoPath, ZeroConfig)
            /\ UNCHANGED <<fileVars, flag, left, valid, server, ctxDone, late>>

\* Quit, or the end of the standard input: a fatal error in every menu.
Quit(p) ==
    /\ step[p] \in {"choose", "menu", "prompt", "path"}
    /\ End(p)
    /\ UNCHANGED fileVars

-----------------------------------------------------------------------------
(* runRuntimeMenu, and the end of main. *)

ServerEnded(p) == server[p] \in {"nil", "error"}

ShouldEnd(p) == ctxDone[p] \/ ServerEnded(p)

\* Variant: the menu takes the server's result and leaves it to main to wait.
CheckConsumes(p) ==
    /\ At(p, "check")
    /\ \/ /\ ctxDone[p]
          /\ Goto(p, "await")
          /\ UNCHANGED <<flag, left, valid, path, cfg, server, ctxDone, late>>
       \/ /\ ServerEnded(p)
          /\ Goto(p, "await")
          /\ server' = [server EXCEPT ![p] = "none"]
          /\ UNCHANGED <<flag, left, valid, path, cfg, ctxDone, late>>
       \/ /\ ~ShouldEnd(p)
          /\ Goto(p, "prompt")
          /\ UNCHANGED <<flag, left, valid, path, cfg, server, ctxDone, late>>
    /\ UNCHANGED fileVars

\* Variant: the menu asks again without a look at the channels.
CheckSkipped(p) ==
    /\ At(p, "check")
    /\ Goto(p, "prompt")
    /\ UNCHANGED <<fileVars, flag, left, valid, path, cfg, server, ctxDone, late>>

\* The select takes any of its ready cases.  A result of the server ends the
\* process, with or without an error.
Check(p) ==
    /\ At(p, "check")
    /\ \/ /\ ctxDone[p]
          /\ Goto(p, "await")
          /\ UNCHANGED <<flag, left, valid, path, cfg, server, ctxDone, late>>
       \/ ServerEnded(p) /\ End(p)
       \/ /\ ~ShouldEnd(p)
          /\ Goto(p, "prompt")
          /\ UNCHANGED <<flag, left, valid, path, cfg, server, ctxDone, late>>
    /\ UNCHANGED fileVars

\* A choice that shows or exports something, or is not one.
CarryOut(p) ==
    /\ step[p] \in {"prompt", "path"}
    /\ Goto(p, "check")
    /\ late' = IF ShouldEnd(p) THEN [late EXCEPT ![p] = @ + 1] ELSE late
    /\ UNCHANGED <<fileVars, flag, left, valid, path, cfg, server, ctxDone>>

\* The export asks for a path first.
AskPath(p) ==
    /\ At(p, "prompt")
    /\ Goto(p, "path")
    /\ UNCHANGED <<fileVars, flag, left, valid, path, cfg, server, ctxDone, late>>

ChooseExit(p) ==
    /\ At(p, "prompt")
    /\ Goto(p, "await")
    /\ ctxDone' = [ctxDone EXCEPT ![p] = TRUE]
    /\ UNCHANGED <<fileVars, flag, left, valid, path, cfg, server, late>>

\* main receives from serverErr.
AwaitServer(p) ==
    /\ At(p, "await")
    /\ ServerEnded(p)
    /\ End(p)
    /\ UNCHANGED fileVars

-----------------------------------------------------------------------------
(* The goroutine of the server. *)

PortTaken(p) ==
    /\ cfg[p]["port"] # 0
    /\ \E q \in Procs \ {p} : server[q] = "listening" /\ cfg[q]["port"] = cfg[p]["port"]

ServerBecomes(p, s) ==
    /\ server' = [server EXCEPT ![p] = s]
    /\ UNCHANGED <<fileVars, step, flag, left, valid, path, cfg, ctxDone, late>>

Listen(p) == server[p] = "starting" /\ ~PortTaken(p) /\ ServerBecomes(p, "listening")

ListenFails(p) == server[p] = "starting" /\ ServerBecomes(p, "error")

AcceptReturns(p) == server[p] = "listening" /\ ctxDone[p] /\ ServerBecomes(p, "nil")

AcceptFails(p) == server[p] = "listening" /\ ~ctxDone[p] /\ ServerBecomes(p, "error")

(* The world. *)

Signal(p) ==
    /\ step[p] \in Runtime
    /\ ~ctxDone[p]
    /\ ctxDone' = [ctxDone EXCEPT ![p] = TRUE]
    /\ UNCHANGED <<fileVars, step, flag, left, valid, path, cfg, server, late>>

\* The process is killed; in the menus before the server, by any signal.
Crash(p) ==
    /\ ~At(p, "off")
    /\ End(p)
    /\ author' = IF step[p] \in {"creating", "saving"} /\ disk[path[p]] = Empty
                 THEN [author EXCEPT ![path[p]] = "torn"] ELSE author
    /\ UNCHANGED disk

-----------------------------------------------------------------------------
Launch(p) == LaunchScan(p) \/ \E f \in Flags : LaunchWithFlag(p, f)

Resolve(p) ==
    \/ \E f \in Files : ScanFile(p, f)
    \/ ScanEnds(p) \/ LoadExisting(p) \/ LoadFindsNone(p) \/ LoadFails(p)
    \/ Truncate(p) \/ Write(p) \/ WriteFails(p)

Menus(p) ==
    \/ \E f \in Files : Choose(p, f)
    \/ \E e \in Edits : Edit(p, e[1], e[2])
    \/ StartServer(p) \/ ChooseAnother(p) \/ Quit(p)

RuntimeMenu(p) ==
    \/ Check(p) \/ CarryOut(p) \/ AskPath(p) \/ ChooseExit(p) \/ AwaitServer(p)

ServerStep(p) == Listen(p) \/ ListenFails(p) \/ AcceptReturns(p) \/ AcceptFails(p)

Next ==
    \E p \in Procs :
        Launch(p) \/ Resolve(p) \/ Menus(p) \/ RuntimeMenu(p) \/ ServerStep(p)
        \/ Signal(p) \/ Crash(p)

Spec == Init /\ [][Next]_vars

\* The goroutines of a process go on.  The operator owes nothing.
Fairness ==
    \A p \in Procs :
        /\ WF_vars(Check(p) \/ AwaitServer(p))
        /\ WF_vars(Listen(p) \/ ListenFails(p))
        /\ WF_vars(AcceptReturns(p))

FairSpec == Spec /\ Fairness

-----------------------------------------------------------------------------
\* The steps in which a process has a file in hand.
WithFile == {"load", "create", "creating", "menu", "saving"}

TypeOK ==
    /\ DOMAIN disk = Files
    /\ author \in [Files -> {"hand", "program", "torn"}]
    /\ step \in [Procs -> Steps]
    /\ flag \in [Procs -> BOOLEAN]
    /\ left \in [Procs -> SUBSET Files]
    /\ \A p \in Procs : DOMAIN valid[p] \subseteq Files
    /\ path \in [Procs -> Files \union {NoPath}]
    /\ \A p \in Procs : step[p] \in WithFile => path[p] \in Files
    /\ \A p \in Procs : DOMAIN cfg[p] = Fields
    /\ server \in [Procs -> {"none", "starting", "listening", "nil", "error"}]
    /\ ctxDone \in [Procs -> BOOLEAN]
    /\ late \in [Procs -> Nat]

BeingWritten(f) == \E p \in Procs : step[p] \in {"creating", "saving"} /\ path[p] = f

\* A file that the program wrote to the end loads again, and as exactly what was
\* written, so that what one launch saves every later one offers.  applyDefaults
\* takes a zero for a missing value, but no configuration that the menus let
\* through has one (config.go:97-134 against 136-226, main.go:408-504).
WrittenLoadsBack ==
    \A f \in Files :
        (author[f] = "program" /\ ~BeingWritten(f)) =>
            Loads(disk[f]) /\ disk[f] = Whole(Loaded(disk[f]))

\* What a server runs passes Validate, although the user may have edited it, saved
\* it, gone back to an older copy of it, or started it while another process was
\* writing it; or it is the empty configuration of ChooseAnother (main.go:31-44).
ServedIsValid ==
    \A p \in Procs : server[p] # "none" => Valid(cfg[p]) \/ cfg[p] = ZeroConfig

\* A signal, or the end of the server, is noticed with the next line: however the
\* steps of the operator, the server and the signal mix, at most one more choice
\* is carried out (the select of main.go:285-294 before the read of 305).
NoticedAtNextLine == \A p \in Procs : late[p] <= 1

\* A server runs one of the configurations that could be chosen: "presents a menu
\* so you can choose which server profile to start" (Readme.md:37) and "4. Choose
\* another config" (main.go:192).
ServedWasChosen == \A p \in Procs : server[p] # "none" => Valid(cfg[p])

\* Once the menu is left on the user's demand or by a signal, the process ends:
\* the wait for serverErr is not for ever (main.go:54-58).
ExitEnds == \A p \in Procs : At(p, "await") ~> At(p, "off")
=============================================================================
