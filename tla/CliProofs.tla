----------------------------- MODULE CliProofs -----------------------------
(***************************************************************************)
(* Proofs about Cli for any number of processes and launches, any folder   *)
(* and anything that may be typed.                                         *)
(*                                                                         *)
(* A configuration is Good when it passes Validate and has nothing left    *)
(* for applyDefaults to fill in.  What the program has in hand is Good     *)
(* from the moment it is loaded until it is served, and a file that the    *)
(* program wrote holds a Good one or is being written.                     *)
(***************************************************************************)
EXTENDS Cli, TLAPS

IsConfig(c) == c = [f \in Fields |-> c[f]]

\* Nothing is missing.
Filled(c) ==
    /\ \A f \in Texts : c[f] # ""
    /\ \A f \in Numbers : c[f] # 0
    /\ c["behavior"] = "" => c["device_profile"] \notin Profiles

Good(c) == IsConfig(c) /\ Filled(c) /\ Valid(c)

-----------------------------------------------------------------------------
(* The configurations. *)

LEMMA TextsAndNumbers ==
  /\ Texts \subseteq Fields /\ Numbers \subseteq Fields /\ Texts \intersect Numbers = {}
  /\ {"behavior", "unit_ids", "descriptions"} \subseteq Fields \ (Texts \union Numbers)
  /\ {"name", "device_type", "device_profile"} \subseteq Texts /\ "port" \in Numbers
BY DEF Texts, Numbers, Fields

LEMMA DefaultsFill ==
  /\ \A f \in Texts : Defaults[f] # ""
  /\ \A f \in Numbers : Defaults[f] # 0
BY DEF Texts, Numbers, Defaults

LEMMA FillInFills ==
  ASSUME NEW c
  PROVE  /\ IsConfig(FillIn(c))
         /\ \A f \in Texts : FillIn(c)[f] # ""
         /\ \A f \in Numbers : FillIn(c)[f] # 0
BY TextsAndNumbers, DefaultsFill DEF IsConfig, FillIn, Missing

\* applyDefaults leaves nothing missing, whatever it is given.
LEMMA ApplyDefaultsFills ==
  ASSUME NEW c
  PROVE  IsConfig(ApplyDefaults(c)) /\ Filled(ApplyDefaults(c))
<1> DEFINE d == FillIn(c)
<1>1. /\ IsConfig(d)
      /\ \A f \in Texts : d[f] # ""
      /\ \A f \in Numbers : d[f] # 0
  BY FillInFills
<1> HIDE DEF d
<1>2. CASE d["behavior"] = "" /\ d["device_profile"] \in Profiles
  <2>1. ApplyDefaults(c) = [d EXCEPT !["behavior"] = d["device_profile"]]
    BY <1>2 DEF ApplyDefaults, d
  <2>2. d["device_profile"] # ""
    BY <1>1, TextsAndNumbers
  <2> DEFINE e == [d EXCEPT !["behavior"] = d["device_profile"]]
  <2>3. /\ IsConfig(e)
        /\ e["behavior"] = d["device_profile"]
        /\ \A f \in Texts \union Numbers : e[f] = d[f]
    BY <1>1, TextsAndNumbers DEF IsConfig
  <2> HIDE DEF e
  <2>4. QED
    BY <1>1, <2>1, <2>2, <2>3 DEF Filled, e
<1>3. CASE ~(d["behavior"] = "" /\ d["device_profile"] \in Profiles)
  <2>1. ApplyDefaults(c) = d
    BY <1>3 DEF ApplyDefaults, d
  <2>2. QED
    BY <1>1, <1>3, <2>1 DEF Filled
<1>4. QED
  BY <1>2, <1>3

\* A configuration with nothing missing is one that applyDefaults leaves alone.
LEMMA FilledStays ==
  ASSUME NEW c, IsConfig(c), Filled(c)
  PROVE  ApplyDefaults(c) = c
<1>1. \A f \in Fields : ~Missing(c, f)
  BY DEF Missing, Filled
<1>2. FillIn(c) = c
  BY <1>1 DEF FillIn, IsConfig
<1>3. QED
  BY <1>2 DEF ApplyDefaults, Filled

\* What is loaded is Good, and a Good configuration loads as it is.
LEMMA LoadedIsGood == ASSUME NEW file, Loads(file) PROVE Good(Loaded(file))
BY ApplyDefaultsFills DEF Loads, Loaded, Good

LEMMA GoodLoads ==
  ASSUME NEW c, Good(c)
  PROVE  Loads(Whole(c)) /\ Loaded(Whole(c)) = c
BY FilledStays DEF Good, Loads, Loaded, Whole

LEMMA ZeroIsConfig == IsConfig(ZeroConfig)
<1> DEFINE v(f) == CASE f \in Texts \union {"behavior"} -> ""
                     [] f \in Numbers -> 0
                     [] f = "unit_ids" -> <<>>
                     [] f = "descriptions" -> "fit"
<1>1. ZeroConfig = [f \in Fields |-> v(f)]
  BY DEF ZeroConfig
<1> HIDE DEF v
<1>2. QED
  BY <1>1 DEF IsConfig

LEMMA DefaultIsGood == Good(DefaultMS300Config)
<1> DEFINE z == ZeroConfig
           d == ApplyDefaults(z)
<1>1. /\ z["descriptions"] = "fit"
      /\ \A f \in Texts : z[f] = ""
      /\ \A f \in Numbers : z[f] = 0
  BY TextsAndNumbers DEF ZeroConfig
<1>2. /\ \A f \in Texts \union Numbers : FillIn(z)[f] = Defaults[f]
      /\ FillIn(z)["descriptions"] = "fit"
  BY <1>1, TextsAndNumbers DEF FillIn, Missing
<1>3. /\ \A f \in Texts \union Numbers : d[f] = Defaults[f]
      /\ d["descriptions"] = "fit"
  BY <1>2, FillInFills, TextsAndNumbers DEF ApplyDefaults, IsConfig
<1>4. IsConfig(d) /\ Filled(d)
  BY ApplyDefaultsFills
<1>5. DefaultMS300Config = [d EXCEPT !["unit_ids"] = <<1>>]
  BY DEF DefaultMS300Config
<1> HIDE DEF d
<1> DEFINE m == DefaultMS300Config
<1> HIDE DEF m
<1>6. /\ IsConfig(m)
      /\ \A f \in Fields \ {"unit_ids"} : m[f] = d[f]
  BY <1>4, <1>5, TextsAndNumbers DEF IsConfig, m
<1>7. Filled(m)
  BY <1>4, <1>6, TextsAndNumbers DEF Filled
<1>8. /\ Defaults["port"] = 502
      /\ \A f \in Numbers : Defaults[f] \in Nat /\ Defaults[f] >= 1
  BY DEF Defaults, Numbers
<1>9. /\ \A f \in Texts \union Numbers : m[f] = Defaults[f]
      /\ m["descriptions"] = "fit"
  BY <1>3, <1>6, TextsAndNumbers
<1>10. m["port"] \in 1..MaxPort
  <2>1. "port" \in Texts \union Numbers
    BY TextsAndNumbers
  <2>2. m["port"] = 502
    BY <1>8, <1>9, <2>1
  <2>3. QED
    BY <2>2 DEF MaxPort
<1>11. \A f \in Numbers \ {"port"} : m[f] >= 1
  BY <1>8, <1>9
<1>12. m["name"] # "" /\ m["device_type"] # ""
  BY <1>7, TextsAndNumbers DEF Filled
<1>13. m["descriptions"] = "fit"
  BY <1>9
<1>14. Valid(m)
  BY <1>10, <1>11, <1>12, <1>13 DEF Valid
<1>15. QED
  BY <1>6, <1>7, <1>14 DEF Good, m

-----------------------------------------------------------------------------
(* The types. *)

Authors == {"hand", "program", "torn"}

TypeInv ==
    /\ disk = [f \in Files |-> disk[f]]
    /\ author \in [Files -> Authors]
    /\ step \in [Procs -> Steps]
    /\ flag \in [Procs -> BOOLEAN]
    /\ left \in [Procs -> SUBSET Files]
    /\ valid = [p \in Procs |-> valid[p]]
    /\ \A p \in Procs : DOMAIN valid[p] \subseteq Files
    /\ path \in [Procs -> Files \union {NoPath}]
    /\ \A p \in Procs : step[p] \in WithFile => path[p] \in Files
    /\ cfg = [p \in Procs |-> cfg[p]]
    /\ server \in [Procs -> {"none", "starting", "listening", "nil", "error"}]
    /\ ctxDone \in [Procs -> BOOLEAN]
    /\ late \in [Procs -> Nat]

FilesTyped == disk' = [f \in Files |-> disk'[f]] /\ author' \in [Files -> Authors]

\* What the actions have in common: the end of a process, the choice of a
\* configuration for its list or its hand, and the start of its server.
LEMMA EndTypes ==
  ASSUME TypeInv, NEW p \in Procs, End(p), FilesTyped
  PROVE  TypeInv'
<1>1. /\ step' = [step EXCEPT ![p] = "off"]
      /\ valid' = [valid EXCEPT ![p] = NoConfigs]
      /\ path' = [path EXCEPT ![p] = NoPath]
      /\ cfg' = [cfg EXCEPT ![p] = ZeroConfig]
  BY DEF End, Goto, Select
<1>2. DOMAIN NoConfigs = {} 
  BY DEF NoConfigs
<1>3. /\ step' \in [Procs -> Steps] /\ path' \in [Procs -> Files \union {NoPath}]
      /\ \A q \in Procs : step'[q] \in WithFile => path'[q] \in Files
  BY <1>1 DEF TypeInv, Steps, WithFile
<1>4. /\ valid' = [q \in Procs |-> valid'[q]]
      /\ \A q \in Procs : DOMAIN valid'[q] \subseteq Files
  BY <1>1, <1>2 DEF TypeInv
<1>5. cfg' = [q \in Procs |-> cfg'[q]]
  BY <1>1 DEF TypeInv
<1>6. /\ flag' \in [Procs -> BOOLEAN] /\ left' \in [Procs -> SUBSET Files]
      /\ server' \in [Procs -> {"none", "starting", "listening", "nil", "error"}]
      /\ ctxDone' \in [Procs -> BOOLEAN] /\ late' \in [Procs -> Nat]
  BY DEF TypeInv, End
<1>7. QED
  BY <1>3, <1>4, <1>5, <1>6 DEF TypeInv, FilesTyped

LEMMA ResolvedTypes ==
  ASSUME TypeInv, NEW p \in Procs, NEW c, path[p] \in Files, Resolved(p, c), FilesTyped,
         UNCHANGED <<flag, left, server, ctxDone, late>>
  PROVE  TypeInv'
<1>1. CASE flag[p]
  BY <1>1 DEF TypeInv, Resolved, Goto, Steps, Startup, WithFile, FilesTyped
<1>2. CASE ~flag[p]
  <2>1. /\ step' = [step EXCEPT ![p] = "choose"]
        /\ valid' = [valid EXCEPT ![p] = [f \in {path[p]} |-> c]]
        /\ path' = [path EXCEPT ![p] = NoPath]
        /\ cfg' = [cfg EXCEPT ![p] = ZeroConfig]
    BY <1>2 DEF Resolved, Goto, Select
  <2>2. \A q \in Procs : DOMAIN valid'[q] \subseteq Files
    BY <2>1 DEF TypeInv
  <2>3. /\ step' \in [Procs -> Steps] /\ path' \in [Procs -> Files \union {NoPath}]
        /\ \A q \in Procs : step'[q] \in WithFile => path'[q] \in Files
    BY <2>1 DEF TypeInv, Steps, Startup, WithFile
  <2>4. valid' = [q \in Procs |-> valid'[q]] /\ cfg' = [q \in Procs |-> cfg'[q]]
    BY <2>1 DEF TypeInv
  <2>5. QED
    BY <2>2, <2>3, <2>4 DEF TypeInv, FilesTyped
<1>3. QED
  BY <1>1, <1>2

LEMMA ServeTypes ==
  ASSUME TypeInv, NEW p \in Procs, NEW c, Serve(p, c)
  PROVE  TypeInv'
<1>1. /\ step' = [step EXCEPT ![p] = "check"]
      /\ valid' = [valid EXCEPT ![p] = NoConfigs]
      /\ path' = [path EXCEPT ![p] = NoPath]
      /\ cfg' = [cfg EXCEPT ![p] = c]
      /\ flag' = [flag EXCEPT ![p] = FALSE]
      /\ server' = [server EXCEPT ![p] = "starting"]
      /\ UNCHANGED <<disk, author, left, ctxDone, late>>
  BY DEF Serve, Goto, Select, fileVars
<1>2. DOMAIN NoConfigs = {}
  BY DEF NoConfigs
<1>3. /\ step' \in [Procs -> Steps] /\ path' \in [Procs -> Files \union {NoPath}]
      /\ \A q \in Procs : step'[q] \in WithFile => path'[q] \in Files
  BY <1>1 DEF TypeInv, Steps, Runtime, WithFile
<1>4. /\ valid' = [q \in Procs |-> valid'[q]]
      /\ \A q \in Procs : DOMAIN valid'[q] \subseteq Files
  BY <1>1, <1>2 DEF TypeInv
<1>5. QED
  BY <1>1, <1>3, <1>4 DEF TypeInv

Step(p) ==
    \/ Launch(p) \/ Resolve(p) \/ Menus(p) \/ RuntimeMenu(p) \/ ServerStep(p)
    \/ Signal(p) \/ Crash(p)

LEMMA TypeStep ==
  ASSUME TypeInv, NEW p \in Procs, Step(p)
  PROVE  TypeInv'
<1>0. UNCHANGED fileVars => FilesTyped
  BY DEF TypeInv, FilesTyped, fileVars
<1>1. CASE LaunchScan(p)
  BY <1>1 DEF TypeInv, WithFile, Steps, Startup, LaunchScan, Goto, At, fileVars
<1>2. ASSUME NEW f \in Flags, LaunchWithFlag(p, f) PROVE TypeInv'
  BY <1>2, CliAssumption
     DEF TypeInv, WithFile, Steps, Startup, LaunchWithFlag, Goto, At, fileVars
<1>3. ASSUME NEW f \in Files, ScanFile(p, f) PROVE TypeInv'
  BY <1>3 DEF TypeInv, ScanFile, At, fileVars
<1>4. CASE ScanEnds(p)
  <2>1. /\ step[p] = "scan"
        /\ UNCHANGED <<disk, author, flag, left, valid, cfg, server, ctxDone, late>>
        /\ \/ /\ step' = [step EXCEPT ![p] = "load"]
              /\ path' = [path EXCEPT ![p] = DefaultFile]
           \/ step' = [step EXCEPT ![p] = "choose"] /\ path' = path
    BY <1>4 DEF ScanEnds, Goto, At, fileVars
  <2>2. QED
    BY <2>1, CliAssumption DEF TypeInv, WithFile, Steps, Startup
<1>5. CASE LoadExisting(p)
  <2>1. path[p] \in Files
    BY <1>5 DEF LoadExisting, At, TypeInv, WithFile
  <2>2. QED
    BY <1>0, <1>5, <2>1, ResolvedTypes DEF LoadExisting
<1>6. CASE LoadFindsNone(p)
  <2>1. /\ step[p] = "load" /\ step' = [step EXCEPT ![p] = "create"]
        /\ cfg' = [cfg EXCEPT ![p] = DefaultMS300Config]
        /\ UNCHANGED <<disk, author, flag, left, valid, path, server, ctxDone, late>>
    BY <1>6 DEF LoadFindsNone, Goto, At, fileVars
  <2>2. QED
    BY <2>1 DEF TypeInv, WithFile, Steps, Startup
<1>7. CASE LoadFails(p)
  BY <1>0, <1>7, EndTypes DEF LoadFails
<1>8. CASE Truncate(p)
  BY <1>8 DEF TypeInv, Authors, WithFile, Steps, Startup, Truncate, Goto, At
<1>9. CASE Write(p)
  <2>1. path[p] \in Files
    BY <1>9 DEF Write, TypeInv, WithFile
  <2>2. FilesTyped
    BY <1>9 DEF Write, FilesTyped, TypeInv, Authors
  <2>3. CASE At(p, "saving")
    BY <1>9, <2>2, <2>3 DEF Write, Goto, At, TypeInv, FilesTyped, WithFile, Steps, Startup
  <2>4. CASE ~At(p, "saving")
    BY <1>9, <2>1, <2>2, <2>4, ResolvedTypes DEF Write
  <2>5. QED
    BY <2>3, <2>4
<1>10. CASE WriteFails(p)
  <2>1. FilesTyped
    BY <1>0, <1>10 DEF WriteFails, FilesTyped, TypeInv, Authors
  <2>2. CASE End(p)
    BY <2>1, <2>2, EndTypes
  <2>3. CASE ~End(p)
    <3>1. /\ step[p] \in WithFile /\ step' = [step EXCEPT ![p] = "menu"]
          /\ UNCHANGED <<flag, left, valid, path, cfg, server, ctxDone, late>>
      BY <1>10, <2>3 DEF WriteFails, Goto, At, WithFile
    <3>2. QED
      BY <2>1, <3>1 DEF TypeInv, FilesTyped, WithFile, Steps, Startup
  <2>4. QED
    BY <2>2, <2>3
<1>11. ASSUME NEW f \in Files, Choose(p, f) PROVE TypeInv'
  <2>1. /\ step' = [step EXCEPT ![p] = "menu"]
        /\ path' = [path EXCEPT ![p] = f]
        /\ cfg' = [cfg EXCEPT ![p] = valid[p][f]]
        /\ UNCHANGED <<disk, author, flag, left, valid, server, ctxDone, late>>
    BY <1>11 DEF Choose, Goto, Select, fileVars
  <2>2. QED
    BY <2>1 DEF TypeInv, WithFile, Steps, Startup
<1>12. ASSUME NEW e \in Edits, Edit(p, e[1], e[2]) PROVE TypeInv'
  <2>1. cfg' = [q \in Procs |-> cfg'[q]]
    BY <1>12 DEF Edit, TypeInv
  <2>2. QED
    BY <1>12, <2>1 DEF Edit, TypeInv, fileVars
<1>13. CASE StartServer(p)
  BY <1>13, ServeTypes DEF StartServer
<1>14. CASE ChooseAnother(p)
  <2>1. CASE Serve(p, ZeroConfig)
    BY <2>1, ServeTypes
  <2>2. CASE ~Serve(p, ZeroConfig)
    <3>1. /\ step' = [step EXCEPT ![p] = "choose"]
          /\ path' = [path EXCEPT ![p] = NoPath]
          /\ cfg' = [cfg EXCEPT ![p] = ZeroConfig]
          /\ UNCHANGED <<disk, author, flag, left, valid, server, ctxDone, late>>
      BY <1>14, <2>2 DEF ChooseAnother, Goto, Select, fileVars
    <3>2. QED
      BY <3>1 DEF TypeInv, WithFile, Steps, Startup
  <2>3. QED
    BY <2>1, <2>2
<1>15. CASE Quit(p)
  BY <1>0, <1>15, EndTypes DEF Quit
<1>16. CASE Check(p)
  <2>1. CASE End(p)
    BY <1>0, <1>16, <2>1, EndTypes DEF Check
  <2>2. CASE ~End(p)
    BY <1>16, <2>2 DEF Check, Goto, TypeInv, WithFile, Steps, Runtime, fileVars
  <2>3. QED
    BY <2>1, <2>2
<1>17. CASE CarryOut(p)
  <2>1. late' \in [Procs -> Nat]
    BY <1>17 DEF CarryOut, TypeInv
  <2>2. step' \in [Procs -> Steps]
    BY <1>17 DEF CarryOut, Goto, TypeInv, Steps, Runtime
  <2>3. \A q \in Procs : step'[q] \in WithFile => step[q] \in WithFile
    BY <1>17 DEF CarryOut, Goto, TypeInv, WithFile
  <2>4. QED
    BY <1>17, <2>1, <2>2, <2>3 DEF CarryOut, TypeInv, fileVars
<1>18. CASE AskPath(p)
  BY <1>18 DEF TypeInv, WithFile, Steps, Runtime, AskPath, Goto, At, fileVars
<1>19. CASE ChooseExit(p)
  BY <1>19 DEF TypeInv, WithFile, Steps, Runtime, ChooseExit, Goto, At, fileVars
<1>20. CASE AwaitServer(p)
  BY <1>0, <1>20, EndTypes DEF AwaitServer
<1>21. CASE ServerStep(p)
  BY <1>21 DEF TypeInv, ServerStep, Listen, ListenFails, AcceptReturns, AcceptFails,
               ServerBecomes, fileVars
<1>22. CASE Signal(p)
  BY <1>22 DEF TypeInv, Signal, fileVars
<1>23. CASE Crash(p)
  <2>1. FilesTyped
    BY <1>23 DEF Crash, FilesTyped, TypeInv, Authors
  <2>2. QED
    BY <1>23, <2>1, EndTypes DEF Crash
<1>24. QED
  BY <1>1, <1>2, <1>3, <1>4, <1>5, <1>6, <1>7, <1>8, <1>9, <1>10, <1>11, <1>12, <1>13,
     <1>14, <1>15, <1>16, <1>17, <1>18, <1>19, <1>20, <1>21, <1>22, <1>23
     DEF Step, Launch, Resolve, Menus, RuntimeMenu

-----------------------------------------------------------------------------
(* The configurations in hand. *)

HandInv ==
    \A p \in Procs :
        /\ IsConfig(cfg[p])
        /\ \A f \in DOMAIN valid[p] : Good(valid[p][f])
        /\ step[p] \in {"create", "creating", "menu", "saving"} => Good(cfg[p])
        /\ step[p] \in Startup \union {"off"} => server[p] = "none"
        /\ server[p] # "none" => Good(cfg[p]) \/ cfg[p] = ZeroConfig

\* What HandInv says of a process, of its state before or after a step.
HandOf(s, v, c, srv) ==
    /\ IsConfig(c)
    /\ \A f \in DOMAIN v : Good(v[f])
    /\ s \in {"create", "creating", "menu", "saving"} => Good(c)
    /\ s \in Startup \union {"off"} => srv = "none"
    /\ srv # "none" => Good(c) \/ c = ZeroConfig

\* A step of p touches nothing that HandInv says of another process.
LEMMA HandOfOne ==
  ASSUME TypeInv, HandInv, NEW p \in Procs,
         \A q \in Procs \ {p} : /\ step'[q] = step[q] /\ valid'[q] = valid[q]
                                /\ cfg'[q] = cfg[q] /\ server'[q] = server[q],
         HandOf(step'[p], valid'[p], cfg'[p], server'[p])
  PROVE  HandInv'
<1>1. ASSUME NEW q \in Procs
      PROVE  HandOf(step'[q], valid'[q], cfg'[q], server'[q])
  BY DEF HandInv, HandOf
<1>2. QED
  BY <1>1 DEF HandInv, HandOf

\* What was Good and is edited to be valid is Good: what may be edited is not what
\* makes a behaviour missing, and no text is edited to be empty.
LEMMA EditedIsGood ==
  ASSUME NEW c, Good(c), NEW e \in Edits, Valid([c EXCEPT ![e[1]] = e[2]])
  PROVE  Good([c EXCEPT ![e[1]] = e[2]])
<1> DEFINE d == [c EXCEPT ![e[1]] = e[2]]
<1>1. /\ e[1] \in Fields \ {"behavior", "device_profile"}
      /\ e[1] \in Texts => e[2] # ""
  BY CliAssumption, TextsAndNumbers DEF Editable, Texts, Numbers, Fields
<1>2. /\ IsConfig(d)
      /\ d[e[1]] = e[2]
      /\ \A f \in Fields \ {e[1]} : d[f] = c[f]
  BY <1>1 DEF Good, IsConfig
<1>3. Valid(d)
  OBVIOUS
<1> HIDE DEF d
<1>4. \A f \in Numbers : d[f] # 0
  <2>1. \A f \in Numbers \ {"port"} : d[f] >= 1
    BY <1>3 DEF Valid
  <2>2. d["port"] \in 1..MaxPort
    BY <1>3 DEF Valid
  <2>3. MaxPort \in Nat
    BY DEF MaxPort
  <2>4. QED
    BY <2>1, <2>2, <2>3
<1>5. \A f \in Texts : d[f] # ""
  BY <1>1, <1>2, TextsAndNumbers DEF Good, Filled
<1>6. d["behavior"] = c["behavior"] /\ d["device_profile"] = c["device_profile"]
  BY <1>1, <1>2, TextsAndNumbers
<1>7. Filled(d)
  BY <1>4, <1>5, <1>6 DEF Good, Filled
<1>8. QED
  BY <1>2, <1>3, <1>7 DEF Good, d

LEMMA HandStep ==
  ASSUME TypeInv, HandInv, NEW p \in Procs, Step(p)
  PROVE  HandInv'
<1> DEFINE Hand == HandOf(step[p], valid[p], cfg[p], server[p])
           HandNext == HandOf(step'[p], valid'[p], cfg'[p], server'[p])
           Others == \A q \in Procs \ {p} :
                        /\ step'[q] = step[q] /\ valid'[q] = valid[q]
                        /\ cfg'[q] = cfg[q] /\ server'[q] = server[q]
<1>0. Hand
  BY DEF HandInv, HandOf
<1>1. ASSUME HandNext, Others PROVE HandInv'
  BY <1>1, HandOfOne
<1>2. ASSUME End(p) PROVE HandNext /\ Others
  <2>1. /\ step'[p] = "off" /\ valid'[p] = NoConfigs /\ cfg'[p] = ZeroConfig
        /\ server'[p] = "none"
        /\ Others
    BY <1>2 DEF End, Goto, Select, TypeInv
  <2>2. DOMAIN NoConfigs = {}
    BY DEF NoConfigs
  <2>3. QED
    BY <2>1, <2>2, ZeroIsConfig DEF HandOf, Startup
<1>3. ASSUME UNCHANGED <<valid, cfg, server>>, NEW s, step' = [step EXCEPT ![p] = s],
             \/ s \in Runtime
             \/ s \in {"scan", "load", "choose"} /\ step[p] \in Startup \union {"off"}
             \/ /\ s \in {"creating", "menu", "saving"}
                /\ step[p] \in {"create", "creating", "menu", "saving"}
      PROVE  HandNext /\ Others
  BY <1>0, <1>3 DEF HandOf, TypeInv, Startup, Runtime
<1>4. ASSUME NEW c, Good(c), step[p] \in Startup, Resolved(p, c), UNCHANGED server
      PROVE  HandNext /\ Others
  <2>1. Others /\ server'[p] = "none"
    BY <1>0, <1>4 DEF Resolved, Goto, Select, TypeInv, HandOf
  <2>2. CASE flag[p]
    <3>1. step'[p] = "menu" /\ cfg'[p] = c /\ valid'[p] = valid[p]
      BY <1>4, <2>2 DEF Resolved, Goto, TypeInv
    <3>2. QED
      BY <1>0, <1>4, <2>1, <3>1 DEF HandOf, Good
  <2>3. CASE ~flag[p]
    <3>1. /\ step'[p] = "choose" /\ cfg'[p] = ZeroConfig
          /\ valid'[p] = [f \in {path[p]} |-> c]
      BY <1>4, <2>3 DEF Resolved, Goto, Select, TypeInv
    <3>2. \A f \in DOMAIN valid'[p] : Good(valid'[p][f])
      BY <1>4, <3>1
    <3>3. QED
      BY <2>1, <3>1, <3>2, ZeroIsConfig DEF HandOf
  <2>4. QED
    BY <2>2, <2>3
<1>5. ASSUME NEW c, Good(c) \/ c = ZeroConfig, Serve(p, c)
      PROVE  HandNext /\ Others
  <2>1. /\ step'[p] = "check" /\ valid'[p] = NoConfigs /\ cfg'[p] = c
        /\ Others
    BY <1>5 DEF Serve, Goto, Select, TypeInv
  <2>2. DOMAIN NoConfigs = {}
    BY DEF NoConfigs
  <2>3. QED
    BY <1>5, <2>1, <2>2, ZeroIsConfig DEF HandOf, Startup, Good
<1>6. ASSUME NEW s, ServerBecomes(p, s), server[p] # "none" PROVE HandNext /\ Others
  BY <1>0, <1>6 DEF ServerBecomes, HandOf, TypeInv
<1>7. CASE LaunchScan(p)
  BY <1>1, <1>3, <1>7 DEF LaunchScan, At, Goto
<1>8. ASSUME NEW f \in Flags, LaunchWithFlag(p, f) PROVE HandInv'
  BY <1>1, <1>3, <1>8 DEF LaunchWithFlag, At, Goto
<1>9. ASSUME NEW f \in Files, ScanFile(p, f) PROVE HandInv'
  <2>1. CASE Loads(disk[f])
    <3>1. /\ valid' = [valid EXCEPT ![p] = [g \in DOMAIN valid[p] \union {f} |->
                          IF g = f THEN Loaded(disk[f]) ELSE valid[p][g]]]
          /\ UNCHANGED <<step, cfg, server>>
      BY <1>9, <2>1 DEF ScanFile
    <3>2. valid'[p] = [g \in DOMAIN valid[p] \union {f} |->
                          IF g = f THEN Loaded(disk[f]) ELSE valid[p][g]]
      BY <3>1 DEF TypeInv
    <3>3. \A g \in DOMAIN valid'[p] : Good(valid'[p][g])
      BY <1>0, <2>1, <3>2, LoadedIsGood DEF HandOf
    <3>4. HandNext
      BY <1>0, <3>1, <3>3 DEF HandOf
    <3>5. Others
      BY <3>1 DEF TypeInv
    <3>6. QED
      BY <1>1, <3>4, <3>5
  <2>2. CASE ~Loads(disk[f])
    BY <1>0, <1>1, <1>9, <2>2 DEF ScanFile, HandOf
  <2>3. QED
    BY <2>1, <2>2
<1>10. CASE ScanEnds(p)
  BY <1>1, <1>3, <1>10 DEF ScanEnds, At, Goto, Startup
<1>11. CASE LoadExisting(p)
  BY <1>1, <1>4, <1>11, LoadedIsGood DEF LoadExisting, At, Startup
<1>12. CASE LoadFindsNone(p)
  <2>1. /\ step'[p] = "create" /\ step[p] = "load" /\ cfg'[p] = DefaultMS300Config
        /\ UNCHANGED <<valid, server>>
        /\ Others
    BY <1>12 DEF LoadFindsNone, Goto, At, TypeInv
  <2>2. HandNext
    BY <1>0, <2>1, DefaultIsGood DEF HandOf, Startup, Good
  <2>3. QED
    BY <1>1, <2>1, <2>2
<1>13. CASE LoadFails(p) \/ Quit(p) \/ AwaitServer(p) \/ Crash(p)
  BY <1>1, <1>2, <1>13 DEF LoadFails, Quit, AwaitServer, Crash
<1>14. CASE Truncate(p)
  BY <1>1, <1>3, <1>14 DEF Truncate, At, Goto
<1>15. CASE Write(p)
  <2>1. CASE At(p, "saving")
    BY <1>1, <1>3, <1>15, <2>1 DEF Write, At, Goto
  <2>2. CASE ~At(p, "saving")
    <3>1. Resolved(p, cfg[p]) /\ UNCHANGED server /\ step[p] = "creating"
      BY <1>15, <2>2 DEF Write, At
    <3>2. Good(cfg[p])
      BY <1>0, <3>1 DEF HandOf
    <3>3. QED
      BY <1>1, <1>4, <3>1, <3>2 DEF Startup
  <2>3. QED
    BY <2>1, <2>2
<1>16. CASE WriteFails(p)
  <2>1. CASE End(p)
    BY <1>1, <1>2, <2>1
  <2>2. CASE ~End(p)
    <3>1. /\ step[p] \in {"menu", "saving"} /\ step' = [step EXCEPT ![p] = "menu"]
          /\ UNCHANGED <<valid, cfg, server>>
      BY <1>16, <2>2 DEF WriteFails, Goto, At
    <3>2. QED
      BY <1>1, <1>3, <3>1
  <2>3. QED
    BY <2>1, <2>2
<1>17. ASSUME NEW f \in Files, Choose(p, f) PROVE HandInv'
  <2>1. /\ step[p] = "choose" /\ step'[p] = "menu" /\ cfg'[p] = valid[p][f]
        /\ f \in DOMAIN valid[p]
        /\ UNCHANGED <<valid, server>>
        /\ Others
    BY <1>17 DEF Choose, Goto, Select, At, TypeInv
  <2>2. HandNext
    BY <1>0, <2>1 DEF HandOf, Startup, Good
  <2>3. QED
    BY <1>1, <2>1, <2>2
<1>18. ASSUME NEW e \in Edits, Edit(p, e[1], e[2]) PROVE HandInv'
  <2>1. step[p] = "menu" /\ Good(cfg[p]) /\ UNCHANGED <<step, valid, server>>
    BY <1>0, <1>18 DEF Edit, At, HandOf
  <2>2. Others
    BY <1>18, <2>1 DEF Edit, TypeInv
  <2>3. Good(cfg'[p])
    <3> DEFINE edited == [cfg[p] EXCEPT ![e[1]] = e[2]]
    <3>1. Valid(edited) => Good(edited)
      BY <2>1, EditedIsGood
    <3>2. cfg' = IF Valid(edited) THEN [cfg EXCEPT ![p] = edited] ELSE cfg
      BY <1>18 DEF Edit
    <3> HIDE DEF edited
    <3>3. QED
      BY <2>1, <3>1, <3>2 DEF TypeInv
  <2>4. HandNext
    BY <1>0, <2>1, <2>3 DEF HandOf, Good
  <2>5. QED
    BY <1>1, <2>2, <2>4
<1>19. CASE StartServer(p)
  <2>1. Good(cfg[p])
    BY <1>0, <1>19 DEF StartServer, At, HandOf
  <2>2. QED
    BY <1>1, <1>5, <1>19, <2>1 DEF StartServer
<1>20. CASE ChooseAnother(p)
  <2>1. CASE Serve(p, ZeroConfig)
    BY <1>1, <1>5, <2>1
  <2>2. CASE ~Serve(p, ZeroConfig)
    <3>1. /\ step[p] = "menu" /\ step'[p] = "choose" /\ cfg'[p] = ZeroConfig
          /\ UNCHANGED <<valid, server>>
          /\ Others
      BY <1>20, <2>2 DEF ChooseAnother, Goto, Select, At, TypeInv
    <3>2. HandNext
      BY <1>0, <3>1, ZeroIsConfig DEF HandOf, Startup
    <3>3. QED
      BY <1>1, <3>1, <3>2
  <2>3. QED
    BY <2>1, <2>2
<1>21. CASE Check(p)
  <2>1. CASE End(p)
    BY <1>1, <1>2, <2>1
  <2>2. CASE ~End(p)
    <3>1. PICK r \in Runtime : /\ step' = [step EXCEPT ![p] = r]
                              /\ UNCHANGED <<valid, cfg, server>>
      BY <1>21, <2>2 DEF Check, Goto, Runtime
    <3>2. HandNext /\ Others
      BY <1>0, <3>1 DEF HandOf, TypeInv, Startup, Runtime
    <3>3. QED
      BY <1>1, <3>2
  <2>3. QED
    BY <2>1, <2>2
<1>22. CASE CarryOut(p) \/ AskPath(p) \/ ChooseExit(p)
  <2>1. PICK r \in Runtime : /\ step' = [step EXCEPT ![p] = r]
                            /\ UNCHANGED <<valid, cfg, server>>
    BY <1>22 DEF CarryOut, AskPath, ChooseExit, Goto, Runtime
  <2>2. HandNext /\ Others
    BY <1>0, <2>1 DEF HandOf, TypeInv, Startup, Runtime
  <2>3. QED
    BY <1>1, <2>2
<1>23. CASE ServerStep(p)
  BY <1>1, <1>6, <1>23 DEF ServerStep, Listen, ListenFails, AcceptReturns, AcceptFails
<1>24. CASE Signal(p)
  BY <1>0, <1>1, <1>24 DEF Signal, HandOf
<1>25. QED
  BY <1>7, <1>8, <1>9, <1>10, <1>11, <1>12, <1>13, <1>14, <1>15, <1>16, <1>17, <1>18,
     <1>19, <1>20, <1>21, <1>22, <1>23, <1>24
     DEF Step, Launch, Resolve, Menus, RuntimeMenu

-----------------------------------------------------------------------------
(* The files. *)

\* A file that the program wrote is Good, or empty while it is being written.
WrittenWell(f) ==
    \/ \E c : Good(c) /\ disk[f] = Whole(c)
    \/ disk[f] = Empty /\ BeingWritten(f)

DiskInv == \A f \in Files : author[f] = "program" => WrittenWell(f)

\* A process that is not writing does not disturb the writing of another.
LEMMA OthersWrite ==
  ASSUME NEW p \in Procs, step[p] \notin {"creating", "saving"},
         \A q \in Procs \ {p} : step'[q] = step[q] /\ path'[q] = path[q],
         NEW f, BeingWritten(f)
  PROVE  BeingWritten(f)'
BY DEF BeingWritten

LEMMA FilesUntouched ==
  ASSUME DiskInv, NEW p \in Procs, step[p] \notin {"creating", "saving"}, UNCHANGED fileVars,
         \A q \in Procs \ {p} : step'[q] = step[q] /\ path'[q] = path[q]
  PROVE  DiskInv'
BY OthersWrite DEF DiskInv, WrittenWell, fileVars

LEMMA StaysPut ==
  ASSUME DiskInv, UNCHANGED <<fileVars, step, path>>
  PROVE  DiskInv'
BY DEF DiskInv, WrittenWell, BeingWritten, fileVars

\* Of a process in its write, the file that it has truncated.
LEMMA OneFileTouched ==
  ASSUME DiskInv, NEW p \in Procs, NEW f \in Files, path[p] = f,
         \A g \in Files \ {f} : disk'[g] = disk[g] /\ author'[g] = author[g],
         \A q \in Procs \ {p} : step'[q] = step[q] /\ path'[q] = path[q],
         author'[f] = "program" => WrittenWell(f)'
  PROVE  DiskInv'
<1>1. ASSUME NEW g \in Files \ {f}, author'[g] = "program" PROVE WrittenWell(g)'
  <2>1. WrittenWell(g)
    BY <1>1 DEF DiskInv
  <2>2. BeingWritten(g) => BeingWritten(g)'
    BY <1>1 DEF BeingWritten
  <2>3. QED
    BY <1>1, <2>1, <2>2 DEF WrittenWell
<1>2. QED
  BY <1>1 DEF DiskInv

LEMMA DiskStep ==
  ASSUME TypeInv, HandInv, DiskInv, NEW p \in Procs, Step(p)
  PROVE  DiskInv'
<1> DEFINE Others == \A q \in Procs \ {p} : step'[q] = step[q] /\ path'[q] = path[q]
           Writing == step[p] \in {"creating", "saving"}
<1>1. ASSUME UNCHANGED fileVars, ~Writing, Others PROVE DiskInv'
  BY <1>1, FilesUntouched
<1>2. End(p) => Others
  BY DEF End, Goto, Select, TypeInv
<1>3. \A s : Goto(p, s) => \A q \in Procs \ {p} : step'[q] = step[q]
  BY DEF Goto, TypeInv
<1>4. CASE Launch(p)
  BY <1>1, <1>4 DEF Launch, LaunchScan, LaunchWithFlag, Goto, At, TypeInv
<1>5. CASE \E f \in Files : ScanFile(p, f)
  BY <1>5, StaysPut DEF ScanFile
<1>6. CASE ScanEnds(p) \/ LoadFindsNone(p)
  BY <1>1, <1>6 DEF ScanEnds, LoadFindsNone, Goto, At, TypeInv
<1>7. CASE LoadExisting(p)
  BY <1>1, <1>7 DEF LoadExisting, Resolved, Goto, Select, At, TypeInv
<1>8. CASE LoadFails(p) \/ Quit(p) \/ AwaitServer(p)
  BY <1>1, <1>2, <1>8 DEF LoadFails, Quit, AwaitServer, At
<1>9. CASE Truncate(p)
  <2> DEFINE f == path[p]
  <2>1. /\ f \in Files /\ UNCHANGED path
        /\ disk' = [disk EXCEPT ![f] = Empty]
        /\ author' = [author EXCEPT ![f] = "program"]
        /\ step' = [step EXCEPT ![p] = "creating"] \/ step' = [step EXCEPT ![p] = "saving"]
    BY <1>9 DEF Truncate, Goto, At, TypeInv, WithFile
  <2>2. disk'[f] = Empty /\ BeingWritten(f)'
    BY <2>1 DEF BeingWritten, TypeInv
  <2>3. Others /\ \A g \in Files \ {f} : disk'[g] = disk[g] /\ author'[g] = author[g]
    BY <2>1 DEF TypeInv
  <2>4. QED
    BY <2>1, <2>2, <2>3, OneFileTouched DEF WrittenWell
<1>10. CASE Write(p)
  <2>1. PICK f \in Files : f = path[p]
    BY <1>10 DEF Write, TypeInv, WithFile
  <2>2. PICK content \in Written(p) :
            /\ disk' = [disk EXCEPT ![f] = content]
            /\ author' = [author EXCEPT ![f] = IF content = Garbage THEN "torn" ELSE "program"]
    BY <1>10, <2>1 DEF Write
  <2>3. Good(cfg[p])
    BY <1>10 DEF Write, HandInv
  <2>4. content = Whole(cfg[p]) \/ content = Garbage
    BY DEF Written
  <2>5. disk'[f] = content /\ (content = Garbage => author'[f] = "torn")
    BY <2>2 DEF TypeInv
  <2>6. author'[f] = "program" => WrittenWell(f)'
    BY <2>3, <2>4, <2>5 DEF WrittenWell
  <2>7. \A g \in Files \ {f} : disk'[g] = disk[g] /\ author'[g] = author[g]
    BY <2>2 DEF TypeInv
  <2>8. Others
    BY <1>10 DEF Write, Resolved, Goto, Select, TypeInv
  <2>9. QED
    BY <2>1, <2>6, <2>7, <2>8, OneFileTouched
<1>11. CASE WriteFails(p)
  <2> DEFINE f == path[p]
  <2>1. f \in Files /\ Others
    BY <1>2, <1>11 DEF WriteFails, Goto, TypeInv, WithFile
  <2>2. CASE Writing
    <3>1. /\ \E content : disk' = [disk EXCEPT ![f] = content]
          /\ author' = [author EXCEPT ![f] = "torn"]
      BY <1>11, <2>2 DEF WriteFails
    <3>2. author'[f] # "program"
      BY <2>1, <3>1 DEF TypeInv
    <3>3. \A g \in Files \ {f} : disk'[g] = disk[g] /\ author'[g] = author[g]
      BY <3>1 DEF TypeInv
    <3>4. QED
      BY <2>1, <3>2, <3>3, OneFileTouched
  <2>3. CASE ~Writing
    BY <1>1, <1>11, <2>1, <2>3 DEF WriteFails
  <2>4. QED
    BY <2>2, <2>3
<1>12. CASE Menus(p) /\ ~Quit(p)
  <2>1. CASE \E e \in Edits : Edit(p, e[1], e[2])
    BY <2>1, StaysPut DEF Edit
  <2>2. CASE \E f \in Files : Choose(p, f)
    BY <1>1, <2>2 DEF Choose, Goto, Select, At, TypeInv
  <2>3. CASE StartServer(p) \/ ChooseAnother(p)
    BY <1>1, <2>3 DEF StartServer, ChooseAnother, Serve, Goto, Select, At, TypeInv
  <2>4. QED
    BY <1>12, <2>1, <2>2, <2>3 DEF Menus
<1>13. CASE Check(p)
  BY <1>1, <1>2, <1>3, <1>13 DEF Check, At
<1>14. CASE CarryOut(p) \/ AskPath(p) \/ ChooseExit(p)
  BY <1>1, <1>3, <1>14 DEF CarryOut, AskPath, ChooseExit, At
<1>15. CASE ServerStep(p) \/ Signal(p)
  BY <1>15, StaysPut
     DEF ServerStep, Listen, ListenFails, AcceptReturns, AcceptFails, ServerBecomes, Signal
<1>16. CASE Crash(p)
  <2>1. CASE Writing
    <3>1. PICK f \in Files : f = path[p]
      BY <2>1 DEF TypeInv, WithFile
    <3>2. /\ disk' = disk
          /\ author' = IF disk[f] = Empty THEN [author EXCEPT ![f] = "torn"] ELSE author
      BY <1>16, <2>1, <3>1 DEF Crash
    <3>3. author'[f] = "program" => author[f] = "program" /\ disk[f] # Empty
      BY <3>2 DEF TypeInv
    <3>4. author'[f] = "program" => WrittenWell(f)'
      BY <3>2, <3>3 DEF DiskInv, WrittenWell
    <3>5. \A g \in Files \ {f} : disk'[g] = disk[g] /\ author'[g] = author[g]
      BY <3>2 DEF TypeInv
    <3>6. Others
      BY <1>2, <1>16 DEF Crash
    <3>7. QED
      BY <3>1, <3>4, <3>5, <3>6, OneFileTouched
  <2>2. CASE ~Writing
    BY <1>1, <1>2, <1>16, <2>2 DEF Crash, fileVars
  <2>3. QED
    BY <2>1, <2>2
<1>17. QED
  BY <1>4, <1>5, <1>6, <1>7, <1>8, <1>9, <1>10, <1>11, <1>12, <1>13, <1>14, <1>15, <1>16
     DEF Step, Resolve, RuntimeMenu, Menus

-----------------------------------------------------------------------------
(* The signal and the end of the server. *)

\* What has been carried out late was the last thing: the menu looks at its channels
\* next, or the process waits for its server.
LateInv ==
    \A p \in Procs :
        /\ late[p] \in {0, 1}
        /\ late[p] = 1 => step[p] \in {"check", "await"} /\ ShouldEnd(p)

LEMMA LateStep ==
  ASSUME TypeInv, LateInv, NEW p \in Procs, Step(p)
  PROVE  LateInv'
<1> DEFINE Late(q) == /\ late[q] \in {0, 1}
                      /\ late[q] = 1 => step[q] \in {"check", "await"} /\ ShouldEnd(q)
           Others == \A q \in Procs \ {p} :
                        /\ step'[q] = step[q] /\ late'[q] = late[q]
                        /\ server'[q] = server[q] /\ ctxDone'[q] = ctxDone[q]
<1>0. Late(p)
  BY DEF LateInv
<1>1. ASSUME Others, Late(p)' PROVE LateInv'
  BY <1>1 DEF LateInv, ShouldEnd, ServerEnded
<1>2. ASSUME End(p) PROVE LateInv'
  <2>1. Others /\ late'[p] = 0
    BY <1>2 DEF End, Goto, TypeInv
  <2>2. QED
    BY <1>1, <2>1
<1>3. ASSUME NEW s, Goto(p, s), UNCHANGED late,
             UNCHANGED <<ctxDone, server>> \/ late[p] = 0,
             \A q \in Procs \ {p} : server'[q] = server[q] /\ ctxDone'[q] = ctxDone[q],
             late[p] = 0 \/ s \in {"check", "await"}
      PROVE  LateInv'
  BY <1>0, <1>1, <1>3 DEF Goto, TypeInv, ShouldEnd, ServerEnded
<1>4. ASSUME UNCHANGED <<step, late, ctxDone, server>> PROVE LateInv'
  BY <1>4 DEF LateInv, ShouldEnd, ServerEnded
<1>5. ASSUME Resolve(p) \/ Menus(p) \/ Launch(p) PROVE LateInv'
  <2>1. CASE (\E f \in Files : ScanFile(p, f)) \/ (\E e \in Edits : Edit(p, e[1], e[2]))
    BY <1>4, <2>1 DEF ScanFile, Edit
  <2>2. CASE End(p)
    BY <1>2, <2>2
  <2>3. step[p] \notin {"check", "await"}
    BY <1>5 DEF Resolve, Menus, Launch, LaunchScan, LaunchWithFlag, ScanFile, ScanEnds,
                LoadExisting, LoadFindsNone, LoadFails, Truncate, Write, WriteFails, Choose, Edit,
                StartServer, ChooseAnother, Quit, At
  <2>4. CASE \E c : Serve(p, c)
    <3>1. late[p] = 0 /\ Goto(p, "check") /\ UNCHANGED <<late, ctxDone>>
          /\ server' = [server EXCEPT ![p] = "starting"]
      BY <1>0, <2>3, <2>4 DEF Serve
    <3>2. QED
      BY <1>3, <3>1 DEF TypeInv
  <2>5. (\E f \in Files : ScanFile(p, f)) \/ (\E e \in Edits : Edit(p, e[1], e[2]))
        \/ End(p) \/ (\E c : Serve(p, c))
        \/ ((\E s : Goto(p, s)) /\ UNCHANGED <<late, ctxDone, server>>)
    BY <1>5 DEF Resolve, Menus, Launch, LaunchScan, LaunchWithFlag, ScanEnds, LoadExisting,
                LoadFindsNone, LoadFails, Truncate, Write, WriteFails, Choose,
                StartServer, ChooseAnother, Quit, Resolved
  <2>6. CASE (\E s : Goto(p, s)) /\ UNCHANGED <<late, ctxDone, server>>
    BY <1>0, <1>3, <2>3, <2>6
  <2>7. QED
    BY <2>1, <2>2, <2>4, <2>5, <2>6
<1>6. CASE Check(p)
  <2>1. CASE ctxDone[p] /\ Goto(p, "await") /\ UNCHANGED <<server, ctxDone, late>>
    BY <1>3, <2>1
  <2>2. CASE End(p)
    BY <1>2, <2>2
  <2>3. CASE ~ShouldEnd(p) /\ Goto(p, "prompt") /\ UNCHANGED <<server, ctxDone, late>>
    BY <1>0, <1>3, <2>3
  <2>4. QED
    BY <1>6, <2>1, <2>2, <2>3 DEF Check
<1>7. CASE CarryOut(p)
  <2>1. late[p] = 0
    BY <1>0, <1>7 DEF CarryOut
  <2>2. /\ step'[p] = "check" /\ UNCHANGED <<server, ctxDone>>
        /\ \A q \in Procs \ {p} : step'[q] = step[q]
    BY <1>7 DEF CarryOut, Goto, TypeInv
  <2>3. late' = IF ShouldEnd(p) THEN [late EXCEPT ![p] = late[p] + 1] ELSE late
    BY <1>7 DEF CarryOut
  <2>4. Others
    BY <2>2, <2>3 DEF TypeInv
  <2>5. Late(p)'
    BY <2>1, <2>2, <2>3 DEF TypeInv, ShouldEnd, ServerEnded
  <2>6. QED
    BY <1>1, <2>4, <2>5
<1>8. CASE AskPath(p)
  BY <1>0, <1>3, <1>8 DEF AskPath, At
<1>9. CASE ChooseExit(p)
  <2>1. late[p] = 0 /\ Goto(p, "await") /\ UNCHANGED <<server, late>>
        /\ ctxDone' = [ctxDone EXCEPT ![p] = TRUE]
    BY <1>0, <1>9 DEF ChooseExit, At
  <2>2. QED
    BY <1>3, <2>1 DEF TypeInv
<1>10. CASE AwaitServer(p) \/ Crash(p)
  BY <1>2, <1>10 DEF AwaitServer, Crash
<1>11. CASE ServerStep(p)
  <2>1. ~ServerEnded(p) /\ UNCHANGED <<step, late, ctxDone>>
        /\ \A q \in Procs \ {p} : server'[q] = server[q]
    BY <1>11 DEF ServerStep, Listen, ListenFails, AcceptReturns, AcceptFails, ServerBecomes,
                 ServerEnded, TypeInv
  <2>2. QED
    BY <1>0, <1>1, <2>1 DEF ShouldEnd
<1>12. CASE Signal(p)
  <2>1. /\ ctxDone'[p] = TRUE /\ UNCHANGED <<step, late, server>>
        /\ \A q \in Procs \ {p} : ctxDone'[q] = ctxDone[q]
    BY <1>12 DEF Signal, TypeInv
  <2>2. QED
    BY <1>0, <1>1, <2>1 DEF ShouldEnd
<1>13. QED
  BY <1>5, <1>6, <1>7, <1>8, <1>9, <1>10, <1>11, <1>12 DEF Step, RuntimeMenu

-----------------------------------------------------------------------------
(* The theorems. *)

CliInv == TypeInv /\ HandInv /\ DiskInv /\ LateInv

LEMMA CliInvHolds == Spec => []CliInv
<1>1. Init => CliInv
  <2>1. ASSUME Init PROVE TypeInv
    <3>1. DOMAIN NoConfigs = {}
      BY DEF NoConfigs
    <3>2. disk = [f \in Files |-> disk[f]]
      BY <2>1, CliAssumption DEF Init
    <3>3. QED
      BY <2>1, <3>1, <3>2 DEF Init, TypeInv, Authors, Steps, WithFile
  <2>2. ASSUME Init PROVE HandInv
    <3>1. DOMAIN NoConfigs = {}
      BY DEF NoConfigs
    <3>2. QED
      BY <2>2, <3>1, ZeroIsConfig DEF Init, HandInv
  <2>3. ASSUME Init PROVE DiskInv /\ LateInv
    BY <2>3 DEF Init, DiskInv, LateInv
  <2>4. QED
    BY <2>1, <2>2, <2>3 DEF CliInv
<1>2. CliInv /\ [Next]_vars => CliInv'
  <2>1. ASSUME CliInv, NEW p \in Procs, Step(p) PROVE CliInv'
    BY <2>1, TypeStep, HandStep, DiskStep, LateStep DEF CliInv
  <2>2. ASSUME CliInv, UNCHANGED vars PROVE CliInv'
    BY <2>2 DEF CliInv, TypeInv, HandInv, DiskInv, WrittenWell, BeingWritten, LateInv,
                ShouldEnd, ServerEnded, vars, fileVars, procVars
  <2>3. QED
    BY <2>1, <2>2 DEF Next, Step
<1>3. QED
  BY <1>1, <1>2, PTL DEF Spec

\* Every variable keeps its type: a process that has a file in hand has a path to it,
\* and the list of configurations names files of the folder.
THEOREM Typing == Spec => []TypeOK
<1>1. CliInv => TypeOK
  <2>1. ASSUME CliInv, NEW p \in Procs PROVE DOMAIN cfg[p] = Fields
    BY <2>1 DEF CliInv, HandInv, IsConfig
  <2>2. ASSUME CliInv PROVE DOMAIN disk = Files
    BY <2>2 DEF CliInv, TypeInv
  <2>3. QED
    BY <2>1, <2>2 DEF CliInv, TypeInv, TypeOK, Authors
<1>2. QED
  BY <1>1, CliInvHolds, PTL

\* What the program wrote to the end loads again as it was written (config.go:97-134),
\* however many processes write, fail and are killed.
THEOREM LoadsBack == Spec => []WrittenLoadsBack
<1>1. CliInv => WrittenLoadsBack
  BY GoodLoads DEF CliInv, DiskInv, WrittenWell, WrittenLoadsBack
<1>2. QED
  BY <1>1, CliInvHolds, PTL

\* What a server runs was valid when it was started, or is the empty configuration
\* that -config and "choose another" come to (main.go:31-44).
THEOREM Served == Spec => []ServedIsValid
<1>1. CliInv => ServedIsValid
  BY DEF CliInv, HandInv, Good, ServedIsValid
<1>2. QED
  BY <1>1, CliInvHolds, PTL

\* At most one choice is carried out after the signal or the end of the server
\* (main.go:285-305), in each of any number of processes.
THEOREM Noticed == Spec => []NoticedAtNextLine
<1>1. CliInv => NoticedAtNextLine
  BY DEF CliInv, LateInv, NoticedAtNextLine
<1>2. QED
  BY <1>1, CliInvHolds, PTL
=============================================================================
