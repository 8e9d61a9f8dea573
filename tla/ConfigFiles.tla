---------------------------- MODULE ConfigFiles ----------------------------
(***************************************************************************)
(* Configurations and the files that hold them (internal/modbus/config.go, *)
(* lines 11 to 226).  A configuration is a function over its fields.  The  *)
(* sections network and connection are flattened, the behaviour is named   *)
(* by the profile that it is the default of, and the four blocks are       *)
(* reduced to whether their descriptions fit their values, the one thing   *)
(* that is checked about them.                                             *)
(*                                                                         *)
(* A file holds a configuration as it was written, or it is absent, or it  *)
(* is Empty (created or truncated, and not yet written), or it is Garbage  *)
(* that json.Unmarshal refuses.                                            *)
(***************************************************************************)
EXTENDS Integers, Sequences

Texts == {"name", "device_type", "device_profile", "listen_address", "log_level",
          "protocol", "parity"}

Numbers == {"port", "max_clients", "idle_timeout_ms", "data_bits", "stop_bits"}

Fields == Texts \union Numbers \union {"unit_ids", "behavior", "descriptions"}

\* Config{}, and what json.Unmarshal leaves of a field that the file lacks.
ZeroConfig ==
    [f \in Fields |-> CASE f \in Texts \union {"behavior"} -> ""
                        [] f \in Numbers -> 0
                        [] f = "unit_ids" -> <<>>
                        [] f = "descriptions" -> "fit"]

Defaults ==
    [name |-> "Delta MS300 Mock Drive", device_type |-> "frequency-drive",
     device_profile |-> "delta-ms300", listen_address |-> "127.0.0.1",
     log_level |-> "info", protocol |-> "modbus-tcp", parity |-> "none",
     port |-> 502, max_clients |-> 8, idle_timeout_ms |-> 30000,
     data_bits |-> 8, stop_bits |-> 1]

\* The profiles that have a default behaviour.
Profiles == {"delta-ms300", "abb-fena", "danfoss-fc302", "invertek-optidrive-p2",
             "schneider-atv320", "siemens-sinamics"}

\* A field that is missing from a file and one that holds the zero value are the
\* same.
Missing(c, f) ==
    \/ f \in Texts /\ c[f] = ""
    \/ f \in Numbers /\ c[f] = 0

FillIn(c) == [f \in Fields |-> IF Missing(c, f) THEN Defaults[f] ELSE c[f]]

ApplyDefaults(c) ==
    LET d == FillIn(c) IN
    IF d["behavior"] = "" /\ d["device_profile"] \in Profiles
    THEN [d EXCEPT !["behavior"] = d["device_profile"]]
    ELSE d

MaxPort == 65535

\* Variant: port 0 passes.
ValidFromZero(c) ==
    /\ c["name"] # "" /\ c["device_type"] # ""
    /\ c["port"] \in 0..MaxPort
    /\ \A f \in Numbers \ {"port"} : c[f] >= 1
    /\ c["descriptions"] = "fit"

Valid(c) ==
    /\ c["name"] # "" /\ c["device_type"] # ""
    /\ c["port"] \in 1..MaxPort
    /\ \A f \in Numbers \ {"port"} : c[f] >= 1
    /\ c["descriptions"] = "fit"

DefaultMS300Config == [ApplyDefaults(ZeroConfig) EXCEPT !["unit_ids"] = <<1>>]

-----------------------------------------------------------------------------
(* Files.  A file is written by MarshalConfig, which leaves nothing of a          *)
(* configuration out that LoadConfig looks at.                                   *)

Whole(c) == [state |-> "whole", config |-> c]
Absent == [state |-> "absent", config |-> ZeroConfig]
Empty == [state |-> "empty", config |-> ZeroConfig]
Garbage == [state |-> "garbage", config |-> ZeroConfig]

\* LoadConfig succeeds, and what it returns.
Loads(file) == file.state = "whole" /\ Valid(ApplyDefaults(file.config))

Loaded(file) == ApplyDefaults(file.config)
=============================================================================
