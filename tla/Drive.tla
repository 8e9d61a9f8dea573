------------------------------- MODULE Drive -------------------------------
(***************************************************************************)
(* The registers of a simulated drive over time: Modbus clients write      *)
(* holding registers, after which the drive model derives its reports; the *)
(* operator may set any input register, which stays as he left it until    *)
(* the next holding write (WriteSingleRegister, WriteMultipleRegisters and *)
(* SetInputRegister in datastore.go).  Each operation holds the write      *)
(* lock, see DataStore for the locking.                                    *)
(***************************************************************************)
EXTENDS DriveDefaults, FiniteSets

CONSTANTS
    Drives,         \* the drives to look at, among those of Table
    CommandValues,  \* the values that are written to command registers
    OverrideValue,  \* the value the operator sets an input register to
    MaxOverrides    \* bound: the registers he sets between two writes

(***************************************************************************)
(* What the properties need to know of each drive: its behaviour and its   *)
(* blocks, the key that commands it to run and the key that reports it,    *)
(* the words that report a stopped and a running drive, the other commands *)
(* a client writes, the reports that repeat a command or another report,   *)
(* and the reports of a moving motor.                                      *)
(***************************************************************************)
Entry(behavior, holding, input, command, status, stopped, running, others, echoes, motion) ==
    [behavior |-> behavior, holding |-> holding, input |-> input,
     command |-> command, status |-> status, stopped |-> stopped, running |-> running,
     others |-> others, echoes |-> echoes, motion |-> motion]

Echo(source, report) == [source |-> source, report |-> report]

MS300Drive ==
    Entry(DeltaMS300, Registers(8192, 3, {Register(8193, 5000)}),
        Registers(8448, 309,
            {Register(8449, 1280), Register(8450, 5000), Register(8453, 3250),
             Register(8475, 5000), Register(8707, 3250), Register(8718, 350),
             Register(8731, 25), Register(8733, 4), Register(8740, 8), Register(8742, 4)}),
        "command", "drive_operation_status", {1280}, {1283, 1307}, {"frequency_command"},
        {Echo("frequency_command", "frequency_command_readback"),
         Echo("output_current", "display_output_current"),
         Echo("counter_value", "display_counter_value"),
         Echo("output_frequency", "display_output_frequency"),
         Echo("dc_bus_voltage", "display_dc_bus_voltage"),
         Echo("output_voltage", "display_output_voltage"),
         Echo("output_power_factor_angle", "display_power_factor_angle"),
         Echo("power_output", "display_power_output"),
         Echo("motor_actual_speed", "display_motor_actual_speed"),
         Echo("output_torque", "display_output_torque"),
         Echo("output_frequency", "master_frequency"),
         Echo("master_frequency", "combined_frequency")},
        {"output_frequency", "output_current", "output_voltage", "output_power_factor_angle",
         "output_torque", "motor_actual_speed", "power_output", "display_output_current",
         "display_output_frequency", "display_output_voltage", "display_power_factor_angle",
         "display_power_output", "display_motor_actual_speed", "display_output_torque",
         "display_user_defined_output", "pr_00_05_gain_value", "signed_torque",
         "master_frequency", "combined_frequency"})

ABBDrive ==
    Entry(ABBFENA, Registers(1, 65, {Register(51, 1)}), Registers(0, 0, {}),
        "control_word", "status_word", {1}, {3}, {"reference_1", "data_out_2"},
        {Echo("reference_1", "actual_1"), Echo("reference_2", "actual_2"),
         Echo("data_out_1", "data_in_1"), Echo("data_out_2", "data_in_2")}, {})

DanfossDrive ==
    Entry(DanfossShipped, Registers(2810, 110, {Register(2910, 1)}), Registers(0, 0, {}),
        "control_word", "status_word", {1}, {3},
        {"main_reference", "process_data_write_3", "process_data_write_10"},
        {Echo("main_reference", "main_actual_value")}
            \union {Echo(WriteKey[i], ReadKey[i]) : i \in 3..10}, {})

DanfossDefaultDrive ==
    Entry(DanfossFC302, Registers(2810, 110, {Register(2910, 1)}), Registers(0, 0, {}),
        "control_word", "status_word", {1}, {3}, {"main_reference"}, {}, {})

InvertekDrive ==
    Entry(InvertekOptidriveP2, Registers(1, 4, {Register(4, 3000)}),
        Registers(256, 4, {Register(256, 9)}),
        "control_word", "status_word", {9}, {11}, {"frequency_setpoint", "torque_setpoint"},
        {Echo("frequency_setpoint", "output_frequency"),
         Echo("torque_setpoint", "output_torque")}, {"output_current"})

SchneiderDrive ==
    Entry(SchneiderATV320, Registers(8501, 104, {Register(8602, 1500), Register(8604, 1500)}),
        Registers(3201, 12, {Register(3201, 1)}),
        "cmd", "eta", {1}, {7}, {"lfr", "pisp"},
        {Echo("lfr", "rfr"), Echo("lfr", "lfrd"), Echo("lfr", "rfrd"), Echo("eta", "eti")},
        {"lcr", "otr", "uop", "opr"})

SiemensDrive ==
    Entry(SiemensSINAMICS, Registers(40100, 310, {Register(40110, 1), Register(40324, 1500)}),
        Registers(0, 0, {}),
        "control_word", "status_word", {1}, {3},
        {"main_setpoint", "process_data_write_3", "process_data_write_10"},
        {Echo("main_setpoint", "main_actual_value"), Echo("main_setpoint", "reference_speed")}
            \union {Echo(WriteKey[i], ReadKey[i]) : i \in 3..10}, {})

Table ==
    [ms300 |-> MS300Drive, abb |-> ABBDrive, danfoss |-> DanfossDrive,
     danfossDefault |-> DanfossDefaultDrive, invertek |-> InvertekDrive,
     schneider |-> SchneiderDrive, siemens |-> SiemensDrive]

ASSUME DriveAssumption ==
    /\ Drives \subseteq DOMAIN Table
    /\ CommandValues \subseteq Word
    /\ OverrideValue \in Word
    /\ MaxOverrides \in Nat

VARIABLES
    drive,      \* which drive is simulated
    bank,       \* its holding and input registers
    written,    \* history: the last value of each command register
    overridden  \* history: the input registers set since the last write

vars == <<drive, bank, written, overridden>>

This == Table[drive]
At(key) == This.behavior.map[key]
Commands == {At(key) : key \in This.others \union {This.command}}

Init ==
    /\ drive \in Drives
    /\ bank = Sync([holding |-> This.holding, input |-> This.input], This.behavior, drive)
    /\ written = [a \in Commands |-> RegisterValueOrZero(This.holding, a)]
    /\ overridden = {}

\* One register, or two adjacent ones in one request; a request that is not in
\* range changes nothing.
WriteRegisters(address, values) ==
    /\ InRange(bank.holding, address, Len(values))
    /\ bank' = Sync([bank EXCEPT !.holding = Store(@, address, values)],
                    This.behavior, drive)
    /\ written' = [a \in DOMAIN written |->
            IF a \in address..(address + Len(values) - 1)
            THEN values[a - address + 1] ELSE written[a]]
    /\ overridden' = {}
    /\ UNCHANGED drive

SetInputRegister(address, value) ==
    /\ InRange(bank.input, address, 1)
    /\ bank' = [bank EXCEPT !.input = Store(@, address, <<value>>)]
    /\ overridden' = overridden \union {address}
    /\ UNCHANGED <<drive, written>>

\* Clients write the commands, and try to write the status word themselves.  The
\* operator may set every input register that the drive reports anything in.
Next ==
    \/ \E a \in Commands \union {At(This.status)}, v \in CommandValues :
          WriteRegisters(a, <<v>>)
    \/ \E v, w \in CommandValues : WriteRegisters(At(This.command), <<v, w>>)
    \/ /\ Cardinality(overridden) < MaxOverrides
       /\ \E key \in DOMAIN This.behavior.map : SetInputRegister(At(key), OverrideValue)

Spec == Init /\ [][Next]_vars

-----------------------------------------------------------------------------
TypeOK ==
    /\ drive \in Drives
    /\ bank \in [holding : Blocks(Word), input : Blocks(Word)]
    /\ written \in [Commands -> Word]
    /\ overridden \in SUBSET Word

Value(key) ==
    RegisterValueOrZero(IF InRange(bank.holding, At(key), 1) THEN bank.holding ELSE bank.input,
                        At(key))

IsRunning == IF drive = "ms300" THEN Value(This.command) % 4 \in {2, 3}
                                ELSE Value(This.command) # 0

\* The direction that the command of the MS300 asks for.
IsReverse == (Value(This.command) \div 16) % 4 = 2

\* None of these registers was set by the operator since the last write.
Derived(keys) == \A key \in keys : At(key) \notin overridden

\* A word as a signed number, in two's complement.
Signed(word) == IF word < 32768 THEN word ELSE word - 65536

\* Deriving the reports never changes what was commanded, in whatever order the
\* reports are set and whichever registers they share, and neither does the operator
\* (datastore.go:136-431).
CommandsKept ==
    \A a \in DOMAIN written : RegisterValueOrZero(bank.holding, a) = written[a]

\* After a write the status word says whether the drive was commanded to run,
\* also when a client wrote the status word itself or the operator had set it or any
\* other input register.  The operator may set it until the next write.
StatusFollowsCommand ==
    Derived({This.status}) =>
        Value(This.status) \in IF IsRunning THEN This.running ELSE This.stopped

\* A report that repeats a command or another report holds the same value, unless the
\* operator has set one of the two since the last write; what he had set before it,
\* or sets elsewhere, does not show (datastore.go:136-140, 225-277, 294-407).
EchoesAgree ==
    \A e \in This.echoes : Derived({e.source, e.report}) => Value(e.report) = Value(e.source)

\* A stopped drive reports no motion and no power in any register that the operator
\* has not set since the last write (datastore.go:186-277, 343-372).
StoppedIsStill ==
    ~IsRunning => \A key \in This.motion : Derived({key}) => Value(key) = 0

\* What is computed from a command and stands as it was computed: the signed torque of
\* the MS300 is the torque in the commanded direction, negative in reverse, and its
\* output power is that of its voltage and current, at every frequency.  The output power
\* of the ATV320 is that of its voltage and current exactly up to the reference 18103:
\* from 18104 on the register has lost the upper bits (datastore.go:207-221, 371).
NumbersFit ==
    /\ drive = "ms300" /\ Derived({"signed_torque", "output_torque"}) =>
          Signed(Value("signed_torque")) =
              IF IsRunning /\ IsReverse THEN -Value("output_torque") ELSE Value("output_torque")
    /\ drive = "ms300" /\ Derived({"power_output", "output_voltage", "output_current"}) =>
          Value("power_output") = (Value("output_voltage") * Value("output_current")) \div 1000
    /\ drive = "schneider" /\ Derived({"opr", "uop", "lcr"}) =>
          (Value("opr") = (Value("uop") * Value("lcr")) \div 1000
            <=> ~IsRunning \/ Value("lfr") <= 18103)
=============================================================================
