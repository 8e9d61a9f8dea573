---------------------------- MODULE DriveModels ----------------------------
(***************************************************************************)
(* The drive models of internal/modbus/datastore.go: after every write to  *)
(* the holding registers, syncDerivedStateLocked recomputes what a real    *)
(* drive would report from what it was commanded.                          *)
(*                                                                         *)
(* A bank is a record of the holding and the input block.  A behaviour is  *)
(* a record of the model's name, of the register map (keys to addresses)   *)
(* and of the constants (keys to values); a key may be missing in both.    *)
(* All arithmetic is that of uint32 followed by a conversion to uint16;    *)
(* no intermediate value of the code reaches 2^32.                         *)
(***************************************************************************)
EXTENDS Blocks

Uint16(n) == n % 65536

\* maxUint32
Larger(m, n) == IF m < n THEN n ELSE m

Or(m, n) ==
    LET Bit(w) == IF (m \div w) % 2 = 1 \/ (n \div w) % 2 = 1 THEN w ELSE 0
    IN  Bit(1) + Bit(2) + Bit(4) + Bit(8) + Bit(16) + Bit(32) + Bit(64) + Bit(128)
        + Bit(256) + Bit(512) + Bit(1024) + Bit(2048) + Bit(4096) + Bit(8192)
        + Bit(16384) + Bit(32768)

Address(behavior, key, fallback) ==
    IF key \in DOMAIN behavior.map THEN behavior.map[key] ELSE fallback

Constant(behavior, key, fallback) ==
    IF key \in DOMAIN behavior.constants THEN behavior.constants[key] ELSE fallback

RegisterValueOrZero(block, address) ==
    IF InRange(block, address, 1) THEN Fetch(block, address, 1)[1] ELSE 0

(***************************************************************************)
(* The reports are pairs of a key and a value, in the order in which the   *)
(* code sets them.  A key that is not mapped is left out, as is a register *)
(* outside the blocks; where two keys share an address the later one stays.*)
(***************************************************************************)
ReportsAt(behavior, reports, address) ==
    {n \in DOMAIN reports : /\ reports[n][1] \in DOMAIN behavior.map
                            /\ behavior.map[reports[n][1]] = address}

\* What the reports leave at the addresses they are mapped to.
Told(behavior, reports) ==
    LET mapped == {n \in DOMAIN reports : reports[n][1] \in DOMAIN behavior.map}
        Last(at) == CHOOSE n \in at : \A m \in at : m <= n
    IN  [address \in {behavior.map[reports[n][1]] : n \in mapped} |->
            reports[Last(ReportsAt(behavior, reports, address))][2]]

\* What the register at an address holds after the reports.
Reported(told, address, old) == IF address \in DOMAIN told THEN told[address] ELSE old

\* setInputRegisterIfMapped for each report.
SetInputs(bank, behavior, reports) ==
    LET input == bank.input
        told  == Told(behavior, reports)
    IN  [bank EXCEPT !.input.values = [i \in 1..Len(input.values) |->
            Reported(told, input.start + i - 1, input.values[i])]]

\* setMappedRegisterIfPresent for each report: a register of the holding block, or
\* else one of the input block.
SetMapped(bank, behavior, reports) ==
    LET holding == bank.holding
        input   == bank.input
        told    == Told(behavior, reports)
    IN  [bank EXCEPT
            !.holding.values = [i \in 1..Len(holding.values) |->
                Reported(told, holding.start + i - 1, holding.values[i])],
            !.input.values = [i \in 1..Len(input.values) |->
                IF InRange(holding, input.start + i - 1, 1) THEN input.values[i]
                ELSE Reported(told, input.start + i - 1, input.values[i])]]

Commanded(bank, behavior, key, fallback) ==
    RegisterValueOrZero(bank.holding, Address(behavior, key, fallback))

-----------------------------------------------------------------------------
\* Variant: the reverse torque is the one's complement.
SignedTorqueOnes(reverse, torque) == IF reverse THEN 65535 - torque ELSE torque

\* Variant: the conversion is forgotten.
SignedTorqueWide(reverse, torque) == IF reverse THEN -torque ELSE torque

\* 65535 - outputTorque + 1 in uint16.
SignedTorque(reverse, torque) ==
    IF reverse THEN Uint16(65535 - torque + 1) ELSE torque

\* What the MS300 computes from the command and the frequency command, and what it
\* takes from its constants.
ComputedMS300(behavior, command, frequency) ==
    LET running == command % 4 \in {2, 3}
        reverse == running /\ (command \div 16) % 4 = 2
        WhenRunning(value) == IF running THEN value ELSE 0
        Fixed(key, fallback) == Constant(behavior, key, fallback)
        stopped == Fixed("stopped_status_word", 1280)
        forward == Or(stopped, Fixed("running_status_bits", 3))
        voltage == Uint16(WhenRunning((frequency * 400) \div 5000))
        current == Uint16(WhenRunning(Larger(Fixed("minimum_running_current", 100),
                                           (frequency * 25) \div 1000)))
        torque  == WhenRunning(Fixed("running_torque", 350))
    IN  [frequency |-> frequency,
         moving    |-> WhenRunning(frequency),
         status    |-> IF reverse THEN Or(forward, Fixed("reverse_status_bits", 24))
                       ELSE IF running THEN forward ELSE stopped,
         state     |-> IF reverse THEN Fixed("running_reverse_drive_status", 22)
                       ELSE IF running THEN Fixed("running_forward_drive_status", 21)
                       ELSE Fixed("stopped_drive_status", 4),
         voltage   |-> voltage,
         current   |-> current,
         power     |-> Uint16((voltage * current) \div 1000),
         speed     |-> WhenRunning(Uint16((frequency * 3) \div 10)),
         torque    |-> torque,
         signed    |-> SignedTorque(reverse, torque),
         angle     |-> WhenRunning(Fixed("running_power_angle", 300)),
         bus       |-> Fixed("dc_bus_voltage", 3250),
         maximum   |-> Fixed("maximum_user_defined_value", 5000),
         metadata  |-> Fixed("output_current_digit_metadata", 512),
         igbt      |-> Fixed("igbt_temperature", 350),
         ripples   |-> Fixed("dc_bus_voltage_ripples", 25),
         pole      |-> Fixed("magnetic_pole_zone", 4),
         carrier   |-> Fixed("carrier_frequency", 8)]

\* Its reports, in the order of the code.
ListedMS300(v) == <<
    <<"fault_status", 0>>, <<"drive_operation_status", v.status>>,
    <<"frequency_command_readback", v.frequency>>, <<"output_frequency", v.moving>>,
    <<"output_current", v.current>>, <<"dc_bus_voltage", v.bus>>,
    <<"output_voltage", v.voltage>>, <<"multi_step_speed_status", 0>>,
    <<"counter_value", 0>>, <<"output_power_factor_angle", v.angle>>,
    <<"output_torque", v.torque>>, <<"motor_actual_speed", v.speed>>,
    <<"power_output", v.power>>, <<"maximum_user_defined_value", v.maximum>>,
    <<"output_current_digit_metadata", v.metadata>>,
    <<"display_output_current", v.current>>, <<"display_counter_value", 0>>,
    <<"display_output_frequency", v.moving>>, <<"display_dc_bus_voltage", v.bus>>,
    <<"display_output_voltage", v.voltage>>, <<"display_power_factor_angle", v.angle>>,
    <<"display_power_output", v.power>>, <<"display_motor_actual_speed", v.speed>>,
    <<"display_output_torque", v.torque>>, <<"pid_feedback_value", 0>>,
    <<"avi_analog_input", 0>>, <<"aci_analog_input", 0>>, <<"igbt_temperature", v.igbt>>,
    <<"digital_input_status", 0>>, <<"digital_output_status", 0>>,
    <<"multi_step_speed", 0>>, <<"cpu_pin_status_digital_input", 0>>,
    <<"cpu_pin_status_digital_output", 0>>, <<"pulse_input_frequency", 0>>,
    <<"overload_counter", 0>>, <<"gff", 0>>, <<"dc_bus_voltage_ripples", v.ripples>>,
    <<"plc_register_d1043_data", 0>>, <<"magnetic_pole_zone", v.pole>>,
    <<"display_user_defined_output", v.moving>>, <<"pr_00_05_gain_value", v.moving>>,
    <<"control_mode", 0>>, <<"carrier_frequency", v.carrier>>, <<"drive_status", v.state>>,
    <<"signed_torque", v.signed>>, <<"torque_command", 0>>, <<"kwh", 0>>,
    <<"pid_reference", 0>>, <<"pid_offset", 0>>, <<"pid_output_frequency", 0>>,
    <<"auxiliary_frequency", 0>>, <<"master_frequency", v.moving>>,
    <<"combined_frequency", v.moving>> >>

SyncMS300(bank, behavior) ==
    LET commandAt   == Address(behavior, "command", 8192)
        frequencyAt == Address(behavior, "frequency_command", 8193)
    IN  IF ~InRange(bank.holding, commandAt, 1) \/ ~InRange(bank.holding, frequencyAt, 1)
        THEN bank
        ELSE SetInputs(bank, behavior, ListedMS300(
                ComputedMS300(behavior, RegisterValueOrZero(bank.holding, commandAt),
                                        RegisterValueOrZero(bank.holding, frequencyAt))))

\* Variant: only the command 1 runs the drive.
StatusWordExact(behavior, control, stoppedKey, stopped, runningKey, running) ==
    IF control = 1 THEN Constant(behavior, runningKey, running)
                   ELSE Constant(behavior, stoppedKey, stopped)

\* The status word of the models that run on any non-zero control word.
StatusWord(behavior, control, stoppedKey, stopped, runningKey, running) ==
    IF control = 0 THEN Constant(behavior, stoppedKey, stopped)
                   ELSE Constant(behavior, runningKey, running)

SyncABBFENA(bank, behavior) ==
    LET control == Commanded(bank, behavior, "control_word", 1)
    IN  SetMapped(bank, behavior, <<
            <<"status_word", StatusWord(behavior, control, "ready_status_word", 1,
                                                           "running_status_word", 3)>>,
            <<"actual_1", Commanded(bank, behavior, "reference_1", 2)>>,
            <<"actual_2", Commanded(bank, behavior, "reference_2", 3)>>,
            <<"data_in_1", Commanded(bank, behavior, "data_out_1", 4)>>,
            <<"data_in_2", Commanded(bank, behavior, "data_out_2", 5)>> >>)

WriteKey == [i \in 3..10 |->
    <<"process_data_write_3", "process_data_write_4", "process_data_write_5",
      "process_data_write_6", "process_data_write_7", "process_data_write_8",
      "process_data_write_9", "process_data_write_10">>[i - 2]]

ReadKey == [i \in 3..10 |->
    <<"process_data_read_3", "process_data_read_4", "process_data_read_5",
      "process_data_read_6", "process_data_read_7", "process_data_read_8",
      "process_data_read_9", "process_data_read_10">>[i - 2]]

\* Variant: a process data word is echoed one place too late.
EchoWordLate(bank, behavior, i) ==
    SetMapped(bank, behavior, << <<IF i < 10 THEN ReadKey[i + 1] ELSE "none",
                                   Commanded(bank, behavior, WriteKey[i], 0)>> >>)

\* Variant: the two keys of a word are swapped.
EchoWordSwapped(bank, behavior, i) ==
    SetMapped(bank, behavior, << <<WriteKey[i], Commanded(bank, behavior, ReadKey[i], 0)>> >>)

EchoWord(bank, behavior, i) ==
    SetMapped(bank, behavior, << <<ReadKey[i], Commanded(bank, behavior, WriteKey[i], 0)>> >>)

\* Each word is read from the bank as the words before it have left it.
EchoProcessData(bank, behavior) ==
    LET Echoed(b, i) == EchoWord(b, behavior, i)
    IN  Echoed(Echoed(Echoed(Echoed(Echoed(Echoed(Echoed(Echoed(
            bank, 3), 4), 5), 6), 7), 8), 9), 10)

SyncDanfossFC302(bank, behavior) ==
    LET control == Commanded(bank, behavior, "control_word", 2810)
        reported == SetMapped(bank, behavior, <<
            <<"status_word", StatusWord(behavior, control, "stopped_status_word", 1,
                                                           "running_status_word", 3)>>,
            <<"main_actual_value", Commanded(bank, behavior, "main_reference", 2811)>> >>)
    IN  EchoProcessData(reported, behavior)

SyncInvertekOptidriveP2(bank, behavior) ==
    LET control  == Commanded(bank, behavior, "control_word", 1)
        setpoint == Commanded(bank, behavior, "frequency_setpoint", 2)
    IN  SetMapped(bank, behavior, <<
            <<"status_word", StatusWord(behavior, control, "ready_status_word", 9,
                                                           "running_status_word", 11)>>,
            <<"output_frequency", setpoint>>,
            <<"output_current", IF control = 0 THEN 0 ELSE
                Larger(Constant(behavior, "minimum_output_current", 100), setpoint \div 5)>>,
            <<"output_torque", Commanded(bank, behavior, "torque_setpoint", 3)>> >>)

\* Variant: the electrical quantities of a stopped drive stay what they were
\* commanded to be.
SyncSchneiderATV320Coasting(bank, behavior) ==
    LET reference == Commanded(bank, behavior, "lfr", 8502)
        eta == StatusWord(behavior, Commanded(bank, behavior, "cmd", 8501),
                          "stopped_eta", 1, "running_eta", 7)
    IN  SetMapped(bank, behavior, <<
            <<"eta", eta>>, <<"rfr", reference>>,
            <<"lcr", Larger(Constant(behavior, "minimum_current", 50), reference \div 4)>>,
            <<"eti", eta>>, <<"lfrd", reference>>, <<"rfrd", reference>> >>)

SyncSchneiderATV320(bank, behavior) ==
    LET command   == Commanded(bank, behavior, "cmd", 8501)
        reference == Commanded(bank, behavior, "lfr", 8502)
        eta == StatusWord(behavior, command, "stopped_eta", 1, "running_eta", 7)
        WhenRunning(value) == IF command = 0 THEN 0 ELSE value
        current == WhenRunning(Larger(Constant(behavior, "minimum_current", 50),
                                    reference \div 4))
        voltage == WhenRunning(Uint16((reference * 400) \div 500))
    IN  SetMapped(bank, behavior, <<
            <<"eta", eta>>,
            <<"rfr", reference>>,
            <<"lcr", Uint16(current)>>,
            <<"otr", WhenRunning(Constant(behavior, "running_torque", 250))>>,
            <<"eti", eta>>,
            <<"uop", voltage>>,
            <<"opr", Uint16((voltage * Uint16(current)) \div 1000)>>,
            <<"lfrd", reference>>,
            <<"rfrd", reference>> >>)

SyncSiemensSINAMICS(bank, behavior) ==
    LET control  == Commanded(bank, behavior, "control_word", 40100)
        setpoint == Commanded(bank, behavior, "main_setpoint", 40101)
        reported == SetMapped(bank, behavior, <<
            <<"status_word", StatusWord(behavior, control, "stopped_status_word", 1,
                                                           "running_status_word", 3)>>,
            <<"main_actual_value", setpoint>>,
            <<"reference_speed", setpoint>>,
            <<"failure_number", 0>>,
            <<"alarm_number", 0>>,
            <<"actual_alarm_code", 0>> >>)
    IN  EchoProcessData(reported, behavior)

\* syncDerivedStateLocked.  The model's name is taken as trimmed and in lower
\* case; "delta-ms300" stands for a profile that names it in any case.
Sync(bank, behavior, deviceProfile) ==
    LET model == IF behavior.model = "" /\ deviceProfile = "delta-ms300"
                 THEN "delta-ms300-basic" ELSE behavior.model
    IN  CASE model = "delta-ms300-basic"           -> SyncMS300(bank, behavior)
          [] model = "abb-fena-basic"              -> SyncABBFENA(bank, behavior)
          [] model = "danfoss-fc302-basic"         -> SyncDanfossFC302(bank, behavior)
          [] model = "invertek-optidrive-p2-basic" -> SyncInvertekOptidriveP2(bank, behavior)
          [] model = "schneider-atv320-basic"      -> SyncSchneiderATV320(bank, behavior)
          [] model = "siemens-sinamics-basic"      -> SyncSiemensSINAMICS(bank, behavior)
          [] OTHER                                 -> bank
=============================================================================
