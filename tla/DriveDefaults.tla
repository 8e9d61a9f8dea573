--------------------------- MODULE DriveDefaults ---------------------------
(***************************************************************************)
(* The behaviours that applyDefaults gives a configuration which names a   *)
(* device profile and no model (internal/modbus/config.go), and the blocks *)
(* of the shipped configurations under configs/FrequencyDrive that they    *)
(* are used with.                                                          *)
(***************************************************************************)
EXTENDS DriveModels

Behaviour(model, map, constants) == [model |-> model, map |-> map, constants |-> constants]

\* The register map of a process data area: words 3 to 10 follow the first two.
ProcessData(firstWrite, firstRead) ==
    [process_data_write_3 |-> firstWrite + 3, process_data_read_3 |-> firstRead + 3,
     process_data_write_4 |-> firstWrite + 4, process_data_read_4 |-> firstRead + 4,
     process_data_write_5 |-> firstWrite + 5, process_data_read_5 |-> firstRead + 5,
     process_data_write_6 |-> firstWrite + 6, process_data_read_6 |-> firstRead + 6,
     process_data_write_7 |-> firstWrite + 7, process_data_read_7 |-> firstRead + 7,
     process_data_write_8 |-> firstWrite + 8, process_data_read_8 |-> firstRead + 8,
     process_data_write_9 |-> firstWrite + 9, process_data_read_9 |-> firstRead + 9,
     process_data_write_10 |-> firstWrite + 10, process_data_read_10 |-> firstRead + 10]

\* A map with the keys of two; what both have is taken from the first.
Merged(first, second) ==
    [key \in DOMAIN first \union DOMAIN second |->
        IF key \in DOMAIN first THEN first[key] ELSE second[key]]

StoppedRunning == [stopped_status_word |-> 1, running_status_word |-> 3]

DeltaMS300 == Behaviour("delta-ms300-basic",
    [command                       |-> 8192, frequency_command             |-> 8193,
     fault_status                  |-> 8448, drive_operation_status        |-> 8449,
     frequency_command_readback    |-> 8450, output_frequency              |-> 8451,
     output_current                |-> 8452, dc_bus_voltage                |-> 8453,
     output_voltage                |-> 8454, multi_step_speed_status       |-> 8455,
     counter_value                 |-> 8457, output_power_factor_angle     |-> 8458,
     output_torque                 |-> 8459, motor_actual_speed            |-> 8460,
     power_output                  |-> 8463, maximum_user_defined_value    |-> 8475,
     output_current_digit_metadata |-> 8479, display_output_current        |-> 8704,
     display_counter_value         |-> 8705, display_output_frequency      |-> 8706,
     display_dc_bus_voltage        |-> 8707, display_output_voltage        |-> 8708,
     display_power_factor_angle    |-> 8709, display_power_output          |-> 8710,
     display_motor_actual_speed    |-> 8711, display_output_torque         |-> 8712,
     pid_feedback_value            |-> 8714, avi_analog_input              |-> 8715,
     aci_analog_input              |-> 8716, igbt_temperature              |-> 8718,
     digital_input_status          |-> 8720, digital_output_status         |-> 8721,
     multi_step_speed              |-> 8722, cpu_pin_status_digital_input  |-> 8723,
     cpu_pin_status_digital_output |-> 8724, pulse_input_frequency         |-> 8726,
     overload_counter              |-> 8729, gff                           |-> 8730,
     dc_bus_voltage_ripples        |-> 8731, plc_register_d1043_data       |-> 8732,
     magnetic_pole_zone            |-> 8733, display_user_defined_output   |-> 8734,
     pr_00_05_gain_value           |-> 8735, control_mode                  |-> 8739,
     carrier_frequency             |-> 8740, drive_status                  |-> 8742,
     signed_torque                 |-> 8743, torque_command                |-> 8744,
     kwh                           |-> 8745, pid_reference                 |-> 8750,
     pid_offset                    |-> 8751, pid_output_frequency          |-> 8752,
     auxiliary_frequency           |-> 8754, master_frequency              |-> 8755,
     combined_frequency            |-> 8756],
    [stopped_status_word           |-> 1280, running_status_bits           |-> 3,
     reverse_status_bits           |-> 24,   dc_bus_voltage                |-> 3250,
     igbt_temperature              |-> 350,  dc_bus_voltage_ripples        |-> 25,
     magnetic_pole_zone            |-> 4,    carrier_frequency             |-> 8,
     maximum_user_defined_value    |-> 5000, output_current_digit_metadata |-> 512,
     stopped_drive_status          |-> 4,    running_forward_drive_status  |-> 21,
     running_reverse_drive_status  |-> 22,   running_torque                |-> 350,
     running_power_angle           |-> 300,  minimum_running_current       |-> 100])

ABBFENA == Behaviour("abb-fena-basic",
    [control_word |-> 1, reference_1 |-> 2, reference_2 |-> 3, data_out_1 |-> 4,
     data_out_2 |-> 5, status_word |-> 51, actual_1 |-> 52, actual_2 |-> 53,
     data_in_1 |-> 54, data_in_2 |-> 55],
    [ready_status_word |-> 1, running_status_word |-> 3])

\* The loop of DefaultDanfossFC302Behavior: word 3 falls on word 1.
DanfossFC302 == Behaviour("danfoss-fc302-basic",
    Merged([control_word |-> 2810, main_reference |-> 2811,
            status_word |-> 2910, main_actual_value |-> 2911], ProcessData(2807, 2907)),
    StoppedRunning)

\* The map of configs/FrequencyDrive/Danfoss/danfoss_fc302_drive_c.json.
DanfossShipped == [DanfossFC302 EXCEPT !.map = Merged(ProcessData(2809, 2909), @)]

InvertekOptidriveP2 == Behaviour("invertek-optidrive-p2-basic",
    [control_word |-> 1, frequency_setpoint |-> 2, torque_setpoint |-> 3,
     status_word |-> 256, output_frequency |-> 257, output_current |-> 258,
     output_torque |-> 259],
    [ready_status_word |-> 9, running_status_word |-> 11, minimum_output_current |-> 100])

SchneiderATV320 == Behaviour("schneider-atv320-basic",
    [cmd |-> 8501, lfr |-> 8502, pisp |-> 8503, cmi |-> 8504, lfrd |-> 8602, rfrd |-> 8604,
     eta |-> 3201, rfr |-> 3202, lcr |-> 3204, otr |-> 3205, eti |-> 3206, uop |-> 3208,
     opr |-> 3211],
    [stopped_eta |-> 1, running_eta |-> 7, minimum_current |-> 50, running_torque |-> 250])

SiemensSINAMICS == Behaviour("siemens-sinamics-basic",
    Merged([control_word |-> 40100, main_setpoint |-> 40101, status_word |-> 40110,
            main_actual_value |-> 40111, reference_speed |-> 40324, failure_number |-> 40400,
            alarm_number |-> 40408, actual_alarm_code |-> 40409], ProcessData(40099, 40109)),
    StoppedRunning)

Register(address, value) == [address |-> address, value |-> value]

\* A block of the shipped configurations, of which the registers are given that are
\* not zero.
Registers(start, count, known) ==
    LET At(i) == {r \in known : r.address = start + i - 1}
    IN  [start  |-> start,
         values |-> [i \in 1..count |->
            IF At(i) = {} THEN 0 ELSE (CHOOSE r \in At(i) : TRUE).value]]
=============================================================================
