---------------------------- MODULE MCModbusPDU ----------------------------
(***************************************************************************)
(* A device whose coils fill one byte and part of another, whose holding   *)
(* registers end at address 65535, and whose inputs are more than one      *)
(* request may name; its input registers begin at 65530 and go on beyond   *)
(* the last address, where their rows are numbered 0 to 122.  It takes     *)
(* requests of every kind, at both ends of its blocks, and at and beyond   *)
(* the largest quantities.                                                 *)
(***************************************************************************)
EXTENDS ModbusPDU

Of(word) == <<word \div 256, word % 256>>
Short(function, address, field) == <<function>> \o Of(address) \o Of(field)
Long(function, address, quantity, data) ==
    Short(function, address, quantity) \o <<Len(data)>> \o data

Device ==
    [coils    |-> [start |-> 10, values |-> [i \in 1..12 |-> i = 3]],
     discrete |-> [start |-> 0, values |-> [i \in 1..2049 |-> i % 3 = 0]],
     holding  |-> [start |-> 65533, values |-> <<0, 1, 65535>>],
     input    |-> [start |-> 65530, values |-> [i \in 1..129 |-> i * 255]]]

SmallReads ==
    {Short(1, a, q) : a \in {9, 10, 13}, q \in {0, 9, 12}}
    \union {Short(3, a, q) : a \in {65533, 65534}, q \in {1, 2, 3, 65535}}

WideReads ==
    {Short(2, 0, 3), Short(2, 49, 2000), Short(2, 50, 2000), Short(2, 0, 2001),
     Short(2, 1, 2048), Short(4, 65529, 2), Short(4, 65530, 2), Short(4, 65534, 125),
     Short(4, 65535, 125), Short(4, 65530, 126), Short(4, 65531, 128)}
    \union {Short(4, a, 1) : a \in {0, 122, 123}}

SmallWrites ==
    {Short(5, 21, 0), Short(5, 21, 65280), Short(5, 22, 65280), Short(5, 10, 1),
     Short(6, 65533, 0), Short(6, 65535, 513),
     Long(15, 10, 12, <<165, 255>>), Long(15, 13, 9, <<90, 254>>), Long(15, 13, 9, <<90>>),
     Long(15, 13, 10, <<255, 255>>), Long(16, 65534, 2, <<1, 2, 255, 254>>),
     Long(16, 65533, 3, <<0, 1, 128, 0, 2, 3>>), Long(16, 65535, 2, <<9, 9, 9, 9>>),
     Long(16, 65533, 2, <<1, 2, 3>>), Long(16, 65533, 0, <<>>)}

\* Writes of more than the device has, and of more than a request may name.
WideWrites ==
    {Long(15, 10, 1968, [i \in 1..246 |-> 15]), Long(15, 10, 1969, [i \in 1..247 |-> 1]),
     Long(16, 65533, 123, [i \in 1..246 |-> i]), Long(16, 65533, 124, [i \in 1..248 |-> 2])}

\* Unknown functions, and requests that are cut short or too long.
Others == {<<0>>, <<43, 14, 1>>, <<131, 2>>, <<1>>, <<6, 255, 252, 1>>,
           <<15, 0, 10, 0, 1>>, Short(1, 10, 1) \o <<0>>}

Requests == SmallReads \union WideReads \union SmallWrites \union WideWrites \union Others
=============================================================================
