----------------------------- MODULE ModbusPDU -----------------------------
(***************************************************************************)
(* What a request does to the data model and what is answered: handlePDU   *)
(* and the handlers it calls (internal/modbus/server.go:239-446), with the *)
(* calls of the data store that they make.  A PDU is the sequence of its   *)
(* bytes, of any length from 1 on: parseRequest refuses an empty one.      *)
(*                                                                         *)
(* The device has no drive model, as the generic profiles, so that a write *)
(* derives nothing; see Drive for those that do.                           *)
(***************************************************************************)
EXTENDS Blocks

CONSTANTS
    Start,          \* bank as configured, a record of the four blocks
    PDUs            \* bound: the requests that clients send

MaxByte == 255
Byte == 0..MaxByte

ReadCoils == 1
ReadDiscreteInputs == 2
ReadHoldingRegisters == 3
ReadInputRegisters == 4
WriteSingleCoil == 5
WriteSingleRegister == 6
WriteMultipleCoils == 15
WriteMultipleRegs == 16

Reads == {ReadCoils, ReadDiscreteInputs, ReadHoldingRegisters, ReadInputRegisters}
Singles == {WriteSingleCoil, WriteSingleRegister}
Multiples == {WriteMultipleCoils, WriteMultipleRegs}
OfBits == {ReadCoils, ReadDiscreteInputs, WriteSingleCoil, WriteMultipleCoils}

IllegalFunction == 1
IllegalDataAddress == 2
IllegalDataValue == 3

\* The block that a function works on.
BlockOf(function) ==
    CASE function \in {ReadCoils, WriteSingleCoil, WriteMultipleCoils} -> "coils"
      [] function = ReadDiscreteInputs -> "discrete"
      [] function = ReadInputRegisters -> "input"
      [] OTHER -> "holding"

Bank == [coils : Blocks(BOOLEAN), discrete : Blocks(BOOLEAN),
         holding : Blocks(Word), input : Blocks(Word)]

ASSUME PDUAssumption ==
    /\ Start \in Bank
    /\ PDUs \subseteq Seq(Byte) \ {<<>>}

VARIABLES
    bank,           \* the four blocks
    request,        \* the last request
    reply,          \* the PDU it was answered with
    written         \* history: the last write to each block that was accepted

vars == <<bank, request, reply, written>>

-----------------------------------------------------------------------------
(* Bytes, words and bits. *)

\* binary.BigEndian.Uint16(bytes[at:]), where at counts from 0.
Uint16At(bytes, at) == 256 * bytes[at + 1] + bytes[at + 2]

\* Variant: the bytes of a word in the other order.
LittleEndian(words) ==
    [i \in 1..(2 * Len(words)) |->
        IF i % 2 = 1 THEN words[(i + 1) \div 2] % 256 ELSE words[i \div 2] \div 256]

BigEndian(words) ==
    [i \in 1..(2 * Len(words)) |->
        IF i % 2 = 1 THEN words[(i + 1) \div 2] \div 256 ELSE words[i \div 2] % 256]

WordsOf(bytes) == [i \in 1..(Len(bytes) \div 2) |-> Uint16At(bytes, 2 * i - 2)]

\* Bit j of byte k is value 8k - 7 + j, as long as there is one.
BitAt(values, k, j) ==
    IF 8 * k - 7 + j <= Len(values) /\ values[8 * k - 7 + j] THEN 2^j ELSE 0

PackBools(values) ==
    [k \in 1..((Len(values) + 7) \div 8) |->
        BitAt(values, k, 0) + BitAt(values, k, 1) + BitAt(values, k, 2) + BitAt(values, k, 3)
        + BitAt(values, k, 4) + BitAt(values, k, 5) + BitAt(values, k, 6) + BitAt(values, k, 7)]

UnpackBools(bytes, quantity) ==
    [i \in 1..quantity |-> (bytes[(i + 7) \div 8] \div 2^((i - 1) % 8)) % 2 = 1]

Tail6(pdu) == SubSeq(pdu, 7, Len(pdu))

-----------------------------------------------------------------------------
(* What a request asks for, and whether it is well formed. *)

Function(pdu) == pdu[1]
AddressOf(pdu) == Uint16At(pdu, 1)

\* The quantity of a read or a multiple write, the value of a single one.
Field(pdu) == Uint16At(pdu, 3)

Quantity(pdu) == IF Function(pdu) \in Singles THEN 1 ELSE Field(pdu)

\* Variant: the limit that fills a byte of byte count, and more.
MaxQuantityRound(function) ==
    CASE function \in {ReadCoils, ReadDiscreteInputs} -> 2048
      [] function \in {ReadHoldingRegisters, ReadInputRegisters} -> 128
      [] function = WriteMultipleCoils -> 1968
      [] function = WriteMultipleRegs -> 123

MaxQuantity(function) ==
    CASE function \in {ReadCoils, ReadDiscreteInputs} -> 2000
      [] function \in {ReadHoldingRegisters, ReadInputRegisters} -> 125
      [] function = WriteMultipleCoils -> 1968
      [] function = WriteMultipleRegs -> 123

ByteCount(function, quantity) ==
    IF function \in OfBits THEN (quantity + 7) \div 8 ELSE 2 * quantity

\* parseReadRequest and the limit
ReadOK(pdu) ==
    /\ Function(pdu) \in Reads
    /\ Len(pdu) = 5
    /\ Field(pdu) \in 1..MaxQuantity(Function(pdu))

SingleOK(pdu) ==
    /\ Function(pdu) \in Singles
    /\ Len(pdu) = 5
    /\ Function(pdu) = WriteSingleCoil => Field(pdu) \in {0, 65280}

MultipleOK(pdu) ==
    /\ Function(pdu) \in Multiples
    /\ Len(pdu) >= 6
    /\ Field(pdu) \in 1..MaxQuantity(Function(pdu))
    /\ Len(pdu) = 6 + pdu[6]
    /\ pdu[6] = ByteCount(Function(pdu), Field(pdu))

WellFormed(pdu) == ReadOK(pdu) \/ SingleOK(pdu) \/ MultipleOK(pdu)

InBlock(pdu) == InRange(bank[BlockOf(Function(pdu))], AddressOf(pdu), Quantity(pdu))

\* The values that a write carries.
Values(pdu) ==
    CASE Function(pdu) = WriteSingleCoil -> <<Field(pdu) = 65280>>
      [] Function(pdu) = WriteSingleRegister -> <<Field(pdu)>>
      [] Function(pdu) = WriteMultipleCoils -> UnpackBools(Tail6(pdu), Field(pdu))
      [] Function(pdu) = WriteMultipleRegs -> WordsOf(Tail6(pdu))

-----------------------------------------------------------------------------
(* The handlers. *)

\* Variant: the upper bit is added.
ExceptionAdded(pdu, code) == <<Function(pdu) + 128, code>>

\* exceptionPDU; the upper bit of the function may be set already.
Exception(pdu, code) ==
    <<IF Function(pdu) >= 128 THEN Function(pdu) ELSE Function(pdu) + 128, code>>

Answer(pdu, bytes) ==
    /\ request' = pdu
    /\ reply' = bytes

Init ==
    /\ bank = Start
    /\ request = <<>>
    /\ reply = <<>>
    /\ written = [b \in DOMAIN Start |-> <<>>]

RefuseFunction(pdu) ==
    /\ Function(pdu) \notin Reads \union Singles \union Multiples
    /\ Answer(pdu, Exception(pdu, IllegalFunction))
    /\ UNCHANGED <<bank, written>>

RefuseValue(pdu) ==
    /\ Function(pdu) \in Reads \union Singles \union Multiples
    /\ ~WellFormed(pdu)
    /\ Answer(pdu, Exception(pdu, IllegalDataValue))
    /\ UNCHANGED <<bank, written>>

RefuseAddress(pdu) ==
    /\ WellFormed(pdu)
    /\ ~InBlock(pdu)
    /\ Answer(pdu, Exception(pdu, IllegalDataAddress))
    /\ UNCHANGED <<bank, written>>

\* handleReadBits and handleReadRegisters.  The byte count is one byte.
Read(pdu) ==
    /\ ReadOK(pdu)
    /\ InBlock(pdu)
    /\ LET values == Fetch(bank[BlockOf(Function(pdu))], AddressOf(pdu), Quantity(pdu))
           bytes  == IF Function(pdu) \in OfBits THEN PackBools(values) ELSE BigEndian(values)
       IN  Answer(pdu, <<Function(pdu), Len(bytes) % 256>> \o bytes)
    /\ UNCHANGED <<bank, written>>

\* The four write handlers; the answer is the head of the request.
Write(pdu) ==
    /\ SingleOK(pdu) \/ MultipleOK(pdu)
    /\ InBlock(pdu)
    /\ bank' = [bank EXCEPT ![BlockOf(Function(pdu))] = Store(@, AddressOf(pdu), Values(pdu))]
    /\ Answer(pdu, SubSeq(pdu, 1, 5))
    /\ written' = [written EXCEPT ![BlockOf(Function(pdu))] = pdu]

HandlePDU(pdu) ==
    \/ RefuseFunction(pdu)
    \/ RefuseValue(pdu)
    \/ RefuseAddress(pdu)
    \/ Read(pdu)
    \/ Write(pdu)

Next == \E pdu \in PDUs : HandlePDU(pdu)

Spec == Init /\ [][Next]_vars

-----------------------------------------------------------------------------
TypeOK ==
    /\ bank \in Bank
    /\ request \in PDUs \union {<<>>}
    /\ reply \in Seq(Byte)
    /\ written \in [DOMAIN Start -> PDUs \union {<<>>}]

IsException(bytes) == Len(bytes) = 2 /\ bytes[1] >= 128

\* An answer fits in a Modbus frame, and the byte count of a read's answer is
\* the number of bytes that follow, at the largest quantities as well
\* (the limits of server.go:243-249 against byte(len(...)), 278 and 297).
RepliesFit ==
    /\ Len(reply) <= 253
    /\ (reply # <<>> /\ reply[1] \in Reads) => reply[2] = Len(reply) - 2

\* The addresses that the last request names, if it is well formed.
Named == AddressOf(request)..(AddressOf(request) + Quantity(request) - 1)

\* A well-formed request is refused if and only if it names an address that its
\* block does not have: both ends of the block are exact (blockRange).
RefusedIffOutside ==
    (request # <<>> /\ WellFormed(request)) =>
        LET block == bank[BlockOf(Function(request))]
        IN  IsException(reply) <=>
              ~ (Named \subseteq block.start..(block.start + Len(block.values) - 1))

\* The data bytes of a write as a read of the same addresses returns them: the
\* bits beyond the quantity are zero.
DataBytes(pdu) ==
    CASE Function(pdu) = WriteSingleCoil -> <<IF Field(pdu) = 65280 THEN 1 ELSE 0>>
      [] Function(pdu) = WriteSingleRegister -> SubSeq(pdu, 4, 5)
      [] Function(pdu) = WriteMultipleRegs -> Tail6(pdu)
      [] Function(pdu) = WriteMultipleCoils ->
            [i \in 1..pdu[6] |->
                IF i < pdu[6] \/ Field(pdu) % 8 = 0 THEN pdu[6 + i]
                ELSE pdu[6 + i] % 2^(Field(pdu) % 8)]

\* A client reads back the bytes that it wrote, whatever was asked, refused and
\* written elsewhere in between: unpacking, storing, fetching and packing undo
\* one another (server.go:343-401, 430-446 and datastore.go:457-517).
ReadBack ==
    (request # <<>> /\ ReadOK(request)) =>
        LET last == written[BlockOf(Function(request))]
        IN  (/\ last # <<>>
             /\ AddressOf(last) = AddressOf(request)
             /\ Quantity(last) = Quantity(request))
            => SubSeq(reply, 3, Len(reply)) = DataBytes(last)

\* What a client reads is what the register map shows at the same moment: the rows
\* with the numbers that it named hold the values that it decodes, and no others unless
\* the block has more registers than there are numbers.  The rows are numbered in other
\* code than addresses are looked up in, in uint16 instead of int (registermap.go:34-57,
\* fynehmi/main.go:754-800 against datastore.go:519-529), so that a block which goes on
\* beyond address 65535, as Config.Validate lets it (config.go:191-227), has rows
\* numbered from 0 again: a client that is refused such a number sees a row for it, but
\* only one that lies beyond the last address.
MapShowsWhatIsRead ==
    (request # <<>> /\ ReadOK(request)) =>
        LET block  == bank[BlockOf(Function(request))]
            all    == 1..Len(block.values)
            rows   == Rows(block)
            data   == SubSeq(reply, 3, Len(reply))
            values == IF Function(request) \in OfBits
                      THEN UnpackBools(data, Quantity(request)) ELSE WordsOf(data)
            number == [i \in 1..Quantity(request) |-> (AddressOf(request) + i - 1) % (MaxWord + 1)]
            named  == {number[i] : i \in 1..Quantity(request)}
            read   == {[address |-> number[i], value |-> values[i]] : i \in 1..Quantity(request)}
            shown  == {rows[j] : j \in {k \in all : rows[k].address \in named}}
        IN  /\ ~IsException(reply) =>
                  read \subseteq shown /\ (Len(block.values) <= MaxWord + 1 => shown = read)
            /\ IsException(reply) /\ Quantity(request) = 1 =>
                  \A j \in all : rows[j].address \in named => block.start + j - 1 > MaxWord

\* Only an accepted write changes registers, only in its own block, and only at
\* the addresses that it names.
ChangesAreNamed ==
    [][\A b \in {c \in DOMAIN bank : bank'[c] # bank[c]} : \A i \in 1..Len(bank[b].values) :
          bank'[b].values[i] # bank[b].values[i] =>
             /\ ~IsException(reply')
             /\ b = BlockOf(Function(request'))
             /\ (bank[b].start + i - 1) \in Named']_vars
=============================================================================
