-------------------------- MODULE ModbusPDUProofs --------------------------
(***************************************************************************)
(* Proofs about ModbusPDU for every configured data model and all          *)
(* requests: the arithmetic of the blocks is exact, packing and unpacking  *)
(* undo one another, requests are refused for their address exactly when   *)
(* they reach outside, a request changes nothing but the registers that it *)
(* names, every answer fits in its frame, and what was written is read     *)
(* back and is what the register map shows.                                *)
(***************************************************************************)
EXTENDS ModbusPDU, TLAPS

-----------------------------------------------------------------------------
(* Blocks. *)

\* Words are the numbers up to MaxWord.
LEMMA WordShape ==
    /\ \A w \in Word : w \in Int /\ w \in Nat
    /\ \A n \in Nat : n <= MaxWord => n \in Word
<1>1. MaxWord \in Nat
  BY DEF MaxWord
<1> QED
  BY <1>1 DEF Word

\* Bytes are numbers up to 255.
LEMMA ByteShape == \A b \in Byte : b \in Nat /\ b <= 255
<1>1. MaxByte \in Nat /\ MaxByte = 255
  BY DEF MaxByte
<1> QED
  BY <1>1 DEF Byte

\* Two bytes make a word.
LEMMA TwoBytes == \A a, b \in Byte : 256 * a + b \in Word
<1>1. \A a, b \in Byte : 256 * a + b \in Nat /\ 256 * a + b <= MaxWord
  BY ByteShape DEF MaxWord
<1> QED
  BY <1>1, WordShape

\* What a block is made of.
LEMMA BlockShape ==
    ASSUME NEW V, NEW block \in Blocks(V)
    PROVE  /\ block = [start |-> block.start, values |-> block.values]
           /\ block.start \in Word /\ block.start \in Int
           /\ block.values \in Seq(V) /\ Len(block.values) \in Nat
<1>1. block.start \in Word /\ block.values \in Seq(V)
  BY DEF Blocks
<1>2. block = [start |-> block.start, values |-> block.values]
  BY DEF Blocks
<1> QED
  BY <1>1, <1>2, WordShape

\* blockRange accepts exactly the requests whose addresses the block has.
LEMMA InRangeIsExact ==
    ASSUME NEW V, NEW block \in Blocks(V), NEW address \in Word, NEW quantity \in Nat \ {0}
    PROVE  InRange(block, address, quantity) <=>
             address..(address + quantity - 1)
                \subseteq block.start..(block.start + Len(block.values) - 1)
<1>1. block.start \in Int /\ Len(block.values) \in Nat /\ address \in Int
  BY BlockShape, WordShape
<1>2. ASSUME InRange(block, address, quantity)
      PROVE  \A a \in address..(address + quantity - 1) :
                a \in block.start..(block.start + Len(block.values) - 1)
  BY <1>1, <1>2 DEF InRange
<1>3. ASSUME \A a \in address..(address + quantity - 1) :
                a \in block.start..(block.start + Len(block.values) - 1)
      PROVE  InRange(block, address, quantity)
  <2>1. /\ address \in address..(address + quantity - 1)
        /\ (address + quantity - 1) \in address..(address + quantity - 1)
    BY <1>1
  <2>2. /\ address \in block.start..(block.start + Len(block.values) - 1)
        /\ (address + quantity - 1) \in block.start..(block.start + Len(block.values) - 1)
    BY <1>3, <2>1
  <2> QED
    BY <1>1, <2>2 DEF InRange
<1> QED
  BY <1>2, <1>3

\* A write in range keeps the shape of the block, and every value that it does
\* not name.
LEMMA StoreIsLocal ==
    ASSUME NEW V, NEW block \in Blocks(V), NEW address \in Word, NEW new \in Seq(V),
           InRange(block, address, Len(new))
    PROVE  /\ Store(block, address, new) \in Blocks(V)
           /\ Store(block, address, new).start = block.start
           /\ Len(Store(block, address, new).values) = Len(block.values)
           /\ \A i \in 1..Len(block.values) :
                 Store(block, address, new).values[i] # block.values[i] =>
                    (block.start + i - 1) \in address..(address + Len(new) - 1)
<1> DEFINE first == address - block.start + 1
           last  == address - block.start + Len(new)
           vals  == [i \in 1..Len(block.values) |->
                       IF i \in first..last THEN new[i - first + 1] ELSE block.values[i]]
<1>1. /\ block = [start |-> block.start, values |-> block.values]
      /\ block.start \in Word /\ block.start \in Int /\ address \in Int
      /\ block.values \in Seq(V) /\ Len(block.values) \in Nat /\ Len(new) \in Nat
  BY BlockShape, WordShape
<1>2. Store(block, address, new) = [start |-> block.start, values |-> vals]
  BY <1>1 DEF Store
<1>3. \A i \in 1..Len(block.values) : vals[i] \in V
  <2> TAKE i \in 1..Len(block.values)
  <2>1. CASE i \in first..last
    <3>1. i - first + 1 \in 1..Len(new)
      BY <1>1, <2>1
    <3> QED
      BY <2>1, <3>1
  <2>2. CASE i \notin first..last
    BY <1>1, <2>2
  <2> QED
    BY <2>1, <2>2
<1>4. vals \in Seq(V) /\ Len(vals) = Len(block.values)
  BY <1>1, <1>3
<1>5. \A i \in 1..Len(block.values) :
         vals[i] # block.values[i] =>
            (block.start + i - 1) \in address..(address + Len(new) - 1)
  <2> TAKE i \in 1..Len(block.values)
  <2>1. i \notin first..last => vals[i] = block.values[i]
    OBVIOUS
  <2>2. i \in first..last => (block.start + i - 1) \in address..(address + Len(new) - 1)
    BY <1>1
  <2> QED
    BY <2>1, <2>2
<1> HIDE DEF vals
<1> QED
  BY <1>1, <1>2, <1>4, <1>5 DEF Blocks

\* What was written is read.
LEMMA FetchOfStore ==
    ASSUME NEW V, NEW block \in Blocks(V), NEW address \in Word, NEW new \in Seq(V),
           InRange(block, address, Len(new))
    PROVE  Fetch(Store(block, address, new), address, Len(new)) = new
<1> DEFINE vals == Store(block, address, new).values
           from == address - block.start
           got  == Fetch(Store(block, address, new), address, Len(new))
<1>1. /\ block.start \in Int /\ address \in Int
      /\ block.values \in Seq(V) /\ Len(block.values) \in Nat /\ Len(new) \in Nat
      /\ from >= 0 /\ from + Len(new) <= Len(block.values)
  BY BlockShape, WordShape DEF InRange
<1>2. /\ Store(block, address, new).start = block.start
      /\ vals \in Seq(V) /\ Len(vals) = Len(block.values)
  BY StoreIsLocal DEF Blocks
<1>3. \A i \in 1..Len(new) : vals[from + i] = new[i]
  BY <1>1 DEF Store, Blocks
<1>4. got = SubSeq(vals, from + 1, from + Len(new))
  BY <1>2 DEF Fetch
<1>0. from \in Int
  BY <1>1
<1> HIDE DEF vals, from
<1>5. /\ got \in Seq(V) /\ Len(got) = Len(new)
      /\ \A i \in 1..Len(new) : got[i] = vals[from + i]
  BY <1>0, <1>1, <1>2, <1>4
<1> QED
  BY <1>3, <1>5

-----------------------------------------------------------------------------
(* Requests. *)

\* The fields of a request are bytes and words.
LEMMA RequestShape ==
    ASSUME NEW pdu \in Seq(Byte), Len(pdu) >= 5
    PROVE  /\ Function(pdu) \in Byte
           /\ AddressOf(pdu) \in Word
           /\ Field(pdu) \in Nat
           /\ Field(pdu) \in Word
<1>1. \A i \in 1..5 : pdu[i] \in Byte
  OBVIOUS
<1>2. 256 * pdu[2] + pdu[3] \in Word /\ 256 * pdu[4] + pdu[5] \in Word
  BY <1>1, TwoBytes
<1>3. Function(pdu) = pdu[1]
  BY DEF Function
<1>4. AddressOf(pdu) = 256 * pdu[2] + pdu[3] /\ Field(pdu) = 256 * pdu[4] + pdu[5]
  BY DEF AddressOf, Field, Uint16At
<1> QED
  BY <1>1, <1>2, <1>3, <1>4, WordShape

\* A well-formed request has its five bytes and a quantity.
LEMMA WellFormedShape ==
    ASSUME NEW pdu \in Seq(Byte), WellFormed(pdu)
    PROVE  /\ Len(pdu) >= 5
           /\ Quantity(pdu) \in Nat \ {0}
<1>1. Len(pdu) >= 5
  BY DEF WellFormed, ReadOK, SingleOK, MultipleOK
<1>2. \A f \in Reads \union Multiples : MaxQuantity(f) \in Nat
  BY DEF Reads, Multiples, MaxQuantity, ReadCoils, ReadDiscreteInputs, ReadHoldingRegisters,
         ReadInputRegisters, WriteMultipleCoils, WriteMultipleRegs
<1>3. Field(pdu) \in Nat
  BY <1>1, RequestShape
<1>4. CASE Function(pdu) \in Singles
  BY <1>1, <1>4 DEF Quantity
<1>5. CASE Function(pdu) \notin Singles
  BY <1>1, <1>2, <1>3, <1>5 DEF WellFormed, ReadOK, SingleOK, MultipleOK, Quantity
<1> QED
  BY <1>4, <1>5

ValueSet(b) == IF b \in {"coils", "discrete"} THEN BOOLEAN ELSE Word

\* A write carries as many values of the right kind as it says.
LEMMA WriteShape ==
    ASSUME NEW pdu \in Seq(Byte), SingleOK(pdu) \/ MultipleOK(pdu)
    PROVE  /\ BlockOf(Function(pdu)) \in {"coils", "holding"}
           /\ Values(pdu) \in Seq(ValueSet(BlockOf(Function(pdu))))
           /\ Len(Values(pdu)) = Quantity(pdu)
<1> USE DEF WriteSingleCoil, WriteSingleRegister, WriteMultipleCoils, WriteMultipleRegs
<1>1. Len(pdu) >= 5 /\ WellFormed(pdu)
  BY WellFormedShape DEF WellFormed
<1>2. Field(pdu) \in Word /\ Field(pdu) \in Nat
  BY <1>1, RequestShape
<1>3. CASE Function(pdu) = 5
  <2>1. Values(pdu) = <<Field(pdu) = 65280>> /\ Quantity(pdu) = 1
    BY <1>3 DEF Values, Quantity, Singles
  <2>2. BlockOf(Function(pdu)) = "coils"
    BY <1>3 DEF BlockOf, ReadCoils, ReadDiscreteInputs, ReadInputRegisters
  <2> QED
    BY <2>1, <2>2 DEF ValueSet
<1>4. CASE Function(pdu) = 6
  <2>1. Values(pdu) = <<Field(pdu)>> /\ Quantity(pdu) = 1
    BY <1>4 DEF Values, Quantity, Singles
  <2>2. BlockOf(Function(pdu)) = "holding"
    BY <1>4 DEF BlockOf, ReadCoils, ReadDiscreteInputs, ReadInputRegisters
  <2> QED
    BY <1>2, <2>1, <2>2 DEF ValueSet
<1>5. CASE Function(pdu) = 15
  <2>1. Values(pdu) = UnpackBools(Tail6(pdu), Field(pdu)) /\ Quantity(pdu) = Field(pdu)
    BY <1>5 DEF Values, Quantity, Singles
  <2>2. BlockOf(Function(pdu)) = "coils"
    BY <1>5 DEF BlockOf, ReadCoils, ReadDiscreteInputs, ReadInputRegisters
  <2> QED
    <3>1. UnpackBools(Tail6(pdu), Field(pdu)) \in [1..Field(pdu) -> BOOLEAN]
      BY DEF UnpackBools
    <3>2. Values(pdu) \in Seq(BOOLEAN) /\ Len(Values(pdu)) = Field(pdu)
      BY <1>2, <2>1, <3>1
    <3> QED
      BY <2>1, <2>2, <3>2 DEF ValueSet
<1>6. CASE Function(pdu) = 16
  <2>1. Values(pdu) = WordsOf(Tail6(pdu)) /\ Quantity(pdu) = Field(pdu)
    BY <1>6 DEF Values, Quantity, Singles
  <2>2. BlockOf(Function(pdu)) = "holding"
    BY <1>6 DEF BlockOf, ReadCoils, ReadDiscreteInputs, ReadInputRegisters
  <2>3. Len(pdu) = 6 + 2 * Field(pdu)
    BY <1>6 DEF SingleOK, MultipleOK, Singles, ByteCount, OfBits, ReadCoils, ReadDiscreteInputs
  <2>4. Tail6(pdu) \in Seq(Byte) /\ Len(Tail6(pdu)) = 2 * Field(pdu)
    BY <1>2, <2>3 DEF Tail6
  <2>5. \A i \in 1..Field(pdu) : Uint16At(Tail6(pdu), 2 * i - 2) \in Word
    <3> TAKE i \in 1..Field(pdu)
    <3>1. 2 * i - 1 \in 1..Len(Tail6(pdu)) /\ 2 * i \in 1..Len(Tail6(pdu))
      BY <1>2, <2>4
    <3>2. Tail6(pdu)[2 * i - 1] \in Byte /\ Tail6(pdu)[2 * i] \in Byte
      BY <2>4, <3>1
    <3>3. Uint16At(Tail6(pdu), 2 * i - 2) = 256 * Tail6(pdu)[2 * i - 1] + Tail6(pdu)[2 * i]
      BY <1>2 DEF Uint16At
    <3> QED
      BY <3>2, <3>3, TwoBytes
  <2>6. WordsOf(Tail6(pdu)) = [i \in 1..Field(pdu) |-> Uint16At(Tail6(pdu), 2 * i - 2)]
    BY <1>2, <2>4 DEF WordsOf
  <2> QED
    BY <1>2, <2>1, <2>2, <2>5, <2>6 DEF ValueSet
<1> QED
  BY <1>3, <1>4, <1>5, <1>6 DEF SingleOK, MultipleOK, Singles, Multiples

-----------------------------------------------------------------------------
(* Bits, bytes and words. *)

\* The values of the bits of a byte.
LEMMA Powers ==
    /\ 2^0 = 1 /\ 2^1 = 2 /\ 2^2 = 4 /\ 2^3 = 8
    /\ 2^4 = 16 /\ 2^5 = 32 /\ 2^6 = 64 /\ 2^7 = 128
  OBVIOUS

\* The byte of eight bits, and the bits of a byte.
ByteOf(b) ==
    b[0] + 2 * b[1] + 4 * b[2] + 8 * b[3] + 16 * b[4] + 32 * b[5] + 64 * b[6] + 128 * b[7]

BitsOf(x) == [j \in 0..7 |-> (x \div 2^j) % 2]

\* Eight bits give a byte, of which they are the bits.
LEMMA BitsOfSum ==
    ASSUME NEW b \in [0..7 -> {0, 1}], NEW x, x = ByteOf(b)
    PROVE  x \in Byte /\ \A j \in 0..7 : (x \div 2^j) % 2 = b[j]
<1> USE DEF ByteOf
<1>1. \A j \in 0..7 : b[j] \in {0, 1}
  OBVIOUS
<1>2. x \in 0..255
  BY <1>1
<1>3. /\ b[0] \in {0,1} /\ b[1] \in {0,1} /\ b[2] \in {0,1} /\ b[3] \in {0,1}
      /\ b[4] \in {0,1} /\ b[5] \in {0,1} /\ b[6] \in {0,1} /\ b[7] \in {0,1}
  BY <1>1
<1>a. x \div 1 = x /\ x % 2 = b[0]
  BY <1>3
<1>b. x \div 2 = b[1] + 2 * b[2] + 4 * b[3] + 8 * b[4] + 16 * b[5] + 32 * b[6] + 64 * b[7]
  BY <1>3
<1>c. x \div 4 = b[2] + 2 * b[3] + 4 * b[4] + 8 * b[5] + 16 * b[6] + 32 * b[7]
  BY <1>3
<1>d. x \div 8 = b[3] + 2 * b[4] + 4 * b[5] + 8 * b[6] + 16 * b[7]
  BY <1>3
<1>e. x \div 16 = b[4] + 2 * b[5] + 4 * b[6] + 8 * b[7]
  BY <1>3
<1>f. x \div 32 = b[5] + 2 * b[6] + 4 * b[7]
  BY <1>3
<1>g. x \div 64 = b[6] + 2 * b[7]
  BY <1>3
<1>h. x \div 128 = b[7]
  BY <1>3
<1>5. /\ (x \div 2^0) % 2 = b[0] /\ (x \div 2^1) % 2 = b[1] /\ (x \div 2^2) % 2 = b[2]
      /\ (x \div 2^3) % 2 = b[3] /\ (x \div 2^4) % 2 = b[4] /\ (x \div 2^5) % 2 = b[5]
      /\ (x \div 2^6) % 2 = b[6] /\ (x \div 2^7) % 2 = b[7]
  <2>0. (x \div 2^0) % 2 = b[0]
    BY <1>3, <1>a, Powers
  <2>1. (x \div 2^1) % 2 = b[1]
    BY <1>3, <1>b, Powers
  <2>2. (x \div 2^2) % 2 = b[2]
    BY <1>3, <1>c, Powers
  <2>3. (x \div 2^3) % 2 = b[3]
    BY <1>3, <1>d, Powers
  <2>4. (x \div 2^4) % 2 = b[4]
    BY <1>3, <1>e, Powers
  <2>5. (x \div 2^5) % 2 = b[5]
    BY <1>3, <1>f, Powers
  <2>6. (x \div 2^6) % 2 = b[6]
    BY <1>3, <1>g, Powers
  <2>7. (x \div 2^7) % 2 = b[7]
    BY <1>3, <1>h, Powers
  <2> QED
    BY <2>0, <2>1, <2>2, <2>3, <2>4, <2>5, <2>6, <2>7
<1>6. \A j \in 0..7 : j \in {0, 1, 2, 3, 4, 5, 6, 7}
  OBVIOUS
<1>7. ASSUME NEW j \in {0, 1, 2, 3, 4, 5, 6, 7} PROVE (x \div 2^j) % 2 = b[j]
  BY <1>5, ZenonT(60)
<1> QED
  BY <1>2, <1>6, <1>7, ZenonT(60) DEF Byte, MaxByte

\* The bits of a byte are zeros and ones.
LEMMA BitsShape ==
    ASSUME NEW x \in Byte
    PROVE  BitsOf(x) \in [0..7 -> {0, 1}] /\ \A j \in 0..7 : BitsOf(x)[j] \in {0, 1}
<1>1. x \in Nat
  BY ByteShape
<1>2. /\ (x \div 2^0) % 2 \in {0, 1} /\ (x \div 2^1) % 2 \in {0, 1} /\ (x \div 2^2) % 2 \in {0, 1}
      /\ (x \div 2^3) % 2 \in {0, 1} /\ (x \div 2^4) % 2 \in {0, 1} /\ (x \div 2^5) % 2 \in {0, 1}
      /\ (x \div 2^6) % 2 \in {0, 1} /\ (x \div 2^7) % 2 \in {0, 1}
  BY <1>1, Powers
<1>3. ASSUME NEW j \in {0, 1, 2, 3, 4, 5, 6, 7}
      PROVE  (x \div 2^j) % 2 \in {0, 1}
  BY <1>2, Zenon
<1>4. \A j \in 0..7 : j \in {0, 1, 2, 3, 4, 5, 6, 7}
  OBVIOUS
<1>5. \A j \in 0..7 : (x \div 2^j) % 2 \in {0, 1}
  BY <1>3, <1>4
<1> QED
  BY <1>5 DEF BitsOf

\* The lowest bits of a byte are its remainder.
LEMMA LowBits ==
    ASSUME NEW x \in Byte
    PROVE  LET b == BitsOf(x)
           IN  /\ x % 2 = b[0]
               /\ x % 4 = b[0] + 2 * b[1]
               /\ x % 8 = b[0] + 2 * b[1] + 4 * b[2]
               /\ x % 16 = b[0] + 2 * b[1] + 4 * b[2] + 8 * b[3]
               /\ x % 32 = b[0] + 2 * b[1] + 4 * b[2] + 8 * b[3] + 16 * b[4]
               /\ x % 64 = b[0] + 2 * b[1] + 4 * b[2] + 8 * b[3] + 16 * b[4] + 32 * b[5]
               /\ x % 128 = b[0] + 2 * b[1] + 4 * b[2] + 8 * b[3] + 16 * b[4] + 32 * b[5]
                            + 64 * b[6]
               /\ x = ByteOf(b)
<1> DEFINE b == BitsOf(x)
<1>1. x \in Nat /\ x <= 255
  BY ByteShape
<1>2. /\ b[0] = x % 2 /\ b[1] = (x \div 2) % 2 /\ b[2] = (x \div 4) % 2 /\ b[3] = (x \div 8) % 2
      /\ b[4] = (x \div 16) % 2 /\ b[5] = (x \div 32) % 2 /\ b[6] = (x \div 64) % 2
      /\ b[7] = (x \div 128) % 2
  BY <1>1, Powers DEF BitsOf
<1> HIDE DEF b
<1>3. /\ x % 2 = b[0]
      /\ x % 4 = b[0] + 2 * b[1]
      /\ x % 8 = b[0] + 2 * b[1] + 4 * b[2]
      /\ x % 16 = b[0] + 2 * b[1] + 4 * b[2] + 8 * b[3]
      /\ x % 32 = b[0] + 2 * b[1] + 4 * b[2] + 8 * b[3] + 16 * b[4]
      /\ x % 64 = b[0] + 2 * b[1] + 4 * b[2] + 8 * b[3] + 16 * b[4] + 32 * b[5]
      /\ x % 128 = b[0] + 2 * b[1] + 4 * b[2] + 8 * b[3] + 16 * b[4] + 32 * b[5] + 64 * b[6]
      /\ x = ByteOf(b)
  BY <1>1, <1>2 DEF ByteOf
<1> QED
  BY <1>3 DEF b

\* A byte of which only the lowest m bits are kept.
LEMMA CutByte ==
    ASSUME NEW x \in Byte, NEW m \in 1..7, NEW c,
           \A j \in 0..7 : c[j] = IF j < m THEN BitsOf(x)[j] ELSE 0
    PROVE  x % 2^m = ByteOf(c)
<1> DEFINE b == BitsOf(x)
<1>1. \A j \in 0..7 : b[j] \in {0, 1}
  BY BitsShape
<1>2. /\ x % 2 = b[0]
      /\ x % 4 = b[0] + 2 * b[1]
      /\ x % 8 = b[0] + 2 * b[1] + 4 * b[2]
      /\ x % 16 = b[0] + 2 * b[1] + 4 * b[2] + 8 * b[3]
      /\ x % 32 = b[0] + 2 * b[1] + 4 * b[2] + 8 * b[3] + 16 * b[4]
      /\ x % 64 = b[0] + 2 * b[1] + 4 * b[2] + 8 * b[3] + 16 * b[4] + 32 * b[5]
      /\ x % 128 = b[0] + 2 * b[1] + 4 * b[2] + 8 * b[3] + 16 * b[4] + 32 * b[5] + 64 * b[6]
  BY LowBits
<1>3. \A j \in 0..7 : c[j] = IF j < m THEN b[j] ELSE 0
  OBVIOUS
<1> HIDE DEF b
<1>4. ByteOf(c) = CASE m = 1 -> b[0]
                    [] m = 2 -> b[0] + 2 * b[1]
                    [] m = 3 -> b[0] + 2 * b[1] + 4 * b[2]
                    [] m = 4 -> b[0] + 2 * b[1] + 4 * b[2] + 8 * b[3]
                    [] m = 5 -> b[0] + 2 * b[1] + 4 * b[2] + 8 * b[3] + 16 * b[4]
                    [] m = 6 -> b[0] + 2 * b[1] + 4 * b[2] + 8 * b[3] + 16 * b[4] + 32 * b[5]
                    [] m = 7 -> b[0] + 2 * b[1] + 4 * b[2] + 8 * b[3] + 16 * b[4] + 32 * b[5]
                                + 64 * b[6]
  BY <1>1, <1>3 DEF ByteOf
<1>m1. CASE m = 1
  BY <1>2, <1>4, <1>m1, Powers
<1>m2. CASE m = 2
  BY <1>2, <1>4, <1>m2, Powers
<1>m3. CASE m = 3
  BY <1>2, <1>4, <1>m3, Powers
<1>m4. CASE m = 4
  BY <1>2, <1>4, <1>m4, Powers
<1>m5. CASE m = 5
  BY <1>2, <1>4, <1>m5, Powers
<1>m6. CASE m = 6
  BY <1>2, <1>4, <1>m6, Powers
<1>m7. CASE m = 7
  BY <1>2, <1>4, <1>m7, Powers
<1> QED
  BY <1>m1, <1>m2, <1>m3, <1>m4, <1>m5, <1>m6, <1>m7

\* The place of a value: bit j of byte k.
LEMMA PlaceOf ==
    ASSUME NEW i \in Nat \ {0}
    PROVE  /\ (i + 7) \div 8 \in Nat \ {0} /\ (i - 1) % 8 \in 0..7
           /\ i = 8 * ((i + 7) \div 8) - 7 + ((i - 1) % 8)
  OBVIOUS

\* Whether bit j of byte k is set.
Bits(values, k) ==
    [j \in 0..7 |-> IF 8 * k - 7 + j <= Len(values) /\ values[8 * k - 7 + j] THEN 1 ELSE 0]

\* A packed byte is the byte of its eight values.
LEMMA PackedByte ==
    ASSUME NEW values \in Seq(BOOLEAN), NEW k \in 1..((Len(values) + 7) \div 8)
    PROVE  /\ Bits(values, k) \in [0..7 -> {0, 1}]
           /\ PackBools(values)[k] = ByteOf(Bits(values, k))
<1> DEFINE b == Bits(values, k)
<1>1. b \in [0..7 -> {0, 1}] /\ \A j \in 0..7 : b[j] \in {0, 1}
  BY DEF Bits
<1>2. \A j \in 0..7 : BitAt(values, k, j) = IF b[j] = 1 THEN 2^j ELSE 0
  BY DEF Bits, BitAt
<1>3. PackBools(values)[k] =
        BitAt(values, k, 0) + BitAt(values, k, 1) + BitAt(values, k, 2) + BitAt(values, k, 3)
        + BitAt(values, k, 4) + BitAt(values, k, 5) + BitAt(values, k, 6) + BitAt(values, k, 7)
  BY DEF PackBools
<1> HIDE DEF b
<1>4. /\ BitAt(values, k, 0) = b[0] /\ BitAt(values, k, 1) = 2 * b[1]
      /\ BitAt(values, k, 2) = 4 * b[2] /\ BitAt(values, k, 3) = 8 * b[3]
      /\ BitAt(values, k, 4) = 16 * b[4] /\ BitAt(values, k, 5) = 32 * b[5]
      /\ BitAt(values, k, 6) = 64 * b[6] /\ BitAt(values, k, 7) = 128 * b[7]
  BY <1>1, <1>2, Powers, SMTT(30)
<1>5. PackBools(values)[k] = ByteOf(b)
  BY <1>3, <1>4 DEF ByteOf
<1> QED
  BY <1>1, <1>5 DEF b

\* Packing gives one byte for eight values, and unpacking undoes it.
LEMMA UnpackOfPack ==
    ASSUME NEW values \in Seq(BOOLEAN)
    PROVE  /\ PackBools(values) \in Seq(Byte)
           /\ Len(PackBools(values)) = (Len(values) + 7) \div 8
           /\ UnpackBools(PackBools(values), Len(values)) = values
<1> DEFINE packed == PackBools(values)
           n == (Len(values) + 7) \div 8
<1>1. n \in Nat /\ Len(values) \in Nat
  OBVIOUS
<1>2. ASSUME NEW k \in 1..n
      PROVE  packed[k] \in Byte /\ \A j \in 0..7 : (packed[k] \div 2^j) % 2 = Bits(values, k)[j]
  BY <1>2, PackedByte, BitsOfSum
<1>3. packed = [k \in 1..n |-> packed[k]]
  BY DEF PackBools
<1> HIDE DEF packed, n
<1>4. packed \in Seq(Byte) /\ Len(packed) = n
  <2>1. \A k \in 1..n : packed[k] \in Byte
    BY <1>2
  <2> QED
    BY <1>1, <2>1, <1>3
<1>5. ASSUME NEW i \in 1..Len(values)
      PROVE  ((packed[(i + 7) \div 8] \div 2^((i - 1) % 8)) % 2 = 1) = values[i]
  <2> DEFINE k == (i + 7) \div 8
             j == (i - 1) % 8
  <2>1. k \in 1..n /\ j \in 0..7 /\ i = 8 * k - 7 + j
    BY <1>1, PlaceOf DEF n
  <2> HIDE DEF k, j
  <2>2. (packed[k] \div 2^j) % 2 = Bits(values, k)[j]
    BY <1>2, <2>1
  <2>3. (Bits(values, k)[j] = 1) = values[i]
    BY <2>1, SMTT(30) DEF Bits
  <2> QED
    BY <2>2, <2>3 DEF k, j
<1>6. UnpackBools(packed, Len(values)) = [i \in 1..Len(values) |-> values[i]]
  BY <1>5 DEF UnpackBools
<1> QED
  BY <1>4, <1>6 DEF packed, n

\* Unpacking n bits and packing them again gives the bytes, but for the bits of the
\* last one that are beyond n: these are zero.
LEMMA PackOfUnpack ==
    ASSUME NEW bytes \in Seq(Byte), NEW n \in Nat, Len(bytes) = (n + 7) \div 8
    PROVE  PackBools(UnpackBools(bytes, n)) =
             [k \in 1..Len(bytes) |->
                 IF k < Len(bytes) \/ n % 8 = 0 THEN bytes[k] ELSE bytes[k] % 2^(n % 8)]
<1> DEFINE values == UnpackBools(bytes, n)
<1>1. values \in Seq(BOOLEAN) /\ Len(values) = n /\ Len(bytes) \in Nat
  <2>1. values \in [1..n -> BOOLEAN]
    BY DEF UnpackBools
  <2> QED
    BY <2>1
<1>2. ASSUME NEW k \in 1..Len(bytes)
      PROVE  PackBools(values)[k] =
                 IF k < Len(bytes) \/ n % 8 = 0 THEN bytes[k] ELSE bytes[k] % 2^(n % 8)
  <2> DEFINE b == BitsOf(bytes[k])
             c == Bits(values, k)
  <2>1. bytes[k] \in Byte /\ k \in Nat \ {0} /\ bytes[k] \in Nat
    BY <1>1, ByteShape
  <2>2. b \in [0..7 -> {0, 1}] /\ \A j \in 0..7 : b[j] \in {0, 1}
    BY <2>1, BitsShape
  <2>3. \A j \in 0..7 : 8 * k - 7 + j <= n => values[8 * k - 7 + j] = (b[j] = 1)
    <3> TAKE j \in 0..7
    <3> DEFINE i == 8 * k - 7 + j
    <3> HAVE i <= n
    <3>1. i \in 1..n /\ (i + 7) \div 8 = k /\ (i - 1) % 8 = j
      BY <2>1
    <3> HIDE DEF i
    <3>2. values[i] = ((bytes[(i + 7) \div 8] \div 2^((i - 1) % 8)) % 2 = 1)
      BY <3>1 DEF UnpackBools
    <3> QED
      BY <3>1, <3>2 DEF i, BitsOf
  <2>4. c \in [0..7 -> {0, 1}]
        /\ \A j \in 0..7 : c[j] = IF 8 * k - 7 + j <= n THEN b[j] ELSE 0
    BY <1>1, <2>2, <2>3 DEF Bits
  <2>5. bytes[k] = ByteOf(b)
    BY <2>1, LowBits
  <2>6. PackBools(values)[k] = ByteOf(c)
    BY <1>1, <1>2, PackedByte
  <2> HIDE DEF c, values
  <2>7. CASE k < Len(bytes) \/ n % 8 = 0
    <3>1. 8 * k <= n
      BY <1>1, <2>1, <2>7
    <3>2. \A j \in 0..7 : c[j] = b[j]
      BY <2>1, <2>4, <3>1
    <3>3. ByteOf(c) = ByteOf(b)
      BY <3>2, SMTT(30) DEF ByteOf
    <3> QED
      BY <2>5, <2>6, <2>7, <3>3
  <2>8. CASE k = Len(bytes) /\ n % 8 # 0
    <3> DEFINE m == n % 8
    <3>1. m \in 1..7 /\ n = 8 * k - 8 + m
      BY <1>1, <2>1, <2>8
    <3> HIDE DEF m
    <3>2. \A j \in 0..7 : c[j] = IF j < m THEN b[j] ELSE 0
      BY <2>1, <2>4, <3>1
    <3>3. bytes[k] % 2^m = ByteOf(c)
      BY <2>1, <3>1, <3>2, CutByte
    <3> QED
      BY <1>1, <2>6, <2>8, <3>3 DEF m
  <2> QED
    BY <1>1, <1>2, <2>7, <2>8
<1>3. Len(PackBools(values)) = Len(bytes)
      /\ PackBools(values) = [k \in 1..Len(bytes) |-> PackBools(values)[k]]
  BY <1>1, UnpackOfPack DEF PackBools
<1> HIDE DEF values
<1> QED
  BY <1>2, <1>3 DEF values

\* The two bytes of a word are bytes, and make up the word again.
LEMMA BytesOfWord ==
    /\ \A w \in Word : /\ w \div 256 \in Byte /\ w % 256 \in Byte
                       /\ 256 * (w \div 256) + (w % 256) = w
    /\ \A a, b \in Byte : (256 * a + b) \div 256 = a /\ (256 * a + b) % 256 = b
<1>1. MaxWord \in Nat /\ MaxWord <= 65535
  BY DEF MaxWord
<1>2. \A w \in Word : w \in Nat /\ w <= 65535
  BY <1>1 DEF Word
<1> QED
  BY <1>2, ByteShape DEF Byte, MaxByte

\* Words that are sent as bytes are decoded again.
LEMMA WordsOfBigEndian ==
    ASSUME NEW words \in Seq(Word)
    PROVE  /\ BigEndian(words) \in Seq(Byte)
           /\ Len(BigEndian(words)) = 2 * Len(words)
           /\ WordsOf(BigEndian(words)) = words
<1> DEFINE n == Len(words)
           bytes == BigEndian(words)
<1>1. n \in Nat /\ \A i \in 1..n : words[i] \in Word
  OBVIOUS
<1>2. ASSUME NEW i \in 1..n
      PROVE  /\ bytes[2 * i - 1] = words[i] \div 256 /\ bytes[2 * i] = words[i] % 256
             /\ 2 * i - 1 \in 1..(2 * n) /\ 2 * i \in 1..(2 * n)
  <2>1. /\ 2 * i - 1 \in 1..(2 * n) /\ 2 * i \in 1..(2 * n)
        /\ (2 * i - 1) % 2 = 1 /\ (2 * i) % 2 = 0
        /\ ((2 * i - 1) + 1) \div 2 = i /\ (2 * i) \div 2 = i
    BY <1>1
  <2> QED
    BY <2>1 DEF BigEndian
<1>3. bytes = [m \in 1..(2 * n) |-> bytes[m]]
  BY DEF BigEndian
<1> HIDE DEF bytes
<1>4. \A m \in 1..(2 * n) : bytes[m] \in Byte
  <2> TAKE m \in 1..(2 * n)
  <2>1. PICK i \in 1..n : m = 2 * i - 1 \/ m = 2 * i
    <3>1. (m + 1) \div 2 \in 1..n /\ (m = 2 * ((m + 1) \div 2) - 1 \/ m = 2 * ((m + 1) \div 2))
      BY <1>1
    <3> QED
      BY <3>1
  <2>2. words[i] \div 256 \in Byte /\ words[i] % 256 \in Byte
    BY <1>1, BytesOfWord
  <2>3. bytes[2 * i - 1] \in Byte /\ bytes[2 * i] \in Byte
    BY <1>2, <2>2
  <2> QED
    BY <2>1, <2>3, Zenon
<1>5. bytes \in Seq(Byte) /\ Len(bytes) = 2 * n
  BY <1>1, <1>3, <1>4
<1>6. \A i \in 1..n : Uint16At(bytes, 2 * i - 2) = words[i]
  <2> TAKE i \in 1..n
  <2>1. Uint16At(bytes, 2 * i - 2) = 256 * bytes[2 * i - 1] + bytes[2 * i]
    BY <1>1 DEF Uint16At
  <2> QED
    BY <1>1, <1>2, <2>1, BytesOfWord
<1>7. WordsOf(bytes) = [i \in 1..n |-> words[i]]
  <2>1. Len(bytes) \div 2 = n
    BY <1>1, <1>5
  <2> QED
    BY <1>6, <2>1 DEF WordsOf
<1> QED
  BY <1>5, <1>7 DEF bytes

\* Bytes that were decoded as words are sent again.
LEMMA BigEndianOfWords ==
    ASSUME NEW bytes \in Seq(Byte), NEW n \in Nat, Len(bytes) = 2 * n
    PROVE  BigEndian(WordsOf(bytes)) = bytes
<1> DEFINE words == WordsOf(bytes)
<1>1. Len(bytes) \div 2 = n
  OBVIOUS
<1>2. \A i \in 1..n : words[i] = 256 * bytes[2 * i - 1] + bytes[2 * i]
  BY <1>1 DEF WordsOf, Uint16At
<1>3. \A i \in 1..n : words[i] \in Word /\ bytes[2 * i - 1] \in Byte /\ bytes[2 * i] \in Byte
  <2> TAKE i \in 1..n
  <2>1. 2 * i - 1 \in 1..Len(bytes) /\ 2 * i \in 1..Len(bytes)
    OBVIOUS
  <2> QED
    BY <1>2, <2>1, TwoBytes
<1>4. words \in Seq(Word) /\ Len(words) = n
  <2>1. words = [i \in 1..n |-> words[i]]
    BY <1>1 DEF WordsOf
  <2> HIDE DEF words
  <2> QED
    BY <1>3, <2>1
<1> HIDE DEF words
<1>5. ASSUME NEW m \in 1..(2 * n)
      PROVE  (IF m % 2 = 1 THEN words[(m + 1) \div 2] \div 256 ELSE words[m \div 2] % 256)
             = bytes[m]
  <2>1. CASE m % 2 = 1
    <3> DEFINE i == (m + 1) \div 2
    <3>1. i \in 1..n /\ m = 2 * i - 1
      BY <2>1
    <3> HIDE DEF i
    <3>2. words[i] \div 256 = bytes[2 * i - 1]
      BY <1>2, <1>3, <3>1, BytesOfWord
    <3> QED
      BY <2>1, <3>1, <3>2 DEF i
  <2>2. CASE m % 2 # 1
    <3> DEFINE i == m \div 2
    <3>1. i \in 1..n /\ m = 2 * i
      BY <2>2
    <3> HIDE DEF i
    <3>2. words[i] % 256 = bytes[2 * i]
      BY <1>2, <1>3, <3>1, BytesOfWord
    <3> QED
      BY <2>2, <3>1, <3>2 DEF i
  <2> QED
    BY <2>1, <2>2
<1>6. BigEndian(words) = [m \in 1..(2 * n) |-> bytes[m]]
  BY <1>4, <1>5, SMTT(30) DEF BigEndian
<1> QED
  BY <1>6 DEF words

-----------------------------------------------------------------------------
(* Steps. *)

\* The blocks keep their place and size, and a well-formed request is answered
\* by an exception exactly if it is not in range.
IInv ==
    /\ \A b \in {"coils", "discrete", "holding", "input"} : bank[b] \in Blocks(ValueSet(b))
    /\ DOMAIN bank = {"coils", "discrete", "holding", "input"}
    /\ bank = [b \in DOMAIN bank |-> bank[b]]
    /\ request \in Seq(Byte)
    /\ request # <<>> /\ WellFormed(request) => (IsException(reply) <=> ~InBlock(request))

\* The device starts in the invariant.
LEMMA InitOK == Init => IInv
<1> SUFFICES ASSUME Init PROVE IInv
  OBVIOUS
<1>1. bank \in Bank
  BY PDUAssumption DEF PDUAssumption, Init
<1>2. /\ bank.coils \in Blocks(BOOLEAN) /\ bank.discrete \in Blocks(BOOLEAN)
      /\ bank.holding \in Blocks(Word) /\ bank.input \in Blocks(Word)
      /\ DOMAIN bank = {"coils", "discrete", "holding", "input"}
      /\ bank = [b \in DOMAIN bank |-> bank[b]]
  BY <1>1 DEF Bank
<1> QED
  BY <1>2 DEF IInv, Init, ValueSet

\* A write replaces one block by one of the same place and size, and changes the
\* named values only.
LEMMA WriteStep ==
    ASSUME IInv, NEW pdu \in Seq(Byte), Write(pdu)
    PROVE  LET b == BlockOf(Function(pdu))
           IN  /\ b \in DOMAIN bank /\ WellFormed(pdu)
               /\ bank' = [bank EXCEPT ![b] = Store(bank[b], AddressOf(pdu), Values(pdu))]
               /\ bank'[b] \in Blocks(ValueSet(b))
               /\ bank'[b].start = bank[b].start
               /\ Len(bank'[b].values) = Len(bank[b].values)
               /\ \A i \in 1..Len(bank[b].values) :
                     bank'[b].values[i] # bank[b].values[i] =>
                        (bank[b].start + i - 1)
                            \in AddressOf(pdu)..(AddressOf(pdu) + Quantity(pdu) - 1)
<1> DEFINE b == BlockOf(Function(pdu))
<1>1. WellFormed(pdu) /\ (SingleOK(pdu) \/ MultipleOK(pdu)) /\ InBlock(pdu)
  BY DEF Write, WellFormed
<1>2. /\ b \in {"coils", "holding"} /\ Len(pdu) >= 5
      /\ Values(pdu) \in Seq(ValueSet(b)) /\ Len(Values(pdu)) = Quantity(pdu)
  BY <1>1, WriteShape, WellFormedShape
<1>3. bank' = [bank EXCEPT ![b] = Store(bank[b], AddressOf(pdu), Values(pdu))]
  BY DEF Write
<1>4. b \in DOMAIN bank /\ bank[b] \in Blocks(ValueSet(b))
  BY <1>2 DEF IInv
<1>5. AddressOf(pdu) \in Word /\ InRange(bank[b], AddressOf(pdu), Len(Values(pdu)))
  BY <1>1, <1>2, RequestShape DEF InBlock
<1>6. bank'[b] = Store(bank[b], AddressOf(pdu), Values(pdu))
  BY <1>3, <1>4
<1> HIDE DEF b
<1>7. /\ bank'[b] \in Blocks(ValueSet(b))
      /\ bank'[b].start = bank[b].start
      /\ Len(bank'[b].values) = Len(bank[b].values)
      /\ \A i \in 1..Len(bank[b].values) :
            bank'[b].values[i] # bank[b].values[i] =>
               (bank[b].start + i - 1)
                   \in AddressOf(pdu)..(AddressOf(pdu) + Len(Values(pdu)) - 1)
  BY <1>2, <1>4, <1>5, <1>6, StoreIsLocal
<1> QED
  BY <1>1, <1>2, <1>3, <1>4, <1>7 DEF b

\* The answer to a read starts with the function, the answer to a write is five
\* bytes long: neither is an exception.
LEMMA ReadAnswer ==
    ASSUME NEW pdu \in Seq(Byte), Read(pdu)
    PROVE  ~IsException(reply')
<1> DEFINE values == Fetch(bank[BlockOf(Function(pdu))], AddressOf(pdu), Quantity(pdu))
           bytes  == IF Function(pdu) \in OfBits THEN PackBools(values) ELSE BigEndian(values)
<1>1. reply' = <<Function(pdu), Len(bytes) % 256>> \o bytes
  BY DEF Read, Answer
<1>2. Function(pdu) \in Reads
  BY DEF Read, ReadOK
<1>3. Function(pdu) < 128
  BY <1>2 DEF Reads, ReadCoils, ReadDiscreteInputs, ReadHoldingRegisters, ReadInputRegisters
<1>4. Len(reply') = 2 => reply'[1] = Function(pdu)
  BY <1>1
<1> QED
  BY <1>2, <1>3, <1>4 DEF IsException, Reads, ReadCoils, ReadDiscreteInputs,
     ReadHoldingRegisters, ReadInputRegisters

\* Whether a request is in range depends on the places and sizes only.
LEMMA SameRange ==
    ASSUME IInv, NEW pdu \in Seq(Byte), Write(pdu)
    PROVE  InBlock(pdu)'
<1> DEFINE b == BlockOf(Function(pdu))
<1>1. bank'[b].start = bank[b].start /\ Len(bank'[b].values) = Len(bank[b].values)
  BY WriteStep
<1>2. InRange(bank[b], AddressOf(pdu), Quantity(pdu))
  BY DEF Write, InBlock
<1>3. InRange(bank'[b], AddressOf(pdu), Quantity(pdu))
  BY <1>1, <1>2 DEF InRange
<1> QED
  BY <1>3 DEF InBlock

\* Every request keeps the invariant.
LEMMA NextOK == PDUs \subseteq Seq(Byte) /\ IInv /\ [Next]_vars => IInv'
<1> SUFFICES ASSUME PDUs \subseteq Seq(Byte), IInv, [Next]_vars PROVE IInv'
  OBVIOUS
<1>1. ASSUME NEW pdu \in Seq(Byte),
             RefuseFunction(pdu) \/ RefuseValue(pdu) \/ RefuseAddress(pdu) \/ Read(pdu)
      PROVE  IInv'
  <2>1. bank' = bank /\ request' = pdu
    BY <1>1 DEF RefuseFunction, RefuseValue, RefuseAddress, Read, Answer
  <2>2. WellFormed(pdu) => (IsException(reply') <=> ~InBlock(pdu))
    <3>1. CASE RefuseFunction(pdu)
      BY <3>1 DEF RefuseFunction, WellFormed, ReadOK, SingleOK, MultipleOK
    <3>2. CASE RefuseValue(pdu)
      BY <3>2 DEF RefuseValue
    <3>3. CASE RefuseAddress(pdu)
      <4>1. reply' = Exception(pdu, IllegalDataAddress) /\ ~InBlock(pdu) /\ WellFormed(pdu)
        BY <3>3 DEF RefuseAddress, Answer
      <4>2. Function(pdu) \in Nat
        BY <4>1, WellFormedShape, RequestShape, ByteShape
      <4> QED
        BY <4>1, <4>2 DEF Exception, IsException
    <3>4. CASE Read(pdu)
      BY <3>4, ReadAnswer DEF Read
    <3> QED
      BY <1>1, <3>1, <3>2, <3>3, <3>4
  <2>3. InBlock(pdu)' <=> InBlock(pdu)
    BY <2>1 DEF InBlock
  <2> QED
    BY <2>1, <2>2, <2>3 DEF IInv
<1>2. ASSUME NEW pdu \in Seq(Byte), Write(pdu)
      PROVE  IInv'
  <2> DEFINE b == BlockOf(Function(pdu))
  <2>1. /\ b \in DOMAIN bank /\ WellFormed(pdu)
        /\ bank' = [bank EXCEPT ![b] = Store(bank[b], AddressOf(pdu), Values(pdu))]
        /\ bank'[b] \in Blocks(ValueSet(b))
    BY <1>2, WriteStep
  <2>2. InBlock(pdu)'
    BY <1>2, SameRange
  <2>3. request' = pdu /\ reply' = SubSeq(pdu, 1, 5)
    BY <1>2 DEF Write, Answer
  <2>4. Len(reply') = 5
    BY <2>1, <2>3, WellFormedShape
  <2> HIDE DEF b
  <2>5. \A c \in DOMAIN bank : bank'[c] \in Blocks(ValueSet(c))
    BY <2>1 DEF IInv
  <2>6. DOMAIN bank' = DOMAIN bank /\ bank' = [c \in DOMAIN bank' |-> bank'[c]]
    BY <2>1 DEF IInv
  <2> QED
    BY <2>2, <2>3, <2>4, <2>5, <2>6 DEF IInv, IsException
<1>3. CASE UNCHANGED vars
  BY <1>3 DEF vars, IInv, InBlock
<1> QED
  BY <1>1, <1>2, <1>3 DEF Next, HandlePDU

\* The invariant always holds.
LEMMA Inductive == Spec => []IInv
<1>1. PDUs \subseteq Seq(Byte)
  BY PDUAssumption DEF PDUAssumption
<1> QED
  BY <1>1, InitOK, NextOK, PTL DEF Spec

-----------------------------------------------------------------------------
\* Whatever the blocks and the requests: a well-formed request is refused exactly
\* if it names an address that its block does not have (blockRange, exception 2).
THEOREM Refusals == Spec => []RefusedIffOutside
<1>1. IInv => RefusedIffOutside
  <2> SUFFICES ASSUME IInv, request # <<>>, WellFormed(request)
               PROVE  LET block == bank[BlockOf(Function(request))]
                      IN  IsException(reply) <=>
                            ~ (Named \subseteq block.start..(block.start + Len(block.values) - 1))
    BY DEF RefusedIffOutside
  <2> DEFINE b == BlockOf(Function(request))
  <2>1. b \in {"coils", "discrete", "holding", "input"}
    BY DEF BlockOf
  <2>2. bank[b] \in Blocks(ValueSet(b))
    BY <2>1 DEF IInv
  <2>3. /\ AddressOf(request) \in Word /\ Quantity(request) \in Nat \ {0}
        /\ request \in Seq(Byte)
    BY WellFormedShape, RequestShape DEF IInv
  <2>4. InBlock(request) <=> InRange(bank[b], AddressOf(request), Quantity(request))
    BY DEF InBlock
  <2> HIDE DEF b
  <2>5. InRange(bank[b], AddressOf(request), Quantity(request)) <=>
          Named \subseteq bank[b].start..(bank[b].start + Len(bank[b].values) - 1)
    BY <2>2, <2>3, InRangeIsExact DEF Named
  <2> QED
    BY <2>4, <2>5 DEF IInv, b
<1> QED
  BY <1>1, Inductive, PTL

\* Nothing but an accepted write changes a register, and it changes registers of
\* its own block at the addresses that it names only (server.go:305-401).
THEOREM Changes == Spec => ChangesAreNamed
<1> DEFINE A == \A b \in {c \in DOMAIN bank : bank'[c] # bank[c]} :
                   \A i \in 1..Len(bank[b].values) :
                      bank'[b].values[i] # bank[b].values[i] =>
                         /\ ~IsException(reply')
                         /\ b = BlockOf(Function(request'))
                         /\ (bank[b].start + i - 1) \in Named'
<1>1. PDUs \subseteq Seq(Byte)
  BY PDUAssumption DEF PDUAssumption
<1>2. ASSUME IInv, Next, bank' # bank
      PROVE  A
  <2>1. PICK pdu \in Seq(Byte) : Write(pdu)
    BY <1>1, <1>2 DEF Next, HandlePDU, RefuseFunction, RefuseValue, RefuseAddress, Read
  <2> DEFINE w == BlockOf(Function(pdu))
  <2>2. request' = pdu /\ reply' = SubSeq(pdu, 1, 5)
    BY <2>1 DEF Write, Answer
  <2>3. /\ w \in DOMAIN bank /\ WellFormed(pdu)
        /\ bank' = [bank EXCEPT ![w] = Store(bank[w], AddressOf(pdu), Values(pdu))]
        /\ \A i \in 1..Len(bank[w].values) :
              bank'[w].values[i] # bank[w].values[i] =>
                 (bank[w].start + i - 1)
                     \in AddressOf(pdu)..(AddressOf(pdu) + Quantity(pdu) - 1)
    BY <1>2, <2>1, WriteStep
  <2>4. ~IsException(reply')
    BY <2>2, <2>3, WellFormedShape DEF IsException
  <2>5. Named' = AddressOf(pdu)..(AddressOf(pdu) + Quantity(pdu) - 1)
    BY <2>2 DEF Named
  <2>6. \A b \in DOMAIN bank : bank'[b] # bank[b] => b = w
    BY <2>3
  <2> HIDE DEF w
  <2> SUFFICES ASSUME NEW b \in DOMAIN bank, bank'[b] # bank[b],
                      NEW i \in 1..Len(bank[b].values),
                      bank'[b].values[i] # bank[b].values[i]
               PROVE  b = w /\ (bank[w].start + i - 1) \in Named'
    BY <2>2, <2>4 DEF w
  <2> QED
    BY <2>3, <2>5, <2>6
<1>3. ASSUME IInv, [Next]_vars
      PROVE  [A]_vars
  BY <1>2, <1>3 DEF vars
<1> QED
  BY <1>3, Inductive, PTL DEF Spec, ChangesAreNamed

-----------------------------------------------------------------------------
(* What a read is answered with. *)

\* The values that a read asks for, and how they are sent.
Asked(pdu) == Fetch(bank[BlockOf(Function(pdu))], AddressOf(pdu), Quantity(pdu))

Encoded(function, values) ==
    IF function \in OfBits THEN PackBools(values) ELSE BigEndian(values)

Decoded(function, bytes, quantity) ==
    IF function \in OfBits THEN UnpackBools(bytes, quantity) ELSE WordsOf(bytes)

\* The functions of a block of bits are those of bits.
LEMMA BitsAndWords ==
    ASSUME NEW function \in Reads
    PROVE  /\ BlockOf(function) \in {"coils", "discrete", "holding", "input"}
           /\ ValueSet(BlockOf(function)) = IF function \in OfBits THEN BOOLEAN ELSE Word
  BY DEF Reads, OfBits, BlockOf, ValueSet, ReadCoils, ReadDiscreteInputs, ReadHoldingRegisters,
         ReadInputRegisters, WriteSingleCoil, WriteMultipleCoils

\* A request within the limits is answered with 250 bytes at most.
LEMMA MostBytes ==
    ASSUME NEW function \in Reads, NEW quantity, quantity \in 1..MaxQuantity(function)
    PROVE  ByteCount(function, quantity) \in 0..250
<1> USE DEF Reads, ReadCoils, ReadDiscreteInputs, ReadHoldingRegisters, ReadInputRegisters,
        WriteSingleCoil, WriteSingleRegister, WriteMultipleCoils, WriteMultipleRegs
<1>1. CASE function \in {1, 2}
  <2>1. MaxQuantity(function) = 2000
    BY <1>1 DEF MaxQuantity
  <2> QED
    BY <1>1, <2>1 DEF ByteCount, OfBits
<1>2. CASE function \in {3, 4}
  <2>1. MaxQuantity(function) = 125
    BY <1>2 DEF MaxQuantity
  <2> QED
    BY <1>2, <2>1 DEF ByteCount, OfBits
<1> QED
  BY <1>1, <1>2

\* The fields of a well-formed read, and the bytes that it is answered with.
LEMMA Limits ==
    ASSUME NEW pdu \in Seq(Byte), ReadOK(pdu)
    PROVE  /\ Function(pdu) \in Reads /\ Quantity(pdu) = Field(pdu)
           /\ Field(pdu) \in Nat \ {0} /\ AddressOf(pdu) \in Word /\ Function(pdu) \in Byte
           /\ ByteCount(Function(pdu), Field(pdu)) \in 0..250
<1>1. Function(pdu) \in Reads /\ Len(pdu) >= 5
  BY DEF ReadOK
<1>2. AddressOf(pdu) \in Word /\ Function(pdu) \in Byte
  BY <1>1, RequestShape
<1>3. Quantity(pdu) = Field(pdu) /\ Field(pdu) \in Nat \ {0}
  <2>1. Quantity(pdu) = Field(pdu)
    BY <1>1 DEF Quantity, Singles, Reads, ReadCoils, ReadDiscreteInputs,
       ReadHoldingRegisters, ReadInputRegisters, WriteSingleCoil, WriteSingleRegister
  <2> QED
    BY <2>1, WellFormedShape DEF WellFormed
<1>4. Field(pdu) \in 1..MaxQuantity(Function(pdu))
  BY DEF ReadOK
<1>5. ByteCount(Function(pdu), Field(pdu)) \in 0..250
  BY <1>1, <1>4, MostBytes, Zenon
<1> QED
  BY <1>1, <1>2, <1>3, <1>5

\* Encoding gives the bytes that the byte count says, and a client decodes the values.
LEMMA Encoding ==
    ASSUME NEW function \in Reads, NEW values \in Seq(ValueSet(BlockOf(function)))
    PROVE  /\ Encoded(function, values) \in Seq(Byte)
           /\ Len(Encoded(function, values)) = ByteCount(function, Len(values))
           /\ Decoded(function, Encoded(function, values), Len(values)) = values
<1>1. CASE function \in OfBits
  <2>1. values \in Seq(BOOLEAN)
    BY <1>1, BitsAndWords
  <2> QED
    BY <1>1, <2>1, UnpackOfPack DEF Encoded, Decoded, ByteCount
<1>2. CASE function \notin OfBits
  <2>1. values \in Seq(Word)
    BY <1>2, BitsAndWords
  <2> QED
    BY <1>2, <2>1, WordsOfBigEndian DEF Encoded, Decoded, ByteCount
<1> QED
  BY <1>1, <1>2

\* A request in range is answered with values of its block.
LEMMA AskedShape ==
    ASSUME NEW V, NEW block \in Blocks(V), NEW address \in Word, NEW quantity \in Nat,
           InRange(block, address, quantity)
    PROVE  /\ Fetch(block, address, quantity) \in Seq(V)
           /\ Len(Fetch(block, address, quantity)) = quantity
           /\ \A i \in 1..quantity :
                 /\ address - block.start + i \in 1..Len(block.values)
                 /\ Fetch(block, address, quantity)[i] = block.values[address - block.start + i]
<1> DEFINE from == address - block.start
           vals == block.values
<1>1. /\ block.start \in Int /\ address \in Int
      /\ vals \in Seq(V) /\ Len(vals) \in Nat
      /\ from \in Nat /\ from + quantity <= Len(vals)
  BY BlockShape, WordShape DEF InRange
<1>2. Fetch(block, address, quantity) = SubSeq(vals, from + 1, from + quantity)
  BY DEF Fetch
<1> HIDE DEF from, vals
<1>3. /\ SubSeq(vals, from + 1, from + quantity) \in Seq(V)
      /\ Len(SubSeq(vals, from + 1, from + quantity)) = quantity
      /\ \A i \in 1..quantity : from + i \in 1..Len(vals)
            /\ SubSeq(vals, from + 1, from + quantity)[i] = vals[from + i]
  BY <1>1
<1> QED
  BY <1>2, <1>3 DEF from, vals

\* What a read in range asks for, and its encoding, have the sizes that it says.
LEMMA ReadStep ==
    ASSUME IInv, NEW pdu \in Seq(Byte), ReadOK(pdu), InBlock(pdu)
    PROVE  /\ Asked(pdu) \in Seq(ValueSet(BlockOf(Function(pdu))))
           /\ Len(Asked(pdu)) = Field(pdu)
           /\ Encoded(Function(pdu), Asked(pdu)) \in Seq(Byte)
           /\ Len(Encoded(Function(pdu), Asked(pdu))) = ByteCount(Function(pdu), Field(pdu))
<1> DEFINE b == BlockOf(Function(pdu))
<1>1. /\ Function(pdu) \in Reads /\ Quantity(pdu) = Field(pdu)
      /\ Field(pdu) \in Nat /\ AddressOf(pdu) \in Word
  BY Limits
<1>2. b \in {"coils", "discrete", "holding", "input"}
  BY <1>1, BitsAndWords
<1>3. bank[b] \in Blocks(ValueSet(b)) /\ InRange(bank[b], AddressOf(pdu), Field(pdu))
  BY <1>1, <1>2 DEF IInv, InBlock
<1>4. Asked(pdu) = Fetch(bank[b], AddressOf(pdu), Field(pdu))
  BY <1>1 DEF Asked
<1> HIDE DEF b
<1>5. Asked(pdu) \in Seq(ValueSet(b)) /\ Len(Asked(pdu)) = Field(pdu)
  BY <1>1, <1>3, <1>4, AskedShape
<1>6. /\ Encoded(Function(pdu), Asked(pdu)) \in Seq(Byte)
      /\ Len(Encoded(Function(pdu), Asked(pdu))) = ByteCount(Function(pdu), Len(Asked(pdu)))
  BY <1>1, <1>5, Encoding, Zenon DEF b
<1> QED
  BY <1>5, <1>6 DEF b

\* The answer to a read: two bytes and the data.
LEMMA ReadReply ==
    ASSUME IInv, NEW pdu \in Seq(Byte), Read(pdu)
    PROVE  /\ reply' \in Seq(Byte) /\ Len(reply') <= 252
           /\ reply'[1] = Function(pdu) /\ reply'[2] = Len(reply') - 2
           /\ SubSeq(reply', 3, Len(reply')) = Encoded(Function(pdu), Asked(pdu))
<1> DEFINE bytes == Encoded(Function(pdu), Asked(pdu))
           n == Len(bytes)
<1>1. ReadOK(pdu) /\ InBlock(pdu) /\ reply' = <<Function(pdu), n % 256>> \o bytes
  BY DEF Read, Answer, Encoded, Asked
<1>2. bytes \in Seq(Byte) /\ n \in 0..250 /\ Function(pdu) \in Byte
  BY <1>1, ReadStep, Limits
<1> HIDE DEF bytes, n
<1>3. n % 256 = n /\ n \in Byte /\ n \in Nat
  BY <1>2 DEF Byte, MaxByte
<1>4. reply' = <<Function(pdu), n>> \o bytes
  BY <1>1, <1>3
<1>5. Len(bytes) = n
  BY DEF n
<1>6. /\ reply' \in Seq(Byte) /\ Len(reply') = n + 2
      /\ reply'[1] = Function(pdu) /\ reply'[2] = n
      /\ \A i \in 1..n : reply'[i + 2] = bytes[i]
  BY <1>2, <1>3, <1>4, <1>5
<1>7. SubSeq(reply', 3, Len(reply')) = bytes
  BY <1>2, <1>3, <1>5, <1>6
<1> QED
  BY <1>2, <1>6, <1>7 DEF bytes

\* A function on 1..1 is a sequence of one.
LEMMA Single ==
    ASSUME NEW v
    PROVE  [i \in 1..1 |-> v] = <<v>>
  OBVIOUS

\* The function of a refusal has its upper bit set.
LEMMA Flagged ==
    \A f \in Byte : (IF f >= 128 THEN f ELSE f + 128) \in {g \in Byte : g >= 128}
  BY DEF Byte, MaxByte

\* What a write carries, encoded again as the answer to a read of the same block, is
\* its data bytes.
LEMMA EncodedWrite ==
    ASSUME NEW pdu \in Seq(Byte), SingleOK(pdu) \/ MultipleOK(pdu),
           NEW function \in Reads, BlockOf(function) = BlockOf(Function(pdu))
    PROVE  Encoded(function, Values(pdu)) = DataBytes(pdu)
<1> USE DEF WriteSingleCoil, WriteSingleRegister, WriteMultipleCoils, WriteMultipleRegs
<1>1. Len(pdu) >= 5 /\ \A i \in 1..5 : pdu[i] \in Byte
  BY WellFormedShape DEF WellFormed
<1>2. Field(pdu) \in Nat /\ Field(pdu) = 256 * pdu[4] + pdu[5] /\ Field(pdu) \in Word
  BY <1>1, RequestShape DEF Field, Uint16At
<1>3. CASE Function(pdu) = 5
  <2>1. function \in OfBits
    BY <1>3 DEF Reads, OfBits, BlockOf, ReadCoils, ReadDiscreteInputs, ReadHoldingRegisters,
       ReadInputRegisters
  <2> DEFINE v == <<Field(pdu) = 65280>>
  <2>2. Values(pdu) = v /\ DataBytes(pdu) = <<IF Field(pdu) = 65280 THEN 1 ELSE 0>>
    BY <1>3 DEF Values, DataBytes
  <2>3. v \in Seq(BOOLEAN) /\ Len(v) = 1 /\ v[1] = (Field(pdu) = 65280)
    OBVIOUS
  <2> HIDE DEF v
  <2>4. PackBools(v)[1] = IF v[1] THEN 1 ELSE 0
    <3>1. PackBools(v)[1] = ByteOf(Bits(v, 1))
      <4>1. 1 \in 1..((Len(v) + 7) \div 8)
        BY <2>3
      <4>2. v \in Seq(BOOLEAN)
        BY <2>3
      <4> QED
        BY <4>1, <4>2, PackedByte
    <3>2. \A j \in 0..7 : Bits(v, 1)[j] = IF j = 0 /\ v[1] THEN 1 ELSE 0
      BY <2>3 DEF Bits
    <3>3. /\ Bits(v, 1)[1] = 0 /\ Bits(v, 1)[2] = 0 /\ Bits(v, 1)[3] = 0
          /\ Bits(v, 1)[4] = 0 /\ Bits(v, 1)[5] = 0 /\ Bits(v, 1)[6] = 0 /\ Bits(v, 1)[7] = 0
      BY <3>2
    <3>4. Bits(v, 1)[0] = IF v[1] THEN 1 ELSE 0
      BY <3>2
    <3>5. Bits(v, 1)[0] \in {0, 1}
      BY <3>4
    <3> QED
      BY <3>1, <3>3, <3>4, <3>5 DEF ByteOf
  <2>5. PackBools(v) \in Seq(Byte) /\ Len(PackBools(v)) = 1
    BY <2>3, UnpackOfPack
  <2>6. PackBools(v) = <<PackBools(v)[1]>>
    BY <2>5
  <2> QED
    BY <2>1, <2>2, <2>3, <2>4, <2>6 DEF Encoded
<1>4. CASE Function(pdu) = 6
  <2>1. function \notin OfBits
    BY <1>4 DEF Reads, OfBits, BlockOf, ReadCoils, ReadDiscreteInputs, ReadHoldingRegisters,
       ReadInputRegisters
  <2> DEFINE d == SubSeq(pdu, 4, 5)
  <2>2. Values(pdu) = <<Field(pdu)>> /\ DataBytes(pdu) = d
    BY <1>4 DEF Values, DataBytes
  <2>3. d \in Seq(Byte) /\ Len(d) = 2 /\ d[1] = pdu[4] /\ d[2] = pdu[5]
    BY <1>1
  <2> HIDE DEF d
  <2>4. WordsOf(d) = <<Field(pdu)>>
    <3>1. Len(d) \div 2 = 1 /\ Uint16At(d, 0) = Field(pdu)
      BY <1>2, <2>3 DEF Uint16At
    <3>2. WordsOf(d) = [i \in 1..1 |-> Uint16At(d, 2 * i - 2)]
      BY <3>1 DEF WordsOf
    <3>4. \A i \in 1..1 : Uint16At(d, 2 * i - 2) = Uint16At(d, 0)
      OBVIOUS
    <3>3. WordsOf(d) = <<Uint16At(d, 0)>>
      BY <3>2, <3>4, Single
    <3> QED
      BY <3>1, <3>3
  <2>5. BigEndian(WordsOf(d)) = d
    <3>1. 1 \in Nat /\ Len(d) = 2 * 1
      BY <2>3
    <3> QED
      BY <2>3, <3>1, BigEndianOfWords, Zenon
  <2> QED
    BY <2>1, <2>2, <2>4, <2>5 DEF Encoded
<1>5. CASE Function(pdu) = 15
  <2>1. function \in OfBits
    BY <1>5 DEF Reads, OfBits, BlockOf, ReadCoils, ReadDiscreteInputs, ReadHoldingRegisters,
       ReadInputRegisters
  <2> DEFINE d == Tail6(pdu)
             n == Field(pdu)
  <2>2. Len(pdu) >= 6 /\ Len(pdu) = 6 + pdu[6] /\ pdu[6] = (n + 7) \div 8
    BY <1>5 DEF SingleOK, MultipleOK, Singles, ByteCount, OfBits
  <2>3. Values(pdu) = UnpackBools(d, n)
    BY <1>5 DEF Values
  <2>4. DataBytes(pdu) =
          [i \in 1..pdu[6] |-> IF i < pdu[6] \/ n % 8 = 0 THEN pdu[6 + i]
                               ELSE pdu[6 + i] % 2^(n % 8)]
    BY <1>5 DEF DataBytes
  <2>5. /\ d \in Seq(Byte) /\ Len(d) = pdu[6] /\ pdu[6] \in Nat
        /\ \A i \in 1..pdu[6] : d[i] = pdu[6 + i]
    <3>1. pdu[6] \in Nat
      BY <2>2, ByteShape
    <3>2. d = SubSeq(pdu, 7, Len(pdu))
      BY DEF Tail6
    <3> HIDE DEF d
    <3> QED
      BY <2>2, <3>1, <3>2
  <2> HIDE DEF d, n
  <2>6. n \in Nat
    BY <1>2 DEF n
  <2>7. PackBools(UnpackBools(d, n)) =
          [k \in 1..Len(d) |-> IF k < Len(d) \/ n % 8 = 0 THEN d[k] ELSE d[k] % 2^(n % 8)]
    BY <2>2, <2>5, <2>6, PackOfUnpack
  <2> QED
    BY <2>1, <2>3, <2>4, <2>5, <2>7 DEF Encoded
<1>6. CASE Function(pdu) = 16
  <2>1. function \notin OfBits
    BY <1>6 DEF Reads, OfBits, BlockOf, ReadCoils, ReadDiscreteInputs, ReadHoldingRegisters,
       ReadInputRegisters
  <2>2. Len(pdu) = 6 + 2 * Field(pdu)
    BY <1>6 DEF SingleOK, MultipleOK, Singles, ByteCount, OfBits, ReadCoils, ReadDiscreteInputs
  <2>3. Tail6(pdu) \in Seq(Byte) /\ Len(Tail6(pdu)) = 2 * Field(pdu)
    BY <1>2, <2>2 DEF Tail6
  <2>4. Values(pdu) = WordsOf(Tail6(pdu)) /\ DataBytes(pdu) = Tail6(pdu)
    BY <1>6 DEF Values, DataBytes
  <2> QED
    BY <1>2, <2>1, <2>3, <2>4, BigEndianOfWords DEF Encoded
<1> QED
  BY <1>3, <1>4, <1>5, <1>6 DEF SingleOK, MultipleOK, Singles, Multiples

-----------------------------------------------------------------------------
(* What is remembered between a write and a read. *)

\* What the last accepted write of a block carried is still there.
Kept(b) ==
    written[b] # <<>> =>
        /\ written[b] \in Seq(Byte)
        /\ SingleOK(written[b]) \/ MultipleOK(written[b])
        /\ BlockOf(Function(written[b])) = b
        /\ InBlock(written[b])
        /\ Asked(written[b]) = Values(written[b])

\* The answer to a read holds what is in the block, and every answer fits.
Answered ==
    /\ reply \in Seq(Byte)
    /\ RepliesFit
    /\ (request # <<>> /\ ReadOK(request) /\ InBlock(request)) =>
          SubSeq(reply, 3, Len(reply)) = Encoded(Function(request), Asked(request))

\* The blocks stay where they were configured.
Placed ==
    \A b \in DOMAIN Start : /\ bank[b].start = Start[b].start
                            /\ Len(bank[b].values) = Len(Start[b].values)

Names == {"coils", "discrete", "holding", "input"}

Remembers ==
    /\ IInv
    /\ DOMAIN Start = Names
    /\ written \in [Names -> PDUs \union {<<>>}]
    /\ request \in PDUs \union {<<>>}
    /\ \A b \in Names : Kept(b)
    /\ Answered
    /\ Placed

\* At the start nothing has been written or answered.
LEMMA RemembersInit == Init => Remembers
<1> SUFFICES ASSUME Init PROVE Remembers
  OBVIOUS
<1>1. IInv
  BY InitOK
<1>2. DOMAIN Start = Names
  BY PDUAssumption DEF PDUAssumption, Bank, Names
<1>3. Answered
  BY DEF Answered, RepliesFit, Init
<1>4. Placed
  BY DEF Placed, Init
<1>5. written \in [Names -> PDUs \union {<<>>}] /\ \A b \in Names : written[b] = <<>>
  BY <1>2 DEF Init
<1>6. request \in PDUs \union {<<>>}
  BY DEF Init
<1> QED
  BY <1>1, <1>2, <1>3, <1>4, <1>5, <1>6 DEF Remembers, Kept

\* A refusal is two bytes, of which the first is that of no function.
LEMMA RefusalReply ==
    ASSUME NEW pdu \in Seq(Byte) \ {<<>>},
           RefuseFunction(pdu) \/ RefuseValue(pdu) \/ RefuseAddress(pdu)
    PROVE  /\ reply' \in Seq(Byte) /\ RepliesFit'
           /\ request' = pdu /\ bank' = bank /\ written' = written
           /\ ReadOK(pdu) => ~InBlock(pdu)
<1>1. PICK code \in {1, 2, 3} : reply' = Exception(pdu, code)
  BY DEF RefuseFunction, RefuseValue, RefuseAddress, Answer, IllegalFunction,
     IllegalDataAddress, IllegalDataValue
<1>2. Function(pdu) \in Byte
  BY DEF Function
<1>3. Exception(pdu, code) \in Seq(Byte) /\ Len(Exception(pdu, code)) = 2
      /\ Exception(pdu, code)[1] >= 128
  <2> DEFINE f == IF Function(pdu) >= 128 THEN Function(pdu) ELSE Function(pdu) + 128
  <2>1. Exception(pdu, code) = <<f, code>> /\ f \in Byte /\ f >= 128
    BY <1>2, Flagged, Zenon DEF Exception
  <2> HIDE DEF f
  <2>2. code \in Byte
    BY DEF Byte, MaxByte
  <2> QED
    BY <2>1, <2>2
<1>4. RepliesFit'
  BY <1>1, <1>3 DEF RepliesFit, Reads, ReadCoils, ReadDiscreteInputs, ReadHoldingRegisters,
     ReadInputRegisters
<1>5. request' = pdu /\ bank' = bank /\ written' = written
  BY DEF RefuseFunction, RefuseValue, RefuseAddress, Answer
<1>6. ReadOK(pdu) => ~InBlock(pdu)
  BY DEF RefuseFunction, RefuseValue, RefuseAddress, ReadOK, WellFormed
<1> QED
  BY <1>1, <1>3, <1>4, <1>5, <1>6

\* A step that leaves the blocks alone leaves every last write where it was.
LEMMA KeptSame ==
    ASSUME Remembers, bank' = bank, written' = written
    PROVE  (\A b \in Names : Kept(b)') /\ Placed'
  BY DEF Remembers, Kept, Asked, InBlock, Placed

\* A write leaves its own values, and replaces whatever was written to its block
\* before; the other blocks keep theirs.
LEMMA KeptByWrite ==
    ASSUME Remembers, NEW pdu \in Seq(Byte) \ {<<>>}, Write(pdu)
    PROVE  (\A b \in Names : Kept(b)') /\ Placed'
<1> DEFINE w == BlockOf(Function(pdu))
<1>1. IInv /\ DOMAIN Start = Names /\ DOMAIN bank = Names /\ DOMAIN written = Names
  BY DEF Remembers, IInv, Names
<1>2. /\ SingleOK(pdu) \/ MultipleOK(pdu)
      /\ InBlock(pdu)
      /\ written' = [written EXCEPT ![w] = pdu]
  BY DEF Write
<1>3. /\ w \in DOMAIN bank /\ WellFormed(pdu)
      /\ bank' = [bank EXCEPT ![w] = Store(bank[w], AddressOf(pdu), Values(pdu))]
      /\ bank'[w].start = bank[w].start
      /\ Len(bank'[w].values) = Len(bank[w].values)
  BY <1>1, WriteStep
<1>4. Values(pdu) \in Seq(ValueSet(w)) /\ Len(Values(pdu)) = Quantity(pdu)
  BY <1>2, WriteShape
<1>5. InBlock(pdu)'
  BY <1>1, SameRange
<1>6. AddressOf(pdu) \in Word /\ bank[w] \in Blocks(ValueSet(w))
      /\ InRange(bank[w], AddressOf(pdu), Len(Values(pdu)))
  <2>1. AddressOf(pdu) \in Word
    BY <1>3, WellFormedShape, RequestShape
  <2>2. bank[w] \in Blocks(ValueSet(w))
    BY <1>1, <1>3 DEF IInv, Names
  <2> QED
    BY <1>2, <1>4, <2>1, <2>2 DEF InBlock
<1>7. Asked(pdu)' = Values(pdu)
  <2>1. bank'[w] = Store(bank[w], AddressOf(pdu), Values(pdu))
    BY <1>3
  <2>2. Fetch(Store(bank[w], AddressOf(pdu), Values(pdu)), AddressOf(pdu), Len(Values(pdu)))
            = Values(pdu)
    BY <1>4, <1>6, FetchOfStore
  <2> QED
    BY <1>4, <2>1, <2>2 DEF Asked
<1>8. Kept(w)'
  <2>1. written'[w] = pdu
    BY <1>1, <1>2, <1>3
  <2> QED
    BY <1>2, <1>5, <1>7, <2>1 DEF Kept
<1>9. ASSUME NEW b \in Names, b # w
      PROVE  Kept(b)'
  <2>1. written'[b] = written[b] /\ bank'[b] = bank[b]
    BY <1>1, <1>2, <1>3, <1>9
  <2>2. Kept(b)
    BY DEF Remembers
  <2> QED
    BY <2>1, <2>2 DEF Kept, Asked, InBlock
<1>10. Placed'
  <2> SUFFICES ASSUME NEW b \in DOMAIN Start
               PROVE  bank'[b].start = Start[b].start
                      /\ Len(bank'[b].values) = Len(Start[b].values)
    BY DEF Placed
  <2>1. bank[b].start = Start[b].start /\ Len(bank[b].values) = Len(Start[b].values)
    BY DEF Remembers, Placed
  <2>2. b # w => bank'[b] = bank[b]
    BY <1>1, <1>3
  <2> QED
    BY <1>3, <2>1, <2>2
<1> QED
  BY <1>8, <1>9, <1>10

\* Every request keeps what is remembered.
LEMMA RemembersNext == PDUs \subseteq Seq(Byte) \ {<<>>} /\ Remembers /\ [Next]_vars => Remembers'
<1> SUFFICES ASSUME PDUs \subseteq Seq(Byte) \ {<<>>}, Remembers, [Next]_vars PROVE Remembers'
  OBVIOUS
<1>1. IInv /\ IInv'
  BY NextOK DEF Remembers
<1>2. DOMAIN Start = Names
  BY DEF Remembers
<1>3. ASSUME NEW pdu \in PDUs, RefuseFunction(pdu) \/ RefuseValue(pdu) \/ RefuseAddress(pdu)
      PROVE  Remembers'
  <2>1. /\ reply' \in Seq(Byte) /\ RepliesFit'
        /\ request' = pdu /\ bank' = bank /\ written' = written
        /\ ReadOK(pdu) => ~InBlock(pdu)
    BY <1>3, RefusalReply
  <2>2. Answered'
    BY <2>1 DEF Answered, InBlock
  <2>3. (\A b \in Names : Kept(b)') /\ Placed'
    BY <2>1, KeptSame
  <2> QED
    BY <1>1, <1>2, <2>1, <2>2, <2>3 DEF Remembers
<1>4. ASSUME NEW pdu \in PDUs, Read(pdu)
      PROVE  Remembers'
  <2>1. /\ reply' \in Seq(Byte) /\ Len(reply') <= 252
        /\ reply'[1] = Function(pdu) /\ reply'[2] = Len(reply') - 2
        /\ SubSeq(reply', 3, Len(reply')) = Encoded(Function(pdu), Asked(pdu))
    BY <1>1, <1>4, ReadReply
  <2>2. request' = pdu /\ bank' = bank /\ written' = written
    BY <1>4 DEF Read, Answer
  <2>3. RepliesFit'
    BY <2>1 DEF RepliesFit
  <2>4. Answered'
    BY <2>1, <2>2, <2>3 DEF Answered, Asked
  <2>5. (\A b \in Names : Kept(b)') /\ Placed'
    BY <2>2, KeptSame
  <2> QED
    BY <1>1, <1>2, <2>2, <2>4, <2>5 DEF Remembers
<1>5. ASSUME NEW pdu \in PDUs, Write(pdu)
      PROVE  Remembers'
  <2>1. request' = pdu /\ reply' = SubSeq(pdu, 1, 5)
        /\ written' = [written EXCEPT ![BlockOf(Function(pdu))] = pdu]
    BY <1>5 DEF Write, Answer
  <2>2. WellFormed(pdu) /\ Len(pdu) >= 5
    BY <1>5, WellFormedShape DEF Write, WellFormed
  <2>3. reply' \in Seq(Byte) /\ Len(reply') = 5 /\ reply'[1] = Function(pdu)
    BY <2>1, <2>2 DEF Function
  <2>4. Function(pdu) \in Singles \union Multiples
    BY <1>5 DEF Write, SingleOK, MultipleOK
  <2>5. Function(pdu) \notin Reads
    BY <2>4 DEF Singles, Multiples, Reads, ReadCoils, ReadDiscreteInputs, ReadHoldingRegisters,
       ReadInputRegisters, WriteSingleCoil, WriteSingleRegister, WriteMultipleCoils,
       WriteMultipleRegs
  <2>6. RepliesFit'
    BY <2>3, <2>5 DEF RepliesFit
  <2>7. Answered'
    BY <2>1, <2>3, <2>5, <2>6 DEF Answered, ReadOK
  <2>8. (\A b \in Names : Kept(b)') /\ Placed'
    BY <1>5, KeptByWrite
  <2>9. written' \in [Names -> PDUs \union {<<>>}]
    BY <2>1 DEF Remembers
  <2> QED
    BY <1>1, <1>2, <2>1, <2>7, <2>8, <2>9 DEF Remembers
<1>6. CASE UNCHANGED vars
  <2>1. bank' = bank /\ request' = request /\ reply' = reply /\ written' = written
    BY <1>6 DEF vars
  <2>2. (\A b \in Names : Kept(b)') /\ Placed'
    BY <2>1, KeptSame
  <2>3. Answered'
    BY <2>1 DEF Remembers, Answered, RepliesFit, InBlock, Asked
  <2> QED
    BY <1>1, <2>1, <2>2, <2>3 DEF Remembers
<1> QED
  BY <1>3, <1>4, <1>5, <1>6 DEF Next, HandlePDU

\* The stronger invariant always holds.
LEMMA Remembered == Spec => []Remembers
<1>1. PDUs \subseteq Seq(Byte) \ {<<>>}
  BY PDUAssumption DEF PDUAssumption
<1> QED
  BY <1>1, RemembersInit, RemembersNext, PTL DEF Spec

\* Every variable keeps its type, for every data model and all requests: the blocks stay
\* blocks of their kind and every answer is a sequence of bytes (server.go:239-446).
THEOREM Typing == Spec => []TypeOK
<1>1. Remembers => TypeOK
  <2> SUFFICES ASSUME Remembers PROVE TypeOK
    OBVIOUS
  <2>1. /\ bank.coils \in Blocks(BOOLEAN) /\ bank.discrete \in Blocks(BOOLEAN)
        /\ bank.holding \in Blocks(Word) /\ bank.input \in Blocks(Word)
    BY DEF Remembers, IInv, ValueSet
  <2>2. bank = [b \in Names |-> bank[b]]
    BY DEF Remembers, IInv, Names
  <2>3. bank \in Bank
    BY <2>1, <2>2 DEF Bank, Names
  <2> QED
    BY <2>3 DEF TypeOK, Remembers, Answered
<1> QED
  BY <1>1, Remembered, PTL

\* Every answer fits in a Modbus frame, and the byte count of a read's answer is the
\* number of bytes that follow (server.go:243-249, 278, 297).
THEOREM Fits == Spec => []RepliesFit
<1>1. Remembers => RepliesFit
  BY DEF Remembers, Answered
<1> QED
  BY <1>1, Remembered, PTL

\* A read of the addresses of the last write to a block returns the bytes of that write,
\* whatever the blocks, the quantities and the requests in between (server.go:343-401,
\* 430-446, datastore.go:457-517).
THEOREM WrittenIsRead == Spec => []ReadBack
<1>1. Remembers => ReadBack
  <2> SUFFICES ASSUME Remembers, request # <<>>, ReadOK(request),
                      written[BlockOf(Function(request))] # <<>>,
                      AddressOf(written[BlockOf(Function(request))]) = AddressOf(request),
                      Quantity(written[BlockOf(Function(request))]) = Quantity(request)
               PROVE  SubSeq(reply, 3, Len(reply)) = DataBytes(written[BlockOf(Function(request))])
    BY DEF ReadBack
  <2> DEFINE b == BlockOf(Function(request))
             last == written[b]
  <2>1. b \in Names /\ Function(request) \in Reads
    BY BitsAndWords DEF ReadOK, Names
  <2>2. /\ last \in Seq(Byte)
        /\ SingleOK(last) \/ MultipleOK(last)
        /\ BlockOf(Function(last)) = b
        /\ InBlock(last)
        /\ Asked(last) = Values(last)
    BY <2>1 DEF Remembers, Kept
  <2>3. InBlock(request) /\ Asked(request) = Values(last)
    BY <2>2 DEF InBlock, Asked
  <2>4. SubSeq(reply, 3, Len(reply)) = Encoded(Function(request), Values(last))
    BY <2>3 DEF Remembers, Answered
  <2>5. Encoded(Function(request), Values(last)) = DataBytes(last)
    BY <2>1, <2>2, EncodedWrite
  <2> QED
    BY <2>4, <2>5
<1> QED
  BY <1>1, Remembered, PTL

\* The rows of the register map are numbered modulo 65536.
LEMMA RowsNumbered ==
    ASSUME NEW V, NEW block \in Blocks(V), NEW j \in 1..Len(block.values)
    PROVE  /\ Rows(block)[j] = [address |-> (block.start + j - 1) % (MaxWord + 1),
                                value |-> block.values[j]]
           /\ Rows(block)[j].address = (block.start + j - 1) % (MaxWord + 1)
<1> DEFINE a == (block.start + j - 1) % (MaxWord + 1)
<1>1. Rows(block)[j] = [address |-> a, value |-> block.values[j]]
  BY DEF Rows
<1>2. \A x, y : [address |-> x, value |-> y].address = x
  OBVIOUS
<1> QED
  BY <1>1, <1>2, Zenon

\* Numbers that are less than 65536 apart are not the same modulo 65536.
LEMMA NoMeeting ==
    ASSUME NEW x \in Nat, NEW y \in Nat, x < y + 65536, y < x + 65536,
           x % (MaxWord + 1) = y % (MaxWord + 1)
    PROVE  x = y
<1>1. MaxWord + 1 = 65536
  BY DEF MaxWord
<1>2. x % 65536 = y % 65536
  BY <1>1
<1> QED
  BY <1>2

\* The rows under the numbers of a request show some values, and only those if the block
\* has no more values than there are addresses.
RowsShow(block, a, q, values) ==
    LET rows   == Rows(block)
        number == [i \in 1..q |-> (a + i - 1) % (MaxWord + 1)]
        named  == {number[i] : i \in 1..q}
        read   == {[address |-> number[i], value |-> values[i]] : i \in 1..q}
        shown  == {rows[j] : j \in {k \in 1..Len(block.values) : rows[k].address \in named}}
    IN  read \subseteq shown /\ (Len(block.values) <= MaxWord + 1 => shown = read)

\* The rows of a request that is in range show the values that it is answered with.
LEMMA RowsOfRequest ==
    ASSUME NEW V, NEW block \in Blocks(V),
           NEW a \in Word, NEW q \in Nat, InRange(block, a, q)
    PROVE  RowsShow(block, a, q, Fetch(block, a, q))
<1> DEFINE rows == Rows(block)
           vals == block.values
           values == Fetch(block, a, q)
           n == Len(block.values)
           s == block.start
           from == a - s
           number == [i \in 1..q |-> (a + i - 1) % (MaxWord + 1)]
           named  == {number[i] : i \in 1..q}
           read   == {[address |-> number[i], value |-> values[i]] : i \in 1..q}
           shown  == {rows[j] : j \in {k \in 1..n : rows[k].address \in named}}
<1>1. /\ s \in Int /\ s >= 0 /\ n \in Int /\ n >= 0 /\ a \in Int /\ a >= 0
      /\ q \in Int /\ from \in Int /\ from >= 0 /\ a = s + from
  BY BlockShape, WordShape DEF InRange
<1>2. \A i \in 1..q : from + i \in 1..n /\ values[i] = vals[from + i]
  BY AskedShape
<1>3. \A j \in 1..n : /\ rows[j] = [address |-> (s + j - 1) % (MaxWord + 1), value |-> vals[j]]
                        /\ rows[j].address = (s + j - 1) % (MaxWord + 1)
  BY RowsNumbered
<1>4. \A i \in 1..q : number[i] = (a + i - 1) % (MaxWord + 1)
  OBVIOUS
<1> HIDE DEF rows, values, n, s, vals, from, number
<1>5. \A i \in 1..q : rows[from + i] = [address |-> number[i], value |-> values[i]]
                      /\ rows[from + i].address = number[i]
  <2> TAKE i \in 1..q
  <2>1. s + (from + i) - 1 = a + i - 1
    BY <1>1
  <2> QED
    BY <1>2, <1>3, <1>4, <2>1, ZenonT(60)
<1>6. read \subseteq shown
  <2>1. ASSUME NEW i \in 1..q
        PROVE  [address |-> number[i], value |-> values[i]] \in shown
    <3>1. /\ from + i \in 1..n /\ rows[from + i].address \in named
          /\ rows[from + i] = [address |-> number[i], value |-> values[i]]
      BY <1>2, <1>5
    <3> HIDE DEF named
    <3> QED
      BY <3>1
  <2> QED
    BY <2>1
<1>7. ASSUME n <= MaxWord + 1, NEW j \in 1..n, rows[j].address \in named
      PROVE  rows[j] \in read
  <2>1. PICK i \in 1..q : rows[j].address = number[i]
    BY <1>7
  <2>2. (s + j - 1) % (MaxWord + 1) = (a + i - 1) % (MaxWord + 1)
    BY <1>3, <1>4, <2>1
  <2>3. from + i \in 1..n /\ n <= 65536 /\ j \in Nat /\ i \in Nat
    BY <1>1, <1>2, <1>7 DEF MaxWord
  <2>4. /\ s + j - 1 \in Nat /\ a + i - 1 \in Nat
        /\ s + j - 1 < (a + i - 1) + 65536 /\ a + i - 1 < (s + j - 1) + 65536
    BY <1>1, <2>3
  <2>5. s + j - 1 = a + i - 1
    BY <2>2, <2>4, NoMeeting
  <2>6. j = from + i
    BY <1>1, <2>3, <2>5
  <2> QED
    BY <1>5, <2>6
<1>8. n <= MaxWord + 1 => shown = read
  BY <1>6, <1>7
<1> QED
  BY <1>6, <1>8 DEF RowsShow, rows, values, n, number

\* Addresses up to the last one do not wrap.
LEMMA NoWrap ==
    ASSUME NEW start \in Nat, NEW n \in Nat, NEW j \in 1..n, start + j - 1 <= 65535
    PROVE  (start + j - 1) % 65536 = start + j - 1
<1>1. start + j - 1 \in Nat
  OBVIOUS
<1>2. \A k \in Nat : k <= 65535 => k % 65536 = k
  OBVIOUS
<1> QED
  BY <1>1, <1>2

\* A row with the number of an address that the block does not have lies beyond the last
\* address.
LEMMA RowsBeyond ==
    ASSUME NEW V, NEW block \in Blocks(V), NEW a \in Word, ~InRange(block, a, 1),
           NEW j \in 1..Len(block.values), Rows(block)[j].address = a
    PROVE  block.start + j - 1 > MaxWord
<1>1. /\ block.start \in Nat /\ Len(block.values) \in Nat
      /\ a \in Nat /\ MaxWord + 1 = 65536
  BY BlockShape, WordShape DEF MaxWord
<1>2. (block.start + j - 1) % (MaxWord + 1) = a
  BY RowsNumbered
<1>3. ~ (block.start + j - 1 <= 65535)
  <2> SUFFICES ASSUME block.start + j - 1 <= 65535 PROVE FALSE
    OBVIOUS
  <2>1. (block.start + j - 1) % 65536 = block.start + j - 1
    BY <1>1, NoWrap
  <2>2. a = block.start + j - 1
    BY <1>1, <1>2, <2>1
  <2> QED
    BY <1>1, <2>2 DEF InRange
<1> QED
  BY <1>1, <1>3 DEF MaxWord

\* Whatever the blocks, also those that go on beyond the last address: what a client reads
\* is what the register map shows under the numbers that it named, and a number that it is
\* refused has a row only beyond the last address
\* (registermap.go:34-57 against datastore.go:519-529).
THEOREM MapIsTrue == Spec => []MapShowsWhatIsRead
<1>1. Remembers => MapShowsWhatIsRead
  <2> SUFFICES ASSUME Remembers, request # <<>>, ReadOK(request)
               PROVE  MapShowsWhatIsRead
    BY DEF MapShowsWhatIsRead
  <2> DEFINE b      == BlockOf(Function(request))
             data   == SubSeq(reply, 3, Len(reply))
             a      == AddressOf(request)
             q      == Quantity(request)
             values == IF Function(request) \in OfBits
                       THEN UnpackBools(data, q) ELSE WordsOf(data)
             rows   == Rows(bank[b])
             all    == 1..Len(bank[b].values)
             number == [i \in 1..q |-> (a + i - 1) % (MaxWord + 1)]
             named  == {number[i] : i \in 1..q}
             read   == {[address |-> number[i], value |-> values[i]] : i \in 1..q}
             shown  == {rows[j] : j \in {k \in all : rows[k].address \in named}}
  <2>1. request \in Seq(Byte) /\ IInv
    BY DEF Remembers, IInv
  <2>2. /\ Function(request) \in Reads /\ q = Field(request)
        /\ q \in Nat \ {0} /\ a \in Word
    BY <2>1, Limits
  <2>3. b \in Names /\ bank[b] \in Blocks(ValueSet(b))
    BY <2>1, <2>2, BitsAndWords DEF IInv, Names
  <2>4. InBlock(request) <=> InRange(bank[b], a, q)
    BY DEF InBlock
  <2>5. IsException(reply) <=> ~InBlock(request)
    BY <2>1 DEF IInv, WellFormed
  <2>6. ASSUME ~IsException(reply)
        PROVE  read \subseteq shown /\ (Len(bank[b].values) <= MaxWord + 1 => shown = read)
    <3>1. data = Encoded(Function(request), Asked(request))
      BY <2>5, <2>6 DEF Remembers, Answered
    <3>2. Asked(request) \in Seq(ValueSet(b)) /\ Len(Asked(request)) = q
      BY <2>1, <2>2, <2>5, <2>6, ReadStep
    <3> HIDE DEF data, q, a
    <3>3. values = Asked(request)
      BY <2>2, <3>1, <3>2, Encoding DEF Decoded
    <3>4. InRange(bank[b], a, q) /\ Asked(request) = Fetch(bank[b], a, q)
      BY <2>4, <2>5, <2>6 DEF Asked, a, q
    <3> HIDE DEF b, values
    <3>5. RowsShow(bank[b], a, q, values)
      BY <2>2, <2>3, <3>3, <3>4, RowsOfRequest
    <3> QED
      BY <3>5 DEF RowsShow
  <2>7. ASSUME IsException(reply), q = 1, NEW j \in all, rows[j].address \in named
        PROVE  bank[b].start + j - 1 > MaxWord
    <3>1. ~InRange(bank[b], a, 1)
      BY <2>4, <2>5, <2>7
    <3>2. rows[j].address = (a + 1 - 1) % (MaxWord + 1)
      BY <2>7
    <3>3. (a + 1 - 1) % (MaxWord + 1) = a
      <4> HIDE DEF a, b, all, rows, number, named, read, shown, values, data, q
      <4>1. a \in Nat /\ a <= 65535
        <5>1. a \in 0..MaxWord
          BY <2>2 DEF Word
        <5>2. MaxWord \in Nat /\ MaxWord <= 65535
          BY DEF MaxWord
        <5> QED
          BY <5>1, <5>2
      <4>2. (a + 1 - 1) % 65536 = a
        BY <4>1
      <4>3. MaxWord + 1 = 65536
        BY DEF MaxWord
      <4> QED
        BY <4>2, <4>3
    <3> HIDE DEF a, b
    <3> QED
      BY <2>2, <2>3, <2>7, <3>1, <3>2, <3>3, RowsBeyond
  <2> QED
    BY <2>6, <2>7 DEF MapShowsWhatIsRead
<1> QED
  BY <1>1, Remembered, PTL
=============================================================================
