---------------------------- MODULE DriveProofs ----------------------------
(***************************************************************************)
(* Proofs about the drive models, for every set of values that clients     *)
(* write.                                                                  *)
(*                                                                         *)
(* A drive model is a list of reports, set one after the other.  The first *)
(* part shows what a bank reads after any such list (Reports): the reports *)
(* at their addresses and elsewhere what it read before, if no two of them *)
(* share an address.  The second part applies this to each model of        *)
(* datastore.go with the register map of its configuration, the third part *)
(* puts the drives together (EveryDrive), and the last one follows the     *)
(* bank over writes and overrides (DriveInv).                              *)
(***************************************************************************)
EXTENDS Drive, TLAPS, WellFoundedInduction

\* The banks of the type invariant.
Banks == [holding : Blocks(Word), input : Blocks(Word)]

\* What is read at an address: the holding register, or else the input register.
Read(b, address) ==
    RegisterValueOrZero(IF InRange(b.holding, address, 1) THEN b.holding ELSE b.input, address)

\* Does one of the two blocks have the register?
HasRegister(b, a) == InRange(b.holding, a, 1) \/ InRange(b.input, a, 1)

\* Two banks of which the same is read at some addresses.
Alike(b, c, addresses) == \A a \in addresses : Read(b, a) = Read(c, a)

\* Deriving the reports leaves the blocks where they are.
SameShape(b, c) ==
    /\ b.holding.start = c.holding.start
    /\ b.input.start = c.input.start
    /\ Len(b.holding.values) = Len(c.holding.values)
    /\ Len(b.input.values) = Len(c.input.values)

\* The reports are a list.
IsReports(reports) == \E k \in Nat : DOMAIN reports = 1..k

-----------------------------------------------------------------------------
(* Blocks and reports.                                                     *)

\* Words are the numbers up to 65535.
LEMMA WordShape ==
    /\ \A w \in Word : w \in Nat /\ w \in Int /\ w <= 65535
    /\ \A n \in Nat : n <= 65535 => n \in Word
<1>1. MaxWord \in Nat
  BY DEF MaxWord
<1>2. \A w \in Word : w \in Nat /\ w \in Int /\ w <= MaxWord
  BY <1>1 DEF Word
<1>3. \A n \in Nat : n <= MaxWord => n \in Word
  BY <1>1 DEF Word
<1>4. QED
  BY <1>2, <1>3 DEF MaxWord

\* A block and its values.
LEMMA BlockShape ==
  ASSUME NEW block \in Blocks(Word)
  PROVE  /\ block = [start |-> block.start, values |-> block.values]
         /\ block.start \in Nat
         /\ Len(block.values) \in Nat
         /\ block.values \in [1..Len(block.values) -> Word]
<1>1. /\ block = [start |-> block.start, values |-> block.values]
      /\ block.start \in Word /\ block.values \in Seq(Word)
  BY DEF Blocks
<1>2. QED
  BY <1>1, WordShape

\* One value of a sequence, taken as a subsequence.
LEMMA OneOf ==
  ASSUME NEW s \in Seq(Word), NEW i \in 1..Len(s)
  PROVE  SubSeq(s, i, i)[1] = s[i]
<1>1. i \in Nat /\ i - i + 1 = 1
  OBVIOUS
<1>2. SubSeq(s, i, i) = [j \in 1..1 |-> s[i + j - 1]]
  BY <1>1
<1>3. QED
  BY <1>1, <1>2

\* A register is read where the block has it.
LEMMA RegisterValue ==
  ASSUME NEW block \in Blocks(Word), NEW address \in Nat
  PROVE  /\ RegisterValueOrZero(block, address) \in Word
         /\ InRange(block, address, 1) =>
              /\ address - block.start + 1 \in 1..Len(block.values)
              /\ RegisterValueOrZero(block, address) = block.values[address - block.start + 1]
         /\ ~InRange(block, address, 1) => RegisterValueOrZero(block, address) = 0
<1> DEFINE i == address - block.start + 1
<1>1. block.start \in Nat /\ Len(block.values) \in Nat /\ block.values \in Seq(Word)
  BY BlockShape DEF Blocks
<1>2. CASE ~InRange(block, address, 1)
  BY <1>2, WordShape DEF RegisterValueOrZero
<1>3. CASE InRange(block, address, 1)
  <2>1. i \in 1..Len(block.values)
    BY <1>1, <1>3 DEF InRange
  <2>2. Fetch(block, address, 1) = SubSeq(block.values, i, i)
    BY <1>1 DEF Fetch
  <2>3. SubSeq(block.values, i, i)[1] = block.values[i]
    BY <1>1, <2>1, OneOf
  <2>4. block.values[i] \in Word
    BY <1>1, <2>1
  <2>5. QED
    BY <1>3, <2>1, <2>2, <2>3, <2>4 DEF RegisterValueOrZero
<1>4. QED
  BY <1>2, <1>3

\* The last of some places of a list.
LEMMA Last ==
  ASSUME NEW k \in Nat, NEW at, at \subseteq 1..k, at # {}
  PROVE  \E n \in at : \A m \in at : m <= n
<1> DEFINE fromEnd == {k - n : n \in at}
<1>1. fromEnd \subseteq Nat /\ fromEnd # {} /\ at \subseteq Nat
  <2>1. \A n \in at : n \in Nat /\ k - n \in Nat
    OBVIOUS
  <2>2. QED
    BY <2>1
<1>2. PICK x \in fromEnd : \A y \in fromEnd : <<y, x>> \notin OpToRel(<, Nat)
  BY <1>1, WFMin, NatLessThanWellFounded, Zenon
<1>3. PICK n \in at : x = k - n
  BY <1>2
<1>4. ASSUME NEW m \in at PROVE m <= n
  <2>1. k - m \in Nat /\ k - n \in Nat /\ m \in Nat /\ n \in Nat
    BY <1>1
  <2>2. <<k - m, k - n>> \notin OpToRel(<, Nat)
    BY <1>2, <1>3
  <2>3. ~(k - m < k - n)
    BY <2>1, <2>2 DEF OpToRel
  <2>4. QED
    BY <2>1, <2>3
<1>5. QED
  BY <1>4

\* What a register at an address holds after some reports.
ReportedAt(behavior, reports, address, old) == Reported(Told(behavior, reports), address, old)

\* The last report of an address, if it has one.
LEMMA ToldHere ==
  ASSUME NEW behavior, NEW reports, NEW address, NEW old
  PROVE  LET at == ReportsAt(behavior, reports, address)
         IN  ReportedAt(behavior, reports, address, old) =
               IF at = {} THEN old
               ELSE reports[CHOOSE n \in at : \A m \in at : m <= n][2]
<1> DEFINE mapped == {n \in DOMAIN reports : reports[n][1] \in DOMAIN behavior.map}
           places == {behavior.map[reports[n][1]] : n \in mapped}
           at == ReportsAt(behavior, reports, address)
           told == Told(behavior, reports)
<1>1. DOMAIN told = places
  BY DEF Told
<1>2. address \in places => told[address] = reports[CHOOSE n \in at : \A m \in at : m <= n][2]
  BY DEF Told
<1>3. address \in places <=> at # {}
  BY DEF ReportsAt
<1> HIDE DEF told, places, at
<1>4. QED
  BY <1>1, <1>2, <1>3 DEF ReportedAt, Reported, told, at

\* A register holds what it held, or the last of its reports.
LEMMA ReportedCases ==
  ASSUME NEW behavior, NEW reports, IsReports(reports), NEW address, NEW old
  PROVE  LET at == ReportsAt(behavior, reports, address)
         IN  \/ at = {} /\ ReportedAt(behavior, reports, address, old) = old
             \/ \E n \in at : /\ \A m \in at : m <= n
                              /\ ReportedAt(behavior, reports, address, old) = reports[n][2]
<1> DEFINE at == ReportsAt(behavior, reports, address)
<1>1. PICK k \in Nat : DOMAIN reports = 1..k
  BY DEF IsReports
<1>2. at \subseteq 1..k
  BY <1>1 DEF ReportsAt
<1>3. CASE at = {}
  BY <1>3, ToldHere
<1>4. CASE at # {}
  <2> DEFINE n == CHOOSE n \in at : \A m \in at : m <= n
  <2>1. n \in at /\ \A m \in at : m <= n
    BY <1>2, <1>4, Last
  <2>2. ReportedAt(behavior, reports, address, old) = reports[n][2]
    BY <1>4, ToldHere
  <2> HIDE DEF n
  <2>3. QED
    BY <2>1, <2>2
<1>5. QED
  BY <1>3, <1>4

\* Without a report at its address a register holds what it held.
LEMMA Unreported ==
  ASSUME NEW behavior, NEW reports, NEW address, NEW old,
         \A n \in DOMAIN reports : reports[n][1] \in DOMAIN behavior.map =>
            behavior.map[reports[n][1]] # address
  PROVE  ReportedAt(behavior, reports, address, old) = old
<1>1. ReportsAt(behavior, reports, address) = {}
  BY DEF ReportsAt
<1>2. QED
  BY <1>1, ToldHere

\* The report of a key whose address no later report has.
LEMMA ReportedHere ==
  ASSUME NEW behavior, NEW reports, IsReports(reports), NEW old, NEW n \in DOMAIN reports,
         NEW address, reports[n][1] \in DOMAIN behavior.map,
         behavior.map[reports[n][1]] = address,
         \A m \in DOMAIN reports :
            m > n /\ reports[m][1] \in DOMAIN behavior.map =>
            behavior.map[reports[m][1]] # address
  PROVE  ReportedAt(behavior, reports, address, old) = reports[n][2]
<1> DEFINE at == ReportsAt(behavior, reports, address)
<1>1. n \in at /\ DOMAIN reports \subseteq Nat
  BY DEF ReportsAt, IsReports
<1>2. PICK m \in at : /\ \A l \in at : l <= m
                      /\ ReportedAt(behavior, reports, address, old) = reports[m][2]
  BY <1>1, ReportedCases
<1>3. n <= m /\ m \in DOMAIN reports /\ reports[m][1] \in DOMAIN behavior.map
      /\ behavior.map[reports[m][1]] = address
  BY <1>1, <1>2 DEF ReportsAt
<1>4. m = n
  BY <1>1, <1>3
<1>5. QED
  BY <1>2, <1>4

\* A block with other values.
LEMMA Revalued ==
  ASSUME NEW block \in Blocks(Word), NEW vals \in [1..Len(block.values) -> Word],
         NEW new, new = [start |-> block.start, values |-> vals]
  PROVE  /\ new \in Blocks(Word)
         /\ new.start = block.start /\ Len(new.values) = Len(block.values)
         /\ \A a \in Nat : InRange(block, a, 1) =>
              RegisterValueOrZero(new, a) = vals[a - block.start + 1]
<1>1. block.start \in Word /\ Len(block.values) \in Nat
  BY BlockShape DEF Blocks
<1>2. vals \in Seq(Word) /\ Len(vals) = Len(block.values)
  BY <1>1
<1>3. new \in Blocks(Word) /\ new.start = block.start /\ new.values = vals
  BY <1>1, <1>2 DEF Blocks
<1>4. ASSUME NEW a \in Nat, InRange(block, a, 1)
      PROVE  RegisterValueOrZero(new, a) = vals[a - block.start + 1]
  <2>1. InRange(new, a, 1)
    BY <1>2, <1>3, <1>4 DEF InRange
  <2>2. QED
    BY <1>3, <2>1, RegisterValue
<1>5. QED
  BY <1>2, <1>3, <1>4

\* The reports are a list of words.
IsMappable(reports) == IsReports(reports) /\ \A n \in DOMAIN reports : reports[n][2] \in Word

\* Reports leave words in the registers.
LEMMA ReportedWord ==
  ASSUME NEW behavior, NEW reports, IsMappable(reports), NEW address, NEW old \in Word
  PROVE  ReportedAt(behavior, reports, address, old) \in Word
<1>1. ReportsAt(behavior, reports, address) \subseteq DOMAIN reports
  BY DEF ReportsAt
<1>2. QED
  BY <1>1, ReportedCases DEF IsMappable

\* What the registers of both blocks hold after setMappedRegisterIfPresent.
LEMMA SetMappedReads ==
  ASSUME NEW b \in Banks, NEW behavior, NEW reports, IsMappable(reports),
         NEW c, c = SetMapped(b, behavior, reports)
  PROVE  /\ c \in Banks /\ SameShape(c, b)
         /\ \A a \in Nat : InRange(b.holding, a, 1) =>
              RegisterValueOrZero(c.holding, a) =
                ReportedAt(behavior, reports, a, RegisterValueOrZero(b.holding, a))
         /\ \A a \in Nat : ~InRange(b.holding, a, 1) /\ InRange(b.input, a, 1) =>
              RegisterValueOrZero(c.input, a) =
                ReportedAt(behavior, reports, a, RegisterValueOrZero(b.input, a))
<1> DEFINE holding == b.holding
           input == b.input
           hvals == [i \in 1..Len(holding.values) |->
                       ReportedAt(behavior, reports, holding.start + i - 1, holding.values[i])]
           ivals == [i \in 1..Len(input.values) |->
                       IF InRange(holding, input.start + i - 1, 1) THEN input.values[i]
                       ELSE ReportedAt(behavior, reports, input.start + i - 1, input.values[i])]
<1>1. /\ holding \in Blocks(Word) /\ input \in Blocks(Word)
      /\ b = [holding |-> holding, input |-> input]
  BY DEF Banks
<1>2. /\ holding = [start |-> holding.start, values |-> holding.values]
      /\ input = [start |-> input.start, values |-> input.values]
      /\ holding.start \in Nat /\ input.start \in Nat
      /\ Len(holding.values) \in Nat /\ Len(input.values) \in Nat
      /\ holding.values \in [1..Len(holding.values) -> Word]
      /\ input.values \in [1..Len(input.values) -> Word]
  BY <1>1, BlockShape
<1>3. /\ c.holding = [start |-> holding.start, values |-> hvals]
      /\ c.input = [start |-> input.start, values |-> ivals]
      /\ c = [holding |-> c.holding, input |-> c.input]
  <2>1. c = [b EXCEPT !.holding.values = hvals, !.input.values = ivals]
    BY DEF SetMapped, ReportedAt
  <2> HIDE DEF hvals, ivals
  <2>2. QED
    BY <1>1, <1>2, <2>1
<1>4. hvals \in [1..Len(holding.values) -> Word]
  BY <1>2, ReportedWord
<1>5. ivals \in [1..Len(input.values) -> Word]
  BY <1>2, ReportedWord
<1>6. ASSUME NEW a \in Nat, InRange(holding, a, 1)
      PROVE  hvals[a - holding.start + 1] =
               ReportedAt(behavior, reports, a, RegisterValueOrZero(holding, a))
  <2> DEFINE i == a - holding.start + 1
  <2>1. i \in 1..Len(holding.values) /\ holding.start + i - 1 = a
        /\ RegisterValueOrZero(holding, a) = holding.values[i]
    BY <1>1, <1>2, <1>6, RegisterValue
  <2> HIDE DEF i
  <2>2. hvals[i] = ReportedAt(behavior, reports, a, RegisterValueOrZero(holding, a))
    BY <2>1
  <2>3. QED
    BY <2>2 DEF i
<1>7. ASSUME NEW a \in Nat, ~InRange(holding, a, 1), InRange(input, a, 1)
      PROVE  ivals[a - input.start + 1] =
               ReportedAt(behavior, reports, a, RegisterValueOrZero(input, a))
  <2> DEFINE i == a - input.start + 1
  <2>1. i \in 1..Len(input.values) /\ input.start + i - 1 = a
        /\ RegisterValueOrZero(input, a) = input.values[i]
    BY <1>1, <1>2, <1>7, RegisterValue
  <2> HIDE DEF i
  <2>2. ivals[i] = ReportedAt(behavior, reports, a, RegisterValueOrZero(input, a))
    BY <1>7, <2>1
  <2>3. QED
    BY <2>2 DEF i
<1> HIDE DEF hvals, ivals
<1>8. /\ c.holding \in Blocks(Word)
      /\ c.holding.start = holding.start /\ Len(c.holding.values) = Len(holding.values)
      /\ \A a \in Nat : InRange(holding, a, 1) =>
            RegisterValueOrZero(c.holding, a) = hvals[a - holding.start + 1]
  BY <1>1, <1>3, <1>4, Revalued
<1>9. /\ c.input \in Blocks(Word)
      /\ c.input.start = input.start /\ Len(c.input.values) = Len(input.values)
      /\ \A a \in Nat : InRange(input, a, 1) =>
            RegisterValueOrZero(c.input, a) = ivals[a - input.start + 1]
  BY <1>1, <1>3, <1>5, Revalued
<1>10. c \in Banks /\ SameShape(c, b)
  BY <1>3, <1>8, <1>9 DEF Banks, SameShape
<1>11. QED
  BY <1>6, <1>7, <1>8, <1>9, <1>10

\* What the input registers hold after setInputRegisterIfMapped.
LEMMA SetInputsReads ==
  ASSUME NEW b \in Banks, NEW behavior, NEW reports, IsMappable(reports),
         NEW c, c = SetInputs(b, behavior, reports)
  PROVE  /\ c \in Banks /\ SameShape(c, b) /\ c.holding = b.holding
         /\ \A a \in Nat : InRange(b.input, a, 1) =>
              RegisterValueOrZero(c.input, a) =
                ReportedAt(behavior, reports, a, RegisterValueOrZero(b.input, a))
<1> DEFINE input == b.input
           vals == [i \in 1..Len(input.values) |->
                      ReportedAt(behavior, reports, input.start + i - 1, input.values[i])]
<1>1. /\ b.holding \in Blocks(Word) /\ input \in Blocks(Word)
      /\ b = [holding |-> b.holding, input |-> input]
  BY DEF Banks
<1>2. /\ input = [start |-> input.start, values |-> input.values]
      /\ input.start \in Nat /\ Len(input.values) \in Nat
      /\ input.values \in [1..Len(input.values) -> Word]
  BY <1>1, BlockShape
<1>3. /\ c.holding = b.holding
      /\ c.input = [start |-> input.start, values |-> vals]
      /\ c = [holding |-> c.holding, input |-> c.input]
  <2>1. c = [b EXCEPT !.input.values = vals]
    BY DEF SetInputs, ReportedAt
  <2> HIDE DEF vals
  <2>2. QED
    BY <1>1, <1>2, <2>1
<1>4. vals \in [1..Len(input.values) -> Word]
  BY <1>2, ReportedWord
<1>5. ASSUME NEW a \in Nat, InRange(input, a, 1)
      PROVE  vals[a - input.start + 1] =
               ReportedAt(behavior, reports, a, RegisterValueOrZero(input, a))
  <2> DEFINE i == a - input.start + 1
  <2>1. i \in 1..Len(input.values) /\ input.start + i - 1 = a
        /\ RegisterValueOrZero(input, a) = input.values[i]
    BY <1>1, <1>2, <1>5, RegisterValue
  <2> HIDE DEF i
  <2>2. vals[i] = ReportedAt(behavior, reports, a, RegisterValueOrZero(input, a))
    BY <2>1
  <2>3. QED
    BY <2>2 DEF i
<1> HIDE DEF vals
<1>6. /\ c.input \in Blocks(Word)
      /\ c.input.start = input.start /\ Len(c.input.values) = Len(input.values)
      /\ \A a \in Nat : InRange(input, a, 1) =>
            RegisterValueOrZero(c.input, a) = vals[a - input.start + 1]
  BY <1>1, <1>3, <1>4, Revalued
<1>7. c \in Banks /\ SameShape(c, b)
  BY <1>1, <1>3, <1>6 DEF Banks, SameShape
<1>8. QED
  BY <1>3, <1>5, <1>6, <1>7

\* Blocks of one shape have the same registers.
LEMMA ShapeRanges ==
  ASSUME NEW b, NEW c, SameShape(b, c), NEW a
  PROVE  /\ InRange(b.holding, a, 1) <=> InRange(c.holding, a, 1)
         /\ InRange(b.input, a, 1) <=> InRange(c.input, a, 1)
BY DEF SameShape, InRange

\* A register is read in the holding block if that has it, else in the input block.
LEMMA ReadCases ==
  ASSUME NEW b \in Banks, NEW a \in Nat
  PROVE  /\ Read(b, a) \in Word
         /\ InRange(b.holding, a, 1) => Read(b, a) = RegisterValueOrZero(b.holding, a)
         /\ ~InRange(b.holding, a, 1) => /\ Read(b, a) = RegisterValueOrZero(b.input, a)
                                         /\ RegisterValueOrZero(b.holding, a) = 0
         /\ ~HasRegister(b, a) => Read(b, a) = 0
BY RegisterValue DEF Read, Banks, HasRegister

\* Every register of a bank holds what it held, or the last of its reports.
Derives(b, behavior, reports, c) ==
    /\ c \in Banks /\ SameShape(c, b)
    /\ \A a \in Nat : HasRegister(b, a) =>
         Read(c, a) = ReportedAt(behavior, reports, a, Read(b, a))

\* Reports that go to either block.
LEMMA MappedDerives ==
  ASSUME NEW b \in Banks, NEW behavior, NEW reports, IsMappable(reports)
  PROVE  Derives(b, behavior, reports, SetMapped(b, behavior, reports))
<1> DEFINE c == SetMapped(b, behavior, reports)
<1> HIDE DEF c
<1>1. c \in Banks /\ SameShape(c, b)
  BY SetMappedReads DEF c
<1>2. ASSUME NEW a \in Nat, HasRegister(b, a)
      PROVE  Read(c, a) = ReportedAt(behavior, reports, a, Read(b, a))
  <2>1. CASE InRange(b.holding, a, 1)
    BY <1>1, <2>1, SetMappedReads, ReadCases, ShapeRanges DEF c
  <2>2. CASE ~InRange(b.holding, a, 1)
    BY <1>1, <1>2, <2>2, SetMappedReads, ReadCases, ShapeRanges DEF c, HasRegister
  <2>3. QED
    BY <2>1, <2>2
<1>3. QED
  BY <1>1, <1>2 DEF c, Derives

\* Reports that go to the input block, none of them to an address of the other.
LEMMA InputsDerive ==
  ASSUME NEW b \in Banks, NEW behavior, NEW reports, IsMappable(reports),
         \A n \in DOMAIN reports : reports[n][1] \in DOMAIN behavior.map =>
            ~InRange(b.holding, behavior.map[reports[n][1]], 1)
  PROVE  Derives(b, behavior, reports, SetInputs(b, behavior, reports))
<1> DEFINE c == SetInputs(b, behavior, reports)
<1> HIDE DEF c
<1>1. c \in Banks /\ SameShape(c, b) /\ c.holding = b.holding
  BY SetInputsReads DEF c
<1>2. ASSUME NEW a \in Nat, HasRegister(b, a)
      PROVE  Read(c, a) = ReportedAt(behavior, reports, a, Read(b, a))
  <2>1. CASE InRange(b.holding, a, 1)
    <3>1. ReportedAt(behavior, reports, a, Read(b, a)) = Read(b, a)
      BY <2>1, Unreported
    <3>2. QED
      BY <1>1, <2>1, <3>1, ReadCases, ShapeRanges
  <2>2. CASE ~InRange(b.holding, a, 1)
    BY <1>1, <1>2, <2>2, SetInputsReads, ReadCases, ShapeRanges DEF c, HasRegister
  <2>3. QED
    BY <2>1, <2>2
<1>3. QED
  BY <1>1, <1>2 DEF c, Derives

\* The reports are mapped to addresses, all different.
Placed(behavior, reports, at) ==
    /\ \A n \in DOMAIN reports : /\ reports[n][1] \in DOMAIN behavior.map
                                 /\ behavior.map[reports[n][1]] = at[n]
                                 /\ at[n] \in Nat
    /\ \A m, n \in DOMAIN reports : at[m] = at[n] => m = n

\* What is read after the reports: the reports, where the registers exist, and elsewhere
\* what was read before.
Shown(b, reports, at, c) ==
    /\ c \in Banks /\ SameShape(c, b)
    /\ \A n \in DOMAIN reports : HasRegister(b, at[n]) => Read(c, at[n]) = reports[n][2]
    /\ \A a \in Nat : (\A n \in DOMAIN reports : at[n] # a) => Read(c, a) = Read(b, a)

\* Reports at different addresses are all read afterwards, and nothing else changes.
LEMMA Reports ==
  ASSUME NEW b \in Banks, NEW behavior, NEW reports, IsMappable(reports), NEW at,
         Placed(behavior, reports, at), NEW c, Derives(b, behavior, reports, c)
  PROVE  Shown(b, reports, at, c)
<1>1. /\ c \in Banks /\ SameShape(c, b)
      /\ \A a \in Nat : HasRegister(b, a) =>
           Read(c, a) = ReportedAt(behavior, reports, a, Read(b, a))
  BY DEF Derives
<1>2. ASSUME NEW n \in DOMAIN reports, HasRegister(b, at[n])
      PROVE  Read(c, at[n]) = reports[n][2]
  <2>1. DOMAIN reports \subseteq Nat
    BY DEF IsMappable, IsReports
  <2>2. \A m \in DOMAIN reports : m > n => behavior.map[reports[m][1]] # at[n]
    BY <2>1 DEF Placed
  <2>3. ReportedAt(behavior, reports, at[n], Read(b, at[n])) = reports[n][2]
    BY <2>2, ReportedHere DEF IsMappable, Placed
  <2>4. QED
    BY <1>1, <1>2, <2>3 DEF Placed
<1>3. ASSUME NEW a \in Nat, \A n \in DOMAIN reports : at[n] # a
      PROVE  Read(c, a) = Read(b, a)
  <2>1. ReportedAt(behavior, reports, a, Read(b, a)) = Read(b, a)
    BY <1>3, Unreported DEF Placed
  <2>2. CASE HasRegister(b, a)
    BY <1>1, <2>1, <2>2
  <2>3. CASE ~HasRegister(b, a)
    <3>1. ~HasRegister(c, a)
      BY <1>1, <2>3, ShapeRanges DEF HasRegister
    <3>2. QED
      BY <1>1, <2>3, <3>1, ReadCases
  <2>4. QED
    BY <2>2, <2>3
<1>4. QED
  BY <1>1, <1>2, <1>3 DEF Shown

\* Reports to input registers, of which none is read in the holding block.
LEMMA InputReports ==
  ASSUME NEW b \in Banks, NEW behavior, NEW reports, IsMappable(reports), NEW at,
         \A n \in DOMAIN reports : /\ reports[n][1] \in DOMAIN behavior.map
                                   /\ behavior.map[reports[n][1]] = at[n]
                                   /\ at[n] \in Nat /\ ~InRange(b.holding, at[n], 1),
         \A m, n \in DOMAIN reports : at[m] = at[n] => m = n,
         NEW c, c = SetInputs(b, behavior, reports)
  PROVE  Shown(b, reports, at, c)
<1>1. Placed(behavior, reports, at)
  BY DEF Placed
<1>2. \A n \in DOMAIN reports : ~InRange(b.holding, behavior.map[reports[n][1]], 1)
  OBVIOUS
<1>3. Derives(b, behavior, reports, c)
  BY <1>2, InputsDerive
<1>4. QED
  BY <1>1, <1>3, Reports

-----------------------------------------------------------------------------
(* The drives.                                                             *)

\* The bank lies where the blocks of an entry of the table lie.
HasShapeOf(b, e) ==
    /\ b \in Banks
    /\ b.holding.start = e.holding.start
    /\ b.input.start = e.input.start
    /\ Len(b.holding.values) = Len(e.holding.values)
    /\ Len(b.input.values) = Len(e.input.values)

\* The entries of the table.
LEMMA TableEntries ==
  /\ DOMAIN Table = {"ms300", "abb", "danfoss", "danfossDefault", "invertek", "schneider",
                     "siemens"}
  /\ Table["ms300"] = MS300Drive /\ Table["abb"] = ABBDrive /\ Table["danfoss"] = DanfossDrive
  /\ Table["danfossDefault"] = DanfossDefaultDrive /\ Table["invertek"] = InvertekDrive
  /\ Table["schneider"] = SchneiderDrive /\ Table["siemens"] = SiemensDrive
BY DEF Table

\* A block of words at a place.
IsBlock(block, start, n) ==
    block \in Blocks(Word) /\ block.start = start /\ Len(block.values) = n

\* Registers with a word each.
Words(known) == \A r \in known : r.value \in Word

\* The blocks of the shipped configurations are blocks of words.
LEMMA RegistersTyped ==
  ASSUME NEW start \in Word, NEW n \in Nat, NEW known, Words(known)
  PROVE  IsBlock(Registers(start, n, known), start, n)
<1> DEFINE Here(i) == {r \in known : r.address = start + i - 1}
           vals == [i \in 1..n |->
                      IF Here(i) = {} THEN 0 ELSE (CHOOSE r \in Here(i) : TRUE).value]
<1>1. Registers(start, n, known) = [start |-> start, values |-> vals]
  BY DEF Registers
<1>2. ASSUME NEW i \in 1..n PROVE vals[i] \in Word
  <2>1. CASE Here(i) = {}
    BY <2>1, WordShape
  <2>2. CASE Here(i) # {}
    <3>1. (CHOOSE r \in Here(i) : TRUE) \in Here(i)
      BY <2>2
    <3>2. QED
      BY <2>2, <3>1 DEF Words
  <2>3. QED
    BY <2>1, <2>2
<1>3. DOMAIN vals = 1..n
  OBVIOUS
<1>4. vals \in [1..n -> Word]
  <2>1. vals = [i \in 1..n |-> vals[i]]
    OBVIOUS
  <2> HIDE DEF vals
  <2>2. QED
    BY <1>2, <2>1
<1> HIDE DEF vals
<1>5. vals \in Seq(Word) /\ Len(vals) = n
  BY <1>3, <1>4
<1>6. QED
  BY <1>1, <1>5 DEF IsBlock, Blocks

\* The behaviour and the blocks of an entry of the table.
LEMMA EntryFields ==
  ASSUME NEW behavior, NEW holding, NEW input, NEW command, NEW status, NEW stopped,
         NEW running, NEW others, NEW echoes, NEW motion
  PROVE  LET e == Entry(behavior, holding, input, command, status, stopped, running, others,
                        echoes, motion)
         IN  e.behavior = behavior /\ e.holding = holding /\ e.input = input
BY DEF Entry

\* Sets of at most two registers, and the union of two sets.
LEMMA KnownWords ==
  /\ Words({})
  /\ \A a, v : v \in Word => Words({Register(a, v)})
  /\ \A a, v, x, w : v \in Word /\ w \in Word => Words({Register(a, v), Register(x, w)})
BY DEF Words, Register

\* The blocks of the drives.
LEMMA DriveBlocks ==
  /\ IsBlock(MS300Drive.holding, 8192, 3) /\ IsBlock(MS300Drive.input, 8448, 309)
  /\ IsBlock(ABBDrive.holding, 1, 65) /\ IsBlock(ABBDrive.input, 0, 0)
  /\ IsBlock(DanfossDrive.holding, 2810, 110) /\ IsBlock(DanfossDrive.input, 0, 0)
  /\ IsBlock(DanfossDefaultDrive.holding, 2810, 110) /\ IsBlock(DanfossDefaultDrive.input, 0, 0)
  /\ IsBlock(InvertekDrive.holding, 1, 4) /\ IsBlock(InvertekDrive.input, 256, 4)
  /\ IsBlock(SchneiderDrive.holding, 8501, 104) /\ IsBlock(SchneiderDrive.input, 3201, 12)
  /\ IsBlock(SiemensDrive.holding, 40100, 310) /\ IsBlock(SiemensDrive.input, 0, 0)
<1>1. IsBlock(MS300Drive.holding, 8192, 3) /\ IsBlock(MS300Drive.input, 8448, 309)
  <2> DEFINE known == {Register(8193, 5000)}
             others == {Register(8449, 1280), Register(8450, 5000), Register(8453, 3250),
                       Register(8475, 5000), Register(8707, 3250), Register(8718, 350),
                       Register(8731, 25), Register(8733, 4), Register(8740, 8),
                       Register(8742, 4)}
  <2>1. Words(known) /\ Words(others)
    BY WordShape DEF Words, Register
  <2>2. /\ 8192 \in Word /\ 3 \in Nat
        /\ 8448 \in Word /\ 309 \in Nat
    BY WordShape
  <2>3. MS300Drive.holding = Registers(8192, 3, known) /\ MS300Drive.input = Registers(8448, 309, others)
    BY EntryFields DEF MS300Drive
  <2> HIDE DEF known, others
  <2>4. QED
    BY <2>1, <2>2, <2>3, RegistersTyped
<1>2. IsBlock(ABBDrive.holding, 1, 65) /\ IsBlock(ABBDrive.input, 0, 0)
  <2> DEFINE known == {Register(51, 1)}
             others == {}
  <2>1. Words(known) /\ Words(others)
    BY WordShape, KnownWords
  <2>2. /\ 1 \in Word /\ 65 \in Nat
        /\ 0 \in Word /\ 0 \in Nat
    BY WordShape
  <2>3. ABBDrive.holding = Registers(1, 65, known) /\ ABBDrive.input = Registers(0, 0, others)
    BY EntryFields DEF ABBDrive
  <2> HIDE DEF known, others
  <2>4. QED
    BY <2>1, <2>2, <2>3, RegistersTyped
<1>3. IsBlock(DanfossDrive.holding, 2810, 110) /\ IsBlock(DanfossDrive.input, 0, 0)
  <2> DEFINE known == {Register(2910, 1)}
             others == {}
  <2>1. Words(known) /\ Words(others)
    BY WordShape, KnownWords
  <2>2. /\ 2810 \in Word /\ 110 \in Nat
        /\ 0 \in Word /\ 0 \in Nat
    BY WordShape
  <2>3. DanfossDrive.holding = Registers(2810, 110, known) /\ DanfossDrive.input = Registers(0, 0, others)
    BY EntryFields DEF DanfossDrive
  <2> HIDE DEF known, others
  <2>4. QED
    BY <2>1, <2>2, <2>3, RegistersTyped
<1>4. IsBlock(DanfossDefaultDrive.holding, 2810, 110) /\ IsBlock(DanfossDefaultDrive.input, 0, 0)
  <2> DEFINE known == {Register(2910, 1)}
             others == {}
  <2>1. Words(known) /\ Words(others)
    BY WordShape, KnownWords
  <2>2. /\ 2810 \in Word /\ 110 \in Nat
        /\ 0 \in Word /\ 0 \in Nat
    BY WordShape
  <2>3. DanfossDefaultDrive.holding = Registers(2810, 110, known) /\ DanfossDefaultDrive.input = Registers(0, 0, others)
    BY EntryFields DEF DanfossDefaultDrive
  <2> HIDE DEF known, others
  <2>4. QED
    BY <2>1, <2>2, <2>3, RegistersTyped
<1>5. IsBlock(InvertekDrive.holding, 1, 4) /\ IsBlock(InvertekDrive.input, 256, 4)
  <2> DEFINE known == {Register(4, 3000)}
             others == {Register(256, 9)}
  <2>1. Words(known) /\ Words(others)
    BY WordShape, KnownWords
  <2>2. /\ 1 \in Word /\ 4 \in Nat
        /\ 256 \in Word /\ 4 \in Nat
    BY WordShape
  <2>3. InvertekDrive.holding = Registers(1, 4, known) /\ InvertekDrive.input = Registers(256, 4, others)
    BY EntryFields DEF InvertekDrive
  <2> HIDE DEF known, others
  <2>4. QED
    BY <2>1, <2>2, <2>3, RegistersTyped
<1>6. IsBlock(SchneiderDrive.holding, 8501, 104) /\ IsBlock(SchneiderDrive.input, 3201, 12)
  <2> DEFINE known == {Register(8602, 1500), Register(8604, 1500)}
             others == {Register(3201, 1)}
  <2>1. Words(known) /\ Words(others)
    BY WordShape, KnownWords
  <2>2. /\ 8501 \in Word /\ 104 \in Nat
        /\ 3201 \in Word /\ 12 \in Nat
    BY WordShape
  <2>3. SchneiderDrive.holding = Registers(8501, 104, known) /\ SchneiderDrive.input = Registers(3201, 12, others)
    BY EntryFields DEF SchneiderDrive
  <2> HIDE DEF known, others
  <2>4. QED
    BY <2>1, <2>2, <2>3, RegistersTyped
<1>7. IsBlock(SiemensDrive.holding, 40100, 310) /\ IsBlock(SiemensDrive.input, 0, 0)
  <2> DEFINE known == {Register(40110, 1), Register(40324, 1500)}
             others == {}
  <2>1. Words(known) /\ Words(others)
    BY WordShape, KnownWords
  <2>2. /\ 40100 \in Word /\ 310 \in Nat
        /\ 0 \in Word /\ 0 \in Nat
    BY WordShape
  <2>3. SiemensDrive.holding = Registers(40100, 310, known) /\ SiemensDrive.input = Registers(0, 0, others)
    BY EntryFields DEF SiemensDrive
  <2> HIDE DEF known, others
  <2>4. QED
    BY <2>1, <2>2, <2>3, RegistersTyped
<1>8. QED
  BY <1>1, <1>2, <1>3, <1>4, <1>5, <1>6, <1>7, SMTT(30)

\* Every key of a register map has an address.
LEMMA MappedKeys ==
  ASSUME NEW d \in DOMAIN Table, NEW key \in DOMAIN Table[d].behavior.map
  PROVE  Table[d].behavior.map[key] \in Nat /\ Table[d].behavior.map[key] \in Word
<1> DEFINE Fine(map) == \A k \in DOMAIN map : map[k] \in Nat /\ map[k] <= 65535
<1>1. Fine(DeltaMS300.map)
  BY DEF DeltaMS300, Behaviour
<1>2. Fine(ABBFENA.map)
  BY DEF ABBFENA, Behaviour
<1>3. Fine(InvertekOptidriveP2.map)
  BY DEF InvertekOptidriveP2, Behaviour
<1>4. Fine(SchneiderATV320.map)
  BY DEF SchneiderATV320, Behaviour
<1>5. \A w, r \in Nat : w <= 65525 /\ r <= 65525 => Fine(ProcessData(w, r))
  BY DEF ProcessData
<1>6. \A m, n : Fine(m) /\ Fine(n) => Fine(Merged(m, n))
  BY DEF Merged
<1>7. Fine(DanfossFC302.map)
  <2> DEFINE own == [control_word |-> 2810, main_reference |-> 2811,
                     status_word |-> 2910, main_actual_value |-> 2911]
  <2>1. DanfossFC302.map = Merged(own, ProcessData(2807, 2907))
    BY DEF DanfossFC302, Behaviour
  <2>2. Fine(own)
    OBVIOUS
  <2> HIDE DEF own, Fine
  <2>3. QED
    BY <1>5, <1>6, <2>1, <2>2
<1>8. Fine(DanfossShipped.map)
  <2>1. DanfossShipped.map = Merged(ProcessData(2809, 2909), DanfossFC302.map)
    BY DEF DanfossShipped, DanfossFC302, Behaviour
  <2> HIDE DEF Fine
  <2>2. QED
    BY <1>5, <1>6, <1>7, <2>1
<1>9. Fine(SiemensSINAMICS.map)
  <2> DEFINE own == [control_word |-> 40100, main_setpoint |-> 40101, status_word |-> 40110,
                     main_actual_value |-> 40111, reference_speed |-> 40324,
                     failure_number |-> 40400, alarm_number |-> 40408,
                     actual_alarm_code |-> 40409]
  <2>1. SiemensSINAMICS.map = Merged(own, ProcessData(40099, 40109))
    BY DEF SiemensSINAMICS, Behaviour
  <2>2. Fine(own)
    OBVIOUS
  <2> HIDE DEF own, Fine
  <2>3. QED
    BY <1>5, <1>6, <2>1, <2>2
<1>10. /\ MS300Drive.behavior = DeltaMS300 /\ ABBDrive.behavior = ABBFENA
       /\ DanfossDrive.behavior = DanfossShipped
       /\ DanfossDefaultDrive.behavior = DanfossFC302
       /\ InvertekDrive.behavior = InvertekOptidriveP2
       /\ SchneiderDrive.behavior = SchneiderATV320
       /\ SiemensDrive.behavior = SiemensSINAMICS
  BY DEF MS300Drive, ABBDrive, DanfossDrive, DanfossDefaultDrive, InvertekDrive,
         SchneiderDrive, SiemensDrive, Entry
<1> HIDE DEF Fine
<1>11. Fine(Table[d].behavior.map)
  BY <1>1, <1>2, <1>3, <1>4, <1>7, <1>8, <1>9, <1>10, TableEntries
<1>12. QED
  BY <1>11, WordShape DEF Fine

\* A command is read at the address that its key is mapped to.
LEMMA CommandedRead ==
  ASSUME NEW b \in Banks, NEW behavior, NEW key, NEW fallback, key \in DOMAIN behavior.map,
         NEW a \in Nat, a = behavior.map[key], InRange(b.holding, a, 1)
  PROVE  Commanded(b, behavior, key, fallback) = Read(b, a)
BY DEF Commanded, Address, Read

\* The ABB drive: four reports repeat commands, beside the status word.
LEMMA ABBReports ==
  ASSUME NEW b, HasShapeOf(b, ABBDrive), NEW c, c = SyncABBFENA(b, ABBFENA)
  PROVE  /\ HasShapeOf(c, ABBDrive)
         /\ \A a \in 1..5 : Read(c, a) = Read(b, a)
         /\ Read(c, 51) = IF Read(c, 1) = 0 THEN 1 ELSE 3
         /\ Read(c, 52) = Read(c, 2) /\ Read(c, 53) = Read(c, 3)
         /\ Read(c, 54) = Read(c, 4) /\ Read(c, 55) = Read(c, 5)
         /\ Alike(c, b, Nat \ (51..55))
<1>1. /\ b.holding.start = 1 /\ Len(b.holding.values) = 65 /\ b \in Banks
  BY DriveBlocks DEF HasShapeOf, IsBlock
<1>2. \A a \in 1..65 : InRange(b.holding, a, 1)
  BY <1>1 DEF InRange
<1>3. /\ Commanded(b, ABBFENA, "control_word", 1) = Read(b, 1)
      /\ Commanded(b, ABBFENA, "reference_1", 2) = Read(b, 2)
      /\ Commanded(b, ABBFENA, "reference_2", 3) = Read(b, 3)
      /\ Commanded(b, ABBFENA, "data_out_1", 4) = Read(b, 4)
      /\ Commanded(b, ABBFENA, "data_out_2", 5) = Read(b, 5)
  BY <1>1, <1>2, CommandedRead DEF ABBFENA, Behaviour
<1> DEFINE status == StatusWord(ABBFENA, Read(b, 1), "ready_status_word", 1,
                                                  "running_status_word", 3)
           reports == << <<"status_word", status>>, <<"actual_1", Read(b, 2)>>,
                         <<"actual_2", Read(b, 3)>>, <<"data_in_1", Read(b, 4)>>,
                         <<"data_in_2", Read(b, 5)>> >>
           at == <<51, 52, 53, 54, 55>>
<1>4. c = SetMapped(b, ABBFENA, reports)
  BY <1>3 DEF SyncABBFENA
<1>5. status = IF Read(b, 1) = 0 THEN 1 ELSE 3
  BY DEF StatusWord, Constant, ABBFENA, Behaviour
<1>6. status \in Word /\ \A a \in 1..5 : Read(b, a) \in Word
  BY <1>1, <1>5, ReadCases, WordShape
<1> HIDE DEF status
<1>7. DOMAIN reports = 1..5 /\ \A n \in 1..5 : reports[n][2] \in Word
  BY <1>6
<1>8. \A n \in 1..5 : /\ reports[n][1] \in DOMAIN ABBFENA.map
                       /\ ABBFENA.map[reports[n][1]] = at[n] /\ at[n] = 50 + n
  BY DEF ABBFENA, Behaviour
<1>9. \A n \in 1..5 :
         reports[n][2] = <<status, Read(b, 2), Read(b, 3), Read(b, 4), Read(b, 5)>>[n]
  OBVIOUS
<1> HIDE DEF reports, at
<1>10. Shown(b, reports, at, c)
  <2>1. IsMappable(reports)
    BY <1>7 DEF IsMappable, IsReports
  <2>2. Placed(ABBFENA, reports, at)
    BY <1>7, <1>8 DEF Placed
  <2>3. QED
    BY <1>1, <1>4, <2>1, <2>2, MappedDerives, Reports
<1>11. \A a \in 1..5 : Read(c, a) = Read(b, a)
  BY <1>7, <1>8, <1>10 DEF Shown
<1>12. \A n \in 1..5 : Read(c, 50 + n) = reports[n][2]
  BY <1>2, <1>7, <1>8, <1>10 DEF HasRegister, Shown
<1>13. /\ Read(c, 51) = status /\ Read(c, 52) = Read(b, 2) /\ Read(c, 53) = Read(b, 3)
       /\ Read(c, 54) = Read(b, 4) /\ Read(c, 55) = Read(b, 5)
  BY <1>9, <1>12
<1>14. HasShapeOf(c, ABBDrive)
  BY <1>10 DEF HasShapeOf, SameShape, Shown
<1>15. Alike(c, b, Nat \ (51..55))
  BY <1>7, <1>8, <1>10 DEF Shown, Alike
<1>16. QED
  BY <1>5, <1>11, <1>13, <1>14, <1>15

\* The Invertek drive: its reports are input registers, its commands are not.
LEMMA InvertekReports ==
  ASSUME NEW b, HasShapeOf(b, InvertekDrive), NEW c,
         c = SyncInvertekOptidriveP2(b, InvertekOptidriveP2)
  PROVE  /\ HasShapeOf(c, InvertekDrive)
         /\ \A a \in 1..4 : Read(c, a) = Read(b, a)
         /\ Read(c, 256) = IF Read(c, 1) = 0 THEN 9 ELSE 11
         /\ Read(c, 257) = Read(c, 2) /\ Read(c, 259) = Read(c, 3)
         /\ Read(c, 258) = IF Read(c, 1) = 0 THEN 0 ELSE Larger(100, Read(c, 2) \div 5)
         /\ Alike(c, b, Nat \ (256..259))
<1>1. /\ b.holding.start = 1 /\ Len(b.holding.values) = 4 /\ b \in Banks
      /\ b.input.start = 256 /\ Len(b.input.values) = 4
  BY DriveBlocks DEF HasShapeOf, IsBlock
<1>2. /\ \A a \in 1..4 : InRange(b.holding, a, 1)
      /\ \A a \in 256..259 : InRange(b.input, a, 1)
  BY <1>1 DEF InRange
<1>3. /\ Commanded(b, InvertekOptidriveP2, "control_word", 1) = Read(b, 1)
      /\ Commanded(b, InvertekOptidriveP2, "frequency_setpoint", 2) = Read(b, 2)
      /\ Commanded(b, InvertekOptidriveP2, "torque_setpoint", 3) = Read(b, 3)
  BY <1>1, <1>2, CommandedRead DEF InvertekOptidriveP2, Behaviour
<1> DEFINE status == StatusWord(InvertekOptidriveP2, Read(b, 1), "ready_status_word", 9,
                                "running_status_word", 11)
           current == IF Read(b, 1) = 0 THEN 0 ELSE Larger(
                Constant(InvertekOptidriveP2, "minimum_output_current", 100), Read(b, 2) \div 5)
           reports == << <<"status_word", status>>, <<"output_frequency", Read(b, 2)>>,
                         <<"output_current", current>>, <<"output_torque", Read(b, 3)>> >>
           at == <<256, 257, 258, 259>>
<1>4. c = SetMapped(b, InvertekOptidriveP2, reports)
  BY <1>3 DEF SyncInvertekOptidriveP2
<1>5. /\ status = IF Read(b, 1) = 0 THEN 9 ELSE 11
      /\ current = IF Read(b, 1) = 0 THEN 0 ELSE Larger(100, Read(b, 2) \div 5)
  BY DEF StatusWord, Constant, InvertekOptidriveP2, Behaviour
<1> HIDE DEF status, current
<1>6. status \in Word /\ current \in Word /\ \A a \in 1..4 : Read(b, a) \in Word
  <2>1. \A a \in 1..4 : Read(b, a) \in Word
    BY <1>1, ReadCases
  <2>2. \A n \in Word : Larger(100, n \div 5) \in Word
    BY WordShape DEF Larger
  <2>3. QED
    BY <1>5, <2>1, <2>2, WordShape
<1>7. DOMAIN reports = 1..4 /\ \A n \in 1..4 : reports[n][2] \in Word
  BY <1>6
<1>8. \A n \in 1..4 : /\ reports[n][1] \in DOMAIN InvertekOptidriveP2.map
                       /\ InvertekOptidriveP2.map[reports[n][1]] = at[n] /\ at[n] = 255 + n
  BY DEF InvertekOptidriveP2, Behaviour
<1>9. \A n \in 1..4 : reports[n][2] = <<status, Read(b, 2), current, Read(b, 3)>>[n]
  OBVIOUS
<1> HIDE DEF reports, at
<1>10. Shown(b, reports, at, c)
  <2>1. IsMappable(reports)
    BY <1>7 DEF IsMappable, IsReports
  <2>2. Placed(InvertekOptidriveP2, reports, at)
    BY <1>7, <1>8 DEF Placed
  <2>3. QED
    BY <1>1, <1>4, <2>1, <2>2, MappedDerives, Reports
<1>11. \A a \in 1..4 : Read(c, a) = Read(b, a)
  BY <1>7, <1>8, <1>10 DEF Shown
<1>12. \A n \in 1..4 : Read(c, 255 + n) = reports[n][2]
  BY <1>2, <1>7, <1>8, <1>10 DEF HasRegister, Shown
<1>13. /\ Read(c, 256) = status /\ Read(c, 257) = Read(b, 2)
       /\ Read(c, 258) = current /\ Read(c, 259) = Read(b, 3)
  BY <1>9, <1>12
<1>14. HasShapeOf(c, InvertekDrive)
  BY <1>10 DEF HasShapeOf, SameShape, Shown
<1>15. Alike(c, b, Nat \ (256..259))
  BY <1>7, <1>8, <1>10 DEF Shown, Alike
<1>16. QED
  BY <1>5, <1>11, <1>13, <1>14, <1>15

\* A conversion to uint16 gives a word.
LEMMA UintWord == \A n \in Int : Uint16(n) \in Word
<1>1. ASSUME NEW n \in Int PROVE Uint16(n) \in Nat /\ Uint16(n) <= 65535
  BY SMT DEF Uint16
<1>2. QED
  BY <1>1, WordShape

\* A conversion to uint16 keeps what fits.
LEMMA UintSame == \A n \in Nat : n <= 65535 => Uint16(n) = n
BY SMT DEF Uint16

\* The output power of the ATV320 fits its register up to this frequency reference, and
\* with no higher one.
LEMMA PowerFits ==
  ASSUME NEW r \in Nat, r <= 65535, NEW v, v = Uint16((r * 400) \div 500),
         NEW i, i = Uint16(Larger(50, r \div 4))
  PROVE  Uint16((v * i) \div 1000) = (v * i) \div 1000 <=> r <= 18103
<1>1. /\ (r * 400) \div 500 \in Nat /\ (r * 400) \div 500 <= 65535
      /\ r \div 4 \in Nat /\ r \div 4 <= 65535
  BY SMT
<1>2. Larger(50, r \div 4) \in Nat /\ Larger(50, r \div 4) <= 65535
  BY <1>1 DEF Larger
<1>3. v = (r * 400) \div 500 /\ i = Larger(50, r \div 4) /\ v \in Nat /\ i \in Nat
  BY <1>1, <1>2, UintSame
<1> DEFINE p == v * i
<1>4. CASE r <= 18103
  <2>1. v <= 14482 /\ r \div 4 <= 4525
    BY <1>3, <1>4, SMT
  <2>2. i <= 4525
    BY <1>1, <1>3, <2>1 DEF Larger
  <2>3. p \in Nat /\ p <= 14482 * i
    BY <1>3, <2>1
  <2>4. 14482 * i <= 65531050
    BY <1>3, <2>2
  <2>5. p <= 65531050
    BY <1>3, <2>3, <2>4
  <2> HIDE DEF p
  <2>6. p \div 1000 \in Nat /\ p \div 1000 <= 65535
    BY <2>3, <2>5, SMT
  <2>7. QED
    BY <1>4, <2>6, UintSame DEF p
<1>5. CASE r > 18103
  <2>1. v >= 14483 /\ r \div 4 >= 4526
    BY <1>3, <1>5, SMT
  <2>2. i >= 4526
    BY <1>1, <1>3, <2>1 DEF Larger
  <2>3. p \in Nat /\ p >= 14483 * i
    BY <1>3, <2>1
  <2>4. 14483 * i >= 65550058
    BY <1>3, <2>2
  <2>5. p >= 65550058
    BY <1>3, <2>3, <2>4
  <2> HIDE DEF p
  <2>6. p \div 1000 \in Nat /\ p \div 1000 > 65535
    BY <2>3, <2>5, SMT
  <2>7. Uint16(p \div 1000) \in Nat /\ Uint16(p \div 1000) <= 65535
    BY <2>6, UintWord, WordShape
  <2>8. QED
    BY <1>5, <2>6, <2>7 DEF p
<1>6. QED
  BY <1>4, <1>5

\* The registers that the ATV320 derives.
SchneiderDerived == {3201, 3202, 3204, 3205, 3206, 3208, 3211, 8602, 8604}

\* What it computes from the command and the frequency reference.
SchneiderComputes(c, running, reference) ==
    /\ running => /\ Read(c, 3204) = Uint16(Larger(50, reference \div 4))
                  /\ Read(c, 3205) = 250
                  /\ Read(c, 3208) = Uint16((reference * 400) \div 500)
    /\ Read(c, 3211) = Uint16((Read(c, 3208) * Read(c, 3204)) \div 1000)

\* The ATV320: its reports are in both blocks, some of them computed.
LEMMA SchneiderReports ==
  ASSUME NEW b, HasShapeOf(b, SchneiderDrive), NEW c,
         c = SyncSchneiderATV320(b, SchneiderATV320)
  PROVE  /\ HasShapeOf(c, SchneiderDrive)
         /\ \A a \in 8501..8504 : Read(c, a) = Read(b, a)
         /\ Read(c, 3201) = IF Read(c, 8501) = 0 THEN 1 ELSE 7
         /\ Read(c, 3202) = Read(c, 8502)
         /\ Read(c, 8602) = Read(c, 8502) /\ Read(c, 8604) = Read(c, 8502)
         /\ Read(c, 8501) = 0 => /\ Read(c, 3204) = 0 /\ Read(c, 3205) = 0
                                 /\ Read(c, 3208) = 0 /\ Read(c, 3211) = 0
         /\ Read(c, 3211) = (Read(c, 3208) * Read(c, 3204)) \div 1000
              <=> Read(c, 8501) = 0 \/ Read(c, 8502) <= 18103
         /\ Alike(c, b, Nat \ SchneiderDerived)
         /\ Read(c, 3206) = Read(c, 3201)
         /\ SchneiderComputes(c, Read(c, 8501) # 0, Read(c, 8502))
<1>1. /\ b.holding.start = 8501 /\ Len(b.holding.values) = 104 /\ b \in Banks
      /\ b.input.start = 3201 /\ Len(b.input.values) = 12
  BY DriveBlocks DEF HasShapeOf, IsBlock
<1>2. InRange(b.holding, 8501, 1) /\ InRange(b.holding, 8502, 1)
  BY <1>1 DEF InRange
<1>3. /\ Commanded(b, SchneiderATV320, "cmd", 8501) = Read(b, 8501)
      /\ Commanded(b, SchneiderATV320, "lfr", 8502) = Read(b, 8502)
  BY <1>1, <1>2, CommandedRead DEF SchneiderATV320, Behaviour
<1> DEFINE command == Read(b, 8501)
           reference == Read(b, 8502)
           eta == StatusWord(SchneiderATV320, command, "stopped_eta", 1, "running_eta", 7)
           WhenRunning(value) == IF command = 0 THEN 0 ELSE value
           current == WhenRunning(Larger(Constant(SchneiderATV320, "minimum_current", 50),
                                         reference \div 4))
           voltage == WhenRunning(Uint16((reference * 400) \div 500))
           torque == WhenRunning(Constant(SchneiderATV320, "running_torque", 250))
           power == Uint16((voltage * Uint16(current)) \div 1000)
           reports == << <<"eta", eta>>, <<"rfr", reference>>, <<"lcr", Uint16(current)>>,
                         <<"otr", torque>>, <<"eti", eta>>, <<"uop", voltage>>,
                         <<"opr", power>>, <<"lfrd", reference>>, <<"rfrd", reference>> >>
           at == <<3201, 3202, 3204, 3205, 3206, 3208, 3211, 8602, 8604>>
<1>4. c = SetMapped(b, SchneiderATV320, reports)
  BY <1>3 DEF SyncSchneiderATV320
<1>5. /\ eta = IF command = 0 THEN 1 ELSE 7
      /\ current = WhenRunning(Larger(50, reference \div 4))
      /\ torque = WhenRunning(250)
  BY DEF StatusWord, Constant, SchneiderATV320, Behaviour
<1>6. command \in Word /\ reference \in Word /\ command \in Nat /\ reference \in Nat
  BY <1>1, ReadCases, WordShape
<1> HIDE DEF command, reference, eta, current, torque
<1>7. /\ eta \in Word /\ torque \in Word /\ voltage \in Word
      /\ current \in Nat /\ Uint16(current) \in Word /\ power \in Word
  <2>1. eta \in Word /\ torque \in Word /\ 0 \in Word
    BY <1>5, WordShape
  <2>2. current \in Nat
    BY <1>5, <1>6 DEF Larger
  <2>3. (reference * 400) \div 500 \in Int
    BY <1>6
  <2>4. voltage \in Word /\ Uint16(current) \in Word
    BY <2>1, <2>2, <2>3, UintWord
  <2> HIDE DEF voltage
  <2>5. (voltage * Uint16(current)) \div 1000 \in Int
    BY <2>4, WordShape
  <2>6. QED
    BY <2>1, <2>2, <2>4, <2>5, UintWord
<1>8. command = 0 => current = 0
      /\ torque = 0 /\ voltage = 0 /\ Uint16(current) = 0 /\ power = 0
  <2>1. Uint16(0) = 0 /\ (0 * 0) \div 1000 = 0
    BY UintSame
  <2>2. QED
    BY <1>5, <2>1
<1>9. power = (voltage * Uint16(current)) \div 1000 <=> command = 0 \/ reference <= 18103
  <2>1. CASE command = 0
    <3>1. voltage = 0 /\ Uint16(current) = 0 /\ power = 0
      BY <1>8, <2>1
    <3> HIDE DEF voltage, power
    <3>2. power = (voltage * Uint16(current)) \div 1000
      BY <3>1
    <3>3. QED
      BY <2>1, <3>2
  <2>2. CASE command # 0
    <3> DEFINE i == Uint16(current)
    <3>1. voltage = Uint16((reference * 400) \div 500) /\ i = Uint16(Larger(50, reference \div 4))
      BY <1>5, <2>2
    <3>2. power = Uint16((voltage * i) \div 1000)
      OBVIOUS
    <3>3. reference \in Nat /\ reference <= 65535
      BY <1>6, WordShape
    <3> HIDE DEF i, voltage, power
    <3>4. Uint16((voltage * i) \div 1000) = (voltage * i) \div 1000 <=> reference <= 18103
      BY <3>1, <3>3, PowerFits
    <3>5. QED
      BY <2>2, <3>2, <3>4 DEF i
  <2>3. QED
    BY <2>1, <2>2
<1> HIDE DEF voltage, power
<1>10. DOMAIN reports = 1..9 /\ \A n \in 1..9 : reports[n][2] \in Word
  BY <1>6, <1>7
<1>11. /\ \A n \in 1..9 : /\ reports[n][1] \in DOMAIN SchneiderATV320.map
                           /\ SchneiderATV320.map[reports[n][1]] = at[n] /\ at[n] \in Nat
       /\ \A n \in 1..9 : \/ at[n] >= 3201 /\ at[n] <= 3212
                          \/ at[n] >= 8602 /\ at[n] <= 8604
       /\ \A m, n \in 1..9 : at[m] = at[n] => m = n
  BY DEF SchneiderATV320, Behaviour
<1>12. \A n \in 1..9 : reports[n][2] = <<eta, reference, Uint16(current), torque, eta, voltage,
                                        power, reference, reference>>[n]
  OBVIOUS
<1>13. Shown(b, reports, at, c)
  <2> HIDE DEF reports, at
  <2>1. IsMappable(reports)
    BY <1>10 DEF IsMappable, IsReports
  <2>2. Placed(SchneiderATV320, reports, at)
    BY <1>10, <1>11 DEF Placed
  <2>3. QED
    BY <1>1, <1>4, <2>1, <2>2, MappedDerives, Reports
<1>14. \A n \in 1..9 : Read(c, at[n]) = reports[n][2]
  <2> HIDE DEF reports, at
  <2> TAKE n \in 1..9
  <2>1. n \in DOMAIN reports
    BY <1>10
  <2>2. /\ at[n] \in Nat
        /\ (at[n] >= 3201 /\ at[n] <= 3212) \/ (at[n] >= 8602 /\ at[n] <= 8604)
    BY <1>11
  <2>3. HasRegister(b, at[n])
    BY <1>1, <2>2 DEF HasRegister, InRange
  <2>4. QED
    BY <1>13, <2>1, <2>3 DEF Shown
<1>15. \A a \in 8501..8504 : Read(c, a) = Read(b, a)
  <2> HIDE DEF reports, at
  <2> TAKE a \in 8501..8504
  <2>1. a \in Nat /\ a > 3212 /\ a < 8602
    OBVIOUS
  <2>2. \A n \in 1..9 : at[n] # a
    BY <1>11, <2>1
  <2>3. QED
    BY <1>10, <1>13, <2>1, <2>2 DEF Shown
<1>16. /\ Read(c, 3201) = eta /\ Read(c, 3202) = reference /\ Read(c, 3204) = Uint16(current)
       /\ Read(c, 3205) = torque /\ Read(c, 3208) = voltage /\ Read(c, 3211) = power
       /\ Read(c, 8602) = reference /\ Read(c, 8604) = reference /\ Read(c, 3206) = eta
  <2>1. /\ at[1] = 3201 /\ at[2] = 3202 /\ at[3] = 3204 /\ at[4] = 3205 /\ at[5] = 3206
        /\ at[6] = 3208 /\ at[7] = 3211 /\ at[8] = 8602 /\ at[9] = 8604
    OBVIOUS
  <2> HIDE DEF reports, at
  <2>2. QED
    BY <1>12, <1>14, <2>1
<1>17. HasShapeOf(c, SchneiderDrive)
  BY <1>13 DEF HasShapeOf, SameShape, Shown
<1>18. Read(c, 8501) = command /\ Read(c, 8502) = reference
  BY <1>15 DEF command, reference
<1>19. Alike(c, b, Nat \ SchneiderDerived)
  <2> SUFFICES ASSUME NEW a \in Nat, a \notin SchneiderDerived
               PROVE  Read(c, a) = Read(b, a)
    BY DEF Alike
  <2>1. \A n \in 1..9 : at[n] \in SchneiderDerived
    BY DEF SchneiderDerived
  <2> HIDE DEF reports, at
  <2>2. QED
    BY <1>10, <1>13, <2>1 DEF Shown
<1>20. command # 0 => /\ current = Larger(50, reference \div 4) /\ torque = 250
                      /\ voltage = Uint16((reference * 400) \div 500)
  BY <1>5 DEF voltage
<1>21. power = Uint16((voltage * Uint16(current)) \div 1000)
  BY DEF power
<1> HIDE DEF reports, at
<1>22. SchneiderComputes(c, command # 0, reference)
  BY <1>16, <1>20, <1>21 DEF SchneiderComputes
<1>23. QED
  BY <1>5, <1>8, <1>9, <1>15, <1>16, <1>17, <1>18, <1>19, <1>22

\* The status words of a running MS300.
LEMMA OrValues == Or(1280, 3) = 1283 /\ Or(1283, 24) = 1307
BY DEF Or

\* Where the MS300's reports are: addresses that rise with the report, with gaps.
MS300Place(n) ==
    n + IF n <= 8 THEN 8447 ELSE IF n <= 12 THEN 8448 ELSE IF n = 13 THEN 8450
        ELSE IF n = 14 THEN 8461 ELSE IF n = 15 THEN 8464 ELSE IF n <= 24 THEN 8688
        ELSE IF n <= 27 THEN 8689 ELSE IF n = 28 THEN 8690 ELSE IF n <= 33 THEN 8691
        ELSE IF n = 34 THEN 8692 ELSE IF n <= 41 THEN 8694 ELSE IF n <= 43 THEN 8697
        ELSE IF n <= 47 THEN 8698 ELSE IF n <= 50 THEN 8702 ELSE 8703

\* The numbers of its reports.
MS300Numbers == 1..53

\* The registers that the MS300 derives.
MS300Derived == {MS300Place(n) : n \in MS300Numbers}

\* The places are input registers, all different.
LEMMA PlacesRise ==
  /\ \A n \in MS300Numbers : MS300Place(n) \in Nat /\ MS300Place(n) >= 8448 /\ MS300Place(n) <= 8756
  /\ \A m, n \in MS300Numbers : MS300Place(m) = MS300Place(n) => m = n
BY DEF MS300Place, MS300Numbers

\* Every report is mapped, to its place.
LEMMA MS300Keys ==
  ASSUME NEW v, NEW n \in MS300Numbers
  PROVE  LET key == ListedMS300(v)[n][1]
         IN  key \in DOMAIN DeltaMS300.map /\ DeltaMS300.map[key] = MS300Place(n)
<1> DEFINE reports == ListedMS300(v)
           map == DeltaMS300.map
           Mapped(key, address) == key \in DOMAIN map /\ map[key] = address
<1>1. /\ Mapped("fault_status", 8448) /\ Mapped("drive_operation_status", 8449)
      /\ Mapped("frequency_command_readback", 8450) /\ Mapped("output_frequency", 8451)
      /\ Mapped("output_current", 8452) /\ Mapped("dc_bus_voltage", 8453)
      /\ Mapped("output_voltage", 8454) /\ Mapped("multi_step_speed_status", 8455)
      /\ Mapped("counter_value", 8457) /\ Mapped("output_power_factor_angle", 8458)
      /\ Mapped("output_torque", 8459) /\ Mapped("motor_actual_speed", 8460)
      /\ Mapped("power_output", 8463) /\ Mapped("maximum_user_defined_value", 8475)
  BY DEF DeltaMS300, Behaviour
<1>2. /\ Mapped("output_current_digit_metadata", 8479)
      /\ Mapped("display_output_current", 8704) /\ Mapped("display_counter_value", 8705)
      /\ Mapped("display_output_frequency", 8706) /\ Mapped("display_dc_bus_voltage", 8707)
      /\ Mapped("display_output_voltage", 8708) /\ Mapped("display_power_factor_angle", 8709)
      /\ Mapped("display_power_output", 8710) /\ Mapped("display_motor_actual_speed", 8711)
      /\ Mapped("display_output_torque", 8712) /\ Mapped("pid_feedback_value", 8714)
      /\ Mapped("avi_analog_input", 8715) /\ Mapped("aci_analog_input", 8716)
      /\ Mapped("igbt_temperature", 8718)
  BY DEF DeltaMS300, Behaviour
<1>3. /\ Mapped("digital_input_status", 8720) /\ Mapped("digital_output_status", 8721)
      /\ Mapped("multi_step_speed", 8722) /\ Mapped("cpu_pin_status_digital_input", 8723)
      /\ Mapped("cpu_pin_status_digital_output", 8724)
      /\ Mapped("pulse_input_frequency", 8726) /\ Mapped("overload_counter", 8729)
      /\ Mapped("gff", 8730) /\ Mapped("dc_bus_voltage_ripples", 8731)
      /\ Mapped("plc_register_d1043_data", 8732) /\ Mapped("magnetic_pole_zone", 8733)
      /\ Mapped("display_user_defined_output", 8734) /\ Mapped("pr_00_05_gain_value", 8735)
      /\ Mapped("control_mode", 8739)
  BY DEF DeltaMS300, Behaviour
<1>4. /\ Mapped("carrier_frequency", 8740) /\ Mapped("drive_status", 8742)
      /\ Mapped("signed_torque", 8743) /\ Mapped("torque_command", 8744)
      /\ Mapped("kwh", 8745) /\ Mapped("pid_reference", 8750) /\ Mapped("pid_offset", 8751)
      /\ Mapped("pid_output_frequency", 8752) /\ Mapped("auxiliary_frequency", 8754)
      /\ Mapped("master_frequency", 8755) /\ Mapped("combined_frequency", 8756)
  BY DEF DeltaMS300, Behaviour
<1>5. /\ reports[1][1] = "fault_status" /\ reports[2][1] = "drive_operation_status"
      /\ reports[3][1] = "frequency_command_readback" /\ reports[4][1] = "output_frequency"
      /\ reports[5][1] = "output_current" /\ reports[6][1] = "dc_bus_voltage"
      /\ reports[7][1] = "output_voltage" /\ reports[8][1] = "multi_step_speed_status"
      /\ reports[9][1] = "counter_value" /\ reports[10][1] = "output_power_factor_angle"
      /\ reports[11][1] = "output_torque" /\ reports[12][1] = "motor_actual_speed"
      /\ reports[13][1] = "power_output" /\ reports[14][1] = "maximum_user_defined_value"
  BY DEF ListedMS300
<1>6. /\ reports[15][1] = "output_current_digit_metadata"
      /\ reports[16][1] = "display_output_current" /\ reports[17][1] = "display_counter_value"
      /\ reports[18][1] = "display_output_frequency"
      /\ reports[19][1] = "display_dc_bus_voltage"
      /\ reports[20][1] = "display_output_voltage"
      /\ reports[21][1] = "display_power_factor_angle"
      /\ reports[22][1] = "display_power_output"
      /\ reports[23][1] = "display_motor_actual_speed"
      /\ reports[24][1] = "display_output_torque" /\ reports[25][1] = "pid_feedback_value"
      /\ reports[26][1] = "avi_analog_input" /\ reports[27][1] = "aci_analog_input"
      /\ reports[28][1] = "igbt_temperature"
  BY DEF ListedMS300
<1>7. /\ reports[29][1] = "digital_input_status" /\ reports[30][1] = "digital_output_status"
      /\ reports[31][1] = "multi_step_speed"
      /\ reports[32][1] = "cpu_pin_status_digital_input"
      /\ reports[33][1] = "cpu_pin_status_digital_output"
      /\ reports[34][1] = "pulse_input_frequency" /\ reports[35][1] = "overload_counter"
      /\ reports[36][1] = "gff" /\ reports[37][1] = "dc_bus_voltage_ripples"
      /\ reports[38][1] = "plc_register_d1043_data" /\ reports[39][1] = "magnetic_pole_zone"
      /\ reports[40][1] = "display_user_defined_output"
      /\ reports[41][1] = "pr_00_05_gain_value" /\ reports[42][1] = "control_mode"
  BY DEF ListedMS300
<1>8. /\ reports[43][1] = "carrier_frequency" /\ reports[44][1] = "drive_status"
      /\ reports[45][1] = "signed_torque" /\ reports[46][1] = "torque_command"
      /\ reports[47][1] = "kwh" /\ reports[48][1] = "pid_reference"
      /\ reports[49][1] = "pid_offset" /\ reports[50][1] = "pid_output_frequency"
      /\ reports[51][1] = "auxiliary_frequency" /\ reports[52][1] = "master_frequency"
      /\ reports[53][1] = "combined_frequency"
  BY DEF ListedMS300
<1> HIDE DEF reports, map
<1>9. CASE n \in 1..14
  BY <1>1, <1>5, <1>9 DEF MS300Place, reports, map
<1>10. CASE n \in 15..28
  BY <1>2, <1>6, <1>10 DEF MS300Place, reports, map
<1>11. CASE n \in 29..42
  BY <1>3, <1>7, <1>11 DEF MS300Place, reports, map
<1>12. CASE n \in 43..53
  BY <1>4, <1>8, <1>12 DEF MS300Place, reports, map
<1>13. QED
  BY <1>9, <1>10, <1>11, <1>12 DEF MS300Numbers

\* The reports are words when what is computed is.
LEMMA MS300Words ==
  ASSUME NEW v,
         v.frequency \in Word, v.moving \in Word, v.status \in Word, v.state \in Word, v.voltage \in Word,
         v.current \in Word, v.power \in Word, v.speed \in Word, v.torque \in Word, v.signed \in Word,
         v.angle \in Word, v.bus \in Word, v.maximum \in Word, v.metadata \in Word, v.igbt \in Word,
         v.ripples \in Word, v.pole \in Word, v.carrier \in Word
  PROVE  DOMAIN ListedMS300(v) = MS300Numbers /\ IsMappable(ListedMS300(v))
<1> DEFINE reports == ListedMS300(v)
<1>1. DOMAIN reports = MS300Numbers
  BY DEF ListedMS300, MS300Numbers
<1>2. 0 \in Word
  BY WordShape
<1>3. /\ reports[1][2] = 0 /\ reports[2][2] = v.status /\ reports[3][2] = v.frequency
      /\ reports[4][2] = v.moving /\ reports[5][2] = v.current /\ reports[6][2] = v.bus
      /\ reports[7][2] = v.voltage /\ reports[8][2] = 0 /\ reports[9][2] = 0
      /\ reports[10][2] = v.angle /\ reports[11][2] = v.torque /\ reports[12][2] = v.speed
      /\ reports[13][2] = v.power /\ reports[14][2] = v.maximum
  BY DEF ListedMS300
<1>4. /\ reports[15][2] = v.metadata /\ reports[16][2] = v.current /\ reports[17][2] = 0
      /\ reports[18][2] = v.moving /\ reports[19][2] = v.bus /\ reports[20][2] = v.voltage
      /\ reports[21][2] = v.angle /\ reports[22][2] = v.power /\ reports[23][2] = v.speed
      /\ reports[24][2] = v.torque /\ reports[25][2] = 0 /\ reports[26][2] = 0
      /\ reports[27][2] = 0 /\ reports[28][2] = v.igbt
  BY DEF ListedMS300
<1>5. /\ reports[29][2] = 0 /\ reports[30][2] = 0 /\ reports[31][2] = 0 /\ reports[32][2] = 0
      /\ reports[33][2] = 0 /\ reports[34][2] = 0 /\ reports[35][2] = 0 /\ reports[36][2] = 0
      /\ reports[37][2] = v.ripples /\ reports[38][2] = 0 /\ reports[39][2] = v.pole
      /\ reports[40][2] = v.moving /\ reports[41][2] = v.moving /\ reports[42][2] = 0
  BY DEF ListedMS300
<1>6. /\ reports[43][2] = v.carrier /\ reports[44][2] = v.state /\ reports[45][2] = v.signed
      /\ reports[46][2] = 0 /\ reports[47][2] = 0 /\ reports[48][2] = 0 /\ reports[49][2] = 0
      /\ reports[50][2] = 0 /\ reports[51][2] = 0 /\ reports[52][2] = v.moving
      /\ reports[53][2] = v.moving
  BY DEF ListedMS300
<1> HIDE DEF reports
<1>7. \A n \in 1..14 : reports[n][2] \in Word
  BY <1>2, <1>3
<1>8. \A n \in 15..28 : reports[n][2] \in Word
  BY <1>2, <1>4
<1>9. \A n \in 29..42 : reports[n][2] \in Word
  BY <1>2, <1>5
<1>10. \A n \in 43..53 : reports[n][2] \in Word
  BY <1>2, <1>6
<1>11. \A n \in MS300Numbers : reports[n][2] \in Word
  <2>1. \A n \in MS300Numbers : n \in 1..14 \/ n \in 15..28 \/ n \in 29..42 \/ n \in 43..53
    BY DEF MS300Numbers
  <2>2. QED
    BY <1>7, <1>8, <1>9, <1>10, <2>1, Zenon
<1>12. IsReports(reports)
  BY <1>1 DEF IsReports, MS300Numbers
<1>13. QED
  BY <1>1, <1>11, <1>12 DEF reports, IsMappable

\* The registers that the properties speak of.
LEMMA MS300Registers ==
  ASSUME NEW c, NEW v,
         \A n \in MS300Numbers : Read(c, MS300Place(n)) = ListedMS300(v)[n][2]
  PROVE  /\ Read(c, 8449) = v.status /\ Read(c, 8450) = v.frequency
         /\ Read(c, 8451) = v.moving /\ Read(c, 8452) = v.current /\ Read(c, 8453) = v.bus
         /\ Read(c, 8454) = v.voltage /\ Read(c, 8457) = 0 /\ Read(c, 8458) = v.angle
         /\ Read(c, 8459) = v.torque /\ Read(c, 8460) = v.speed /\ Read(c, 8463) = v.power
         /\ Read(c, 8704) = v.current /\ Read(c, 8705) = 0 /\ Read(c, 8706) = v.moving
         /\ Read(c, 8707) = v.bus /\ Read(c, 8708) = v.voltage /\ Read(c, 8709) = v.angle
         /\ Read(c, 8710) = v.power /\ Read(c, 8711) = v.speed /\ Read(c, 8712) = v.torque
         /\ Read(c, 8734) = v.moving /\ Read(c, 8735) = v.moving /\ Read(c, 8743) = v.signed
         /\ Read(c, 8755) = v.moving /\ Read(c, 8756) = v.moving
<1>1. /\ MS300Place(2) = 8449 /\ MS300Place(3) = 8450 /\ MS300Place(4) = 8451
      /\ MS300Place(5) = 8452 /\ MS300Place(6) = 8453 /\ MS300Place(7) = 8454
      /\ MS300Place(9) = 8457 /\ MS300Place(10) = 8458 /\ MS300Place(11) = 8459
      /\ MS300Place(12) = 8460 /\ MS300Place(13) = 8463 /\ MS300Place(16) = 8704
      /\ MS300Place(17) = 8705
  BY DEF MS300Place
<1>2. /\ MS300Place(18) = 8706 /\ MS300Place(19) = 8707 /\ MS300Place(20) = 8708
      /\ MS300Place(21) = 8709 /\ MS300Place(22) = 8710 /\ MS300Place(23) = 8711
      /\ MS300Place(24) = 8712 /\ MS300Place(40) = 8734 /\ MS300Place(41) = 8735
      /\ MS300Place(45) = 8743 /\ MS300Place(52) = 8755 /\ MS300Place(53) = 8756
  BY DEF MS300Place
<1>3. /\ ListedMS300(v)[2][2] = v.status /\ ListedMS300(v)[3][2] = v.frequency
      /\ ListedMS300(v)[4][2] = v.moving /\ ListedMS300(v)[5][2] = v.current
      /\ ListedMS300(v)[6][2] = v.bus /\ ListedMS300(v)[7][2] = v.voltage
      /\ ListedMS300(v)[9][2] = 0 /\ ListedMS300(v)[10][2] = v.angle
      /\ ListedMS300(v)[11][2] = v.torque /\ ListedMS300(v)[12][2] = v.speed
      /\ ListedMS300(v)[13][2] = v.power /\ ListedMS300(v)[16][2] = v.current
      /\ ListedMS300(v)[17][2] = 0
  BY DEF ListedMS300
<1>4. /\ ListedMS300(v)[18][2] = v.moving /\ ListedMS300(v)[19][2] = v.bus
      /\ ListedMS300(v)[20][2] = v.voltage /\ ListedMS300(v)[21][2] = v.angle
      /\ ListedMS300(v)[22][2] = v.power /\ ListedMS300(v)[23][2] = v.speed
      /\ ListedMS300(v)[24][2] = v.torque /\ ListedMS300(v)[40][2] = v.moving
      /\ ListedMS300(v)[41][2] = v.moving /\ ListedMS300(v)[45][2] = v.signed
      /\ ListedMS300(v)[52][2] = v.moving /\ ListedMS300(v)[53][2] = v.moving
  BY DEF ListedMS300
<1>5. \A n \in 1..53 : n \in MS300Numbers
  BY DEF MS300Numbers
<1>6. QED
  BY <1>1, <1>2, <1>3, <1>4, <1>5

\* What the MS300 computes from any command and frequency.
LEMMA MS300Computed ==
  ASSUME NEW command \in Word, NEW frequency \in Word, NEW v,
         v = ComputedMS300(DeltaMS300, command, frequency)
  PROVE  /\ v.frequency \in Word /\ v.moving \in Word /\ v.status \in Word /\ v.state \in Word
         /\ v.voltage \in Word /\ v.current \in Word /\ v.power \in Word /\ v.speed \in Word
         /\ v.torque \in Word /\ v.signed \in Word /\ v.angle \in Word /\ v.bus \in Word
         /\ v.maximum \in Word /\ v.metadata \in Word /\ v.igbt \in Word
         /\ v.ripples \in Word /\ v.pole \in Word /\ v.carrier \in Word
         /\ v.frequency = frequency
         /\ v.power = (v.voltage * v.current) \div 1000
         /\ Signed(v.signed) = IF command % 4 \in {2, 3} /\ (command \div 16) % 4 = 2
                               THEN -v.torque ELSE v.torque
         /\ IF command % 4 \in {2, 3} THEN v.status \in {1283, 1307}
            ELSE /\ v.status = 1280 /\ v.moving = 0 /\ v.voltage = 0 /\ v.current = 0
                 /\ v.power = 0 /\ v.speed = 0 /\ v.torque = 0 /\ v.signed = 0 /\ v.angle = 0
<1> DEFINE running == command % 4 \in {2, 3}
           reverse == running /\ (command \div 16) % 4 = 2
           WhenRunning(value) == IF running THEN value ELSE 0
           Fixed(key, fallback) == Constant(DeltaMS300, key, fallback)
           status == IF reverse THEN Or(Or(1280, 3), 24) ELSE IF running THEN Or(1280, 3) ELSE 1280
           voltage == Uint16(WhenRunning((frequency * 400) \div 5000))
           current == Uint16(WhenRunning(Larger(100, (frequency * 25) \div 1000)))
           power == Uint16((voltage * current) \div 1000)
           speed == WhenRunning(Uint16((frequency * 3) \div 10))
           torque == WhenRunning(350)
           signed == SignedTorque(reverse, torque)
<1>1. /\ Fixed("stopped_status_word", 1280) = 1280 /\ Fixed("dc_bus_voltage", 3250) = 3250
      /\ Fixed("running_status_bits", 3) = 3 /\ Fixed("reverse_status_bits", 24) = 24
      /\ Fixed("minimum_running_current", 100) = 100 /\ Fixed("running_torque", 350) = 350
      /\ Fixed("stopped_drive_status", 4) = 4
      /\ Fixed("running_forward_drive_status", 21) = 21
      /\ Fixed("running_reverse_drive_status", 22) = 22
      /\ Fixed("running_power_angle", 300) = 300
      /\ Fixed("maximum_user_defined_value", 5000) = 5000
      /\ Fixed("output_current_digit_metadata", 512) = 512
      /\ Fixed("igbt_temperature", 350) = 350 /\ Fixed("dc_bus_voltage_ripples", 25) = 25
      /\ Fixed("magnetic_pole_zone", 4) = 4 /\ Fixed("carrier_frequency", 8) = 8
  BY DEF Constant, DeltaMS300, Behaviour
<1> HIDE DEF Fixed
<1>2. /\ v.frequency = frequency /\ v.moving = WhenRunning(frequency)
      /\ v.status = IF reverse THEN Or(Or(Fixed("stopped_status_word", 1280),
                                          Fixed("running_status_bits", 3)),
                                       Fixed("reverse_status_bits", 24))
                    ELSE IF running THEN Or(Fixed("stopped_status_word", 1280),
                                            Fixed("running_status_bits", 3))
                    ELSE Fixed("stopped_status_word", 1280)
      /\ v.state = IF reverse THEN Fixed("running_reverse_drive_status", 22)
                   ELSE IF running THEN Fixed("running_forward_drive_status", 21)
                   ELSE Fixed("stopped_drive_status", 4)
  BY DEF ComputedMS300, Fixed
<1>3. /\ v.voltage = voltage
      /\ v.current = Uint16(WhenRunning(Larger(Fixed("minimum_running_current", 100),
                                               (frequency * 25) \div 1000)))
      /\ v.power = Uint16((v.voltage * v.current) \div 1000)
      /\ v.speed = speed
  BY DEF ComputedMS300, Fixed
<1>4. /\ v.torque = WhenRunning(Fixed("running_torque", 350))
      /\ v.signed = SignedTorque(reverse, v.torque)
      /\ v.angle = WhenRunning(Fixed("running_power_angle", 300))
  BY DEF ComputedMS300, Fixed
<1>5. /\ v.bus = Fixed("dc_bus_voltage", 3250)
      /\ v.maximum = Fixed("maximum_user_defined_value", 5000)
      /\ v.metadata = Fixed("output_current_digit_metadata", 512)
      /\ v.igbt = Fixed("igbt_temperature", 350)
      /\ v.ripples = Fixed("dc_bus_voltage_ripples", 25)
      /\ v.pole = Fixed("magnetic_pole_zone", 4) /\ v.carrier = Fixed("carrier_frequency", 8)
  BY DEF ComputedMS300, Fixed
<1> HIDE DEF running
<1>6. /\ v.status = IF reverse THEN 1307 ELSE IF running THEN 1283 ELSE 1280
      /\ v.state = IF reverse THEN 22 ELSE IF running THEN 21 ELSE 4
      /\ v.torque = WhenRunning(350) /\ v.angle = WhenRunning(300)
      /\ v.current = Uint16(WhenRunning(Larger(100, (frequency * 25) \div 1000)))
  BY <1>1, <1>2, <1>3, <1>4, OrValues
<1>7. command \in Nat /\ frequency \in Nat /\ frequency <= 65535
  BY WordShape
<1>8. /\ v.voltage \in Nat /\ v.voltage <= 5242
      /\ v.current \in Nat /\ v.current <= 1638
  <2>1. /\ (frequency * 400) \div 5000 \in Nat /\ (frequency * 400) \div 5000 <= 5242
        /\ (frequency * 25) \div 1000 \in Nat /\ (frequency * 25) \div 1000 <= 1638
    BY <1>7, SMT
  <2>2. /\ WhenRunning((frequency * 400) \div 5000) \in Nat
        /\ WhenRunning((frequency * 400) \div 5000) <= 5242
    BY <2>1
  <2>3. /\ WhenRunning(Larger(100, (frequency * 25) \div 1000)) \in Nat
        /\ WhenRunning(Larger(100, (frequency * 25) \div 1000)) <= 1638
    BY <2>1 DEF Larger
  <2> HIDE DEF WhenRunning
  <2>4. QED
    BY <1>3, <1>6, <2>2, <2>3, UintSame
<1>9. v.power = (v.voltage * v.current) \div 1000 /\ v.power \in Word
  <2> DEFINE p == v.voltage * v.current
  <2>1. p \in Nat /\ p <= 5242 * v.current
    BY <1>8
  <2>2. 5242 * v.current <= 8586396
    BY <1>8
  <2>3. p <= 8586396
    BY <1>8, <2>1, <2>2
  <2> HIDE DEF p
  <2>4. p \div 1000 \in Nat /\ p \div 1000 <= 65535
    BY <2>1, <2>3, SMT
  <2>5. QED
    BY <1>3, <2>4, UintSame, WordShape DEF p
<1>10. v.speed \in Word
  <2>1. (frequency * 3) \div 10 \in Int
    BY <1>7
  <2>2. QED
    BY <1>3, <2>1, UintWord, WordShape
<1>11. /\ v.signed \in Word
       /\ Signed(v.signed) = IF reverse THEN -v.torque ELSE v.torque
  <2>1. CASE reverse
    <3>1. v.torque = 350 /\ v.signed = Uint16(65535 - 350 + 1)
      BY <1>4, <1>6, <2>1 DEF SignedTorque
    <3>2. v.signed = 65186
      BY <3>1, UintSame
    <3>3. QED
      BY <2>1, <3>1, <3>2, WordShape DEF Signed
  <2>2. CASE ~reverse
    <3>1. v.signed = v.torque /\ v.torque \in {0, 350}
      BY <1>4, <1>6, <2>2 DEF SignedTorque
    <3>2. QED
      BY <2>2, <3>1, WordShape DEF Signed
  <2>3. QED
    BY <2>1, <2>2
<1>12. ~running => /\ v.status = 1280 /\ v.moving = 0 /\ v.voltage = 0 /\ v.current = 0
                   /\ v.power = 0 /\ v.speed = 0 /\ v.torque = 0 /\ v.signed = 0 /\ v.angle = 0
  <2>1. Uint16(0) = 0 /\ (0 * 0) \div 1000 = 0
    BY UintSame
  <2>2. ~running => v.voltage = 0 /\ v.current = 0 /\ v.speed = 0 /\ v.torque = 0
    BY <1>3, <1>6, <2>1
  <2>3. ~running => v.power = 0
    BY <1>9, <2>1, <2>2
  <2>4. QED
    BY <1>2, <1>4, <1>6, <2>2, <2>3 DEF SignedTorque
<1>13. /\ v.frequency \in Word /\ v.moving \in Word /\ v.status \in Word /\ v.state \in Word
       /\ v.voltage \in Word /\ v.current \in Word /\ v.torque \in Word /\ v.angle \in Word
  BY <1>2, <1>6, <1>8, WordShape
<1>14. /\ v.bus \in Word /\ v.maximum \in Word /\ v.metadata \in Word /\ v.igbt \in Word
       /\ v.ripples \in Word /\ v.pole \in Word /\ v.carrier \in Word
  BY <1>1, <1>5, WordShape
<1>15. running => v.status \in {1283, 1307}
  BY <1>6
<1>16. QED
  BY <1>2, <1>9, <1>10, <1>11, <1>12, <1>13, <1>14, <1>15 DEF running

\* The MS300: all of its reports are input registers, and each of them is read afterwards.
LEMMA MS300Reports ==
  ASSUME NEW b, HasShapeOf(b, MS300Drive), NEW c, c = SyncMS300(b, DeltaMS300), NEW v,
         v = ComputedMS300(DeltaMS300, Read(b, 8192), Read(b, 8193))
  PROVE  /\ HasShapeOf(c, MS300Drive)
         /\ \A a \in 8192..8194 : Read(c, a) = Read(b, a)
         /\ \A n \in MS300Numbers : Read(c, MS300Place(n)) = ListedMS300(v)[n][2]
         /\ Alike(c, b, Nat \ MS300Derived)
         /\ Read(b, 8192) \in Word /\ Read(b, 8193) \in Word
<1>1. /\ b.holding.start = 8192 /\ Len(b.holding.values) = 3 /\ b \in Banks
      /\ b.input.start = 8448 /\ Len(b.input.values) = 309
  BY DriveBlocks DEF HasShapeOf, IsBlock
<1>2. InRange(b.holding, 8192, 1) /\ InRange(b.holding, 8193, 1)
  BY <1>1 DEF InRange
<1>3. /\ Address(DeltaMS300, "command", 8192) = 8192
      /\ Address(DeltaMS300, "frequency_command", 8193) = 8193
  BY DEF Address, DeltaMS300, Behaviour
<1>4. /\ RegisterValueOrZero(b.holding, 8192) = Read(b, 8192)
      /\ RegisterValueOrZero(b.holding, 8193) = Read(b, 8193)
  BY <1>2 DEF Read
<1> DEFINE reports == ListedMS300(v)
           at == [n \in MS300Numbers |-> MS300Place(n)]
<1>5. c = SetInputs(b, DeltaMS300, reports)
  BY <1>2, <1>3, <1>4 DEF SyncMS300
<1>6. Read(b, 8192) \in Word /\ Read(b, 8193) \in Word
  BY <1>1, ReadCases
<1>7. DOMAIN reports = MS300Numbers /\ IsMappable(reports)
  BY <1>6, MS300Computed, MS300Words
<1>8. \A n \in MS300Numbers : at[n] = MS300Place(n)
  OBVIOUS
<1>9. \A n \in MS300Numbers : /\ reports[n][1] \in DOMAIN DeltaMS300.map
                           /\ DeltaMS300.map[reports[n][1]] = at[n]
  BY <1>8, MS300Keys
<1>10. /\ \A n \in MS300Numbers : at[n] \in Nat /\ at[n] >= 8448 /\ at[n] <= 8756
       /\ \A m, n \in MS300Numbers : at[m] = at[n] => m = n
  BY <1>8, PlacesRise
<1> HIDE DEF reports, at
<1>11. Shown(b, reports, at, c)
  <2>1. \A n \in MS300Numbers : ~InRange(b.holding, at[n], 1)
    BY <1>1, <1>10 DEF InRange
  <2>2. QED
    BY <1>1, <1>5, <1>7, <1>9, <1>10, <2>1, InputReports
<1>12. \A n \in MS300Numbers : Read(c, at[n]) = reports[n][2]
  <2> TAKE n \in MS300Numbers
  <2>1. at[n] \in Nat /\ at[n] >= 8448 /\ at[n] <= 8756
    BY <1>10
  <2>2. HasRegister(b, at[n])
    BY <1>1, <2>1 DEF HasRegister, InRange
  <2>3. n \in DOMAIN reports
    BY <1>7
  <2>4. QED
    BY <1>11, <2>2, <2>3 DEF Shown
<1>13. \A a \in 8192..8194 : Read(c, a) = Read(b, a)
  <2> TAKE a \in 8192..8194
  <2>1. a \in Nat /\ \A n \in MS300Numbers : at[n] # a
    BY <1>10
  <2>2. QED
    BY <1>7, <1>11, <2>1 DEF Shown
<1>14. HasShapeOf(c, MS300Drive)
  BY <1>11 DEF HasShapeOf, SameShape, Shown
<1>15. Alike(c, b, Nat \ MS300Derived)
  <2> SUFFICES ASSUME NEW a \in Nat, a \notin MS300Derived
               PROVE  Read(c, a) = Read(b, a)
    BY DEF Alike
  <2>1. \A n \in MS300Numbers : at[n] \in MS300Derived
    BY <1>8 DEF MS300Derived
  <2>2. QED
    BY <1>7, <1>11, <2>1 DEF Shown
<1>16. QED
  BY <1>6, <1>8, <1>12, <1>13, <1>14, <1>15 DEF reports

-----------------------------------------------------------------------------
(* The words of process data.                                              *)

\* The keys of the process data.
LEMMA Keys ==
  /\ WriteKey[3] = "process_data_write_3" /\ ReadKey[3] = "process_data_read_3"
  /\ WriteKey[4] = "process_data_write_4" /\ ReadKey[4] = "process_data_read_4"
  /\ WriteKey[5] = "process_data_write_5" /\ ReadKey[5] = "process_data_read_5"
  /\ WriteKey[6] = "process_data_write_6" /\ ReadKey[6] = "process_data_read_6"
  /\ WriteKey[7] = "process_data_write_7" /\ ReadKey[7] = "process_data_read_7"
  /\ WriteKey[8] = "process_data_write_8" /\ ReadKey[8] = "process_data_read_8"
  /\ WriteKey[9] = "process_data_write_9" /\ ReadKey[9] = "process_data_read_9"
  /\ WriteKey[10] = "process_data_write_10" /\ ReadKey[10] = "process_data_read_10"
BY DEF WriteKey, ReadKey

\* The words 3 to 10 are mapped to two areas.
ProcessWords(map, w, r) ==
    \A i \in 3..10 : /\ WriteKey[i] \in DOMAIN map /\ map[WriteKey[i]] = w + i
                     /\ ReadKey[i] \in DOMAIN map /\ map[ReadKey[i]] = r + i

\* The record of the keys maps the words to the two areas.
LEMMA ProcessDataMap ==
  ASSUME NEW w \in Nat, NEW r \in Nat
  PROVE  ProcessWords(ProcessData(w, r), w, r)
<1> SUFFICES ASSUME NEW i \in 3..10
             PROVE  /\ WriteKey[i] \in DOMAIN ProcessData(w, r)
                    /\ ProcessData(w, r)[WriteKey[i]] = w + i
                    /\ ReadKey[i] \in DOMAIN ProcessData(w, r)
                    /\ ProcessData(w, r)[ReadKey[i]] = r + i
  BY DEF ProcessWords
<1>1. i = 3 \/ i = 4 \/ i = 5 \/ i = 6 \/ i = 7 \/ i = 8 \/ i = 9 \/ i = 10
  OBVIOUS
<1>2. QED
  BY <1>1, Keys DEF ProcessData

\* No key of a drive's own is one of the process data.
LEMMA OwnKeys ==
  ASSUME NEW w \in Nat, NEW r \in Nat,
         NEW key \in {"control_word", "main_reference", "main_setpoint", "status_word",
                      "main_actual_value", "reference_speed", "failure_number",
                      "alarm_number", "actual_alarm_code"}
  PROVE  key \notin DOMAIN ProcessData(w, r)
BY DEF ProcessData

\* The map of the shipped Danfoss configuration: word 3 follows the first two.
LEMMA DanfossMap ==
  /\ DanfossShipped.constants = StoppedRunning
  /\ DanfossShipped.model = "danfoss-fc302-basic"
  /\ ProcessWords(DanfossShipped.map, 2809, 2909)
  /\ \A key \in {"control_word", "main_reference", "status_word", "main_actual_value"} :
       key \in DOMAIN DanfossShipped.map
  /\ DanfossShipped.map["control_word"] = 2810
  /\ DanfossShipped.map["main_reference"] = 2811
  /\ DanfossShipped.map["status_word"] = 2910
  /\ DanfossShipped.map["main_actual_value"] = 2911
<1> DEFINE own == [control_word |-> 2810, main_reference |-> 2811,
                   status_word |-> 2910, main_actual_value |-> 2911]
           data == ProcessData(2809, 2909)
           old == ProcessData(2807, 2907)
           keys == {"control_word", "main_reference", "status_word", "main_actual_value"}
<1>1. /\ DanfossFC302.map = Merged(own, old)
      /\ DanfossFC302 = [model |-> DanfossFC302.model, map |-> DanfossFC302.map,
                         constants |-> DanfossFC302.constants]
      /\ DanfossFC302.constants = StoppedRunning /\ DanfossFC302.model = "danfoss-fc302-basic"
  BY DEF DanfossFC302, Behaviour
<1>2. /\ DanfossShipped.map = Merged(data, Merged(own, old))
      /\ DanfossShipped.constants = StoppedRunning
      /\ DanfossShipped.model = "danfoss-fc302-basic"
  <2> HIDE DEF own, data, old
  <2>1. DanfossShipped = [DanfossFC302 EXCEPT !.map = Merged(data, @)]
    BY DEF DanfossShipped, data
  <2>2. QED
    BY <1>1, <2>1
<1>3. \A key \in keys : key \notin DOMAIN data
  BY OwnKeys
<1>4. DOMAIN own = keys
  OBVIOUS
<1>5. ProcessWords(data, 2809, 2909)
  BY ProcessDataMap, 2809 \in Nat, 2909 \in Nat
<1>6. own["control_word"] = 2810 /\ own["main_reference"] = 2811
      /\ own["status_word"] = 2910 /\ own["main_actual_value"] = 2911
  OBVIOUS
<1> HIDE DEF own, data, old
<1>7. QED
  BY <1>2, <1>3, <1>4, <1>5, <1>6 DEF Merged, ProcessWords

\* The map of the SINAMICS drive.
LEMMA SiemensMap ==
  /\ SiemensSINAMICS.constants = StoppedRunning
  /\ SiemensSINAMICS.model = "siemens-sinamics-basic"
  /\ ProcessWords(SiemensSINAMICS.map, 40099, 40109)
  /\ \A key \in {"control_word", "main_setpoint", "status_word", "main_actual_value",
                 "reference_speed", "failure_number", "alarm_number", "actual_alarm_code"} :
       key \in DOMAIN SiemensSINAMICS.map
  /\ SiemensSINAMICS.map["control_word"] = 40100
  /\ SiemensSINAMICS.map["main_setpoint"] = 40101
  /\ SiemensSINAMICS.map["status_word"] = 40110
  /\ SiemensSINAMICS.map["main_actual_value"] = 40111
  /\ SiemensSINAMICS.map["reference_speed"] = 40324
  /\ SiemensSINAMICS.map["failure_number"] = 40400
  /\ SiemensSINAMICS.map["alarm_number"] = 40408
  /\ SiemensSINAMICS.map["actual_alarm_code"] = 40409
<1> DEFINE own == [control_word |-> 40100, main_setpoint |-> 40101, status_word |-> 40110,
                   main_actual_value |-> 40111, reference_speed |-> 40324,
                   failure_number |-> 40400, alarm_number |-> 40408,
                   actual_alarm_code |-> 40409]
           data == ProcessData(40099, 40109)
           keys == {"control_word", "main_setpoint", "status_word", "main_actual_value",
                    "reference_speed", "failure_number", "alarm_number", "actual_alarm_code"}
<1>1. /\ SiemensSINAMICS.map = Merged(own, data)
      /\ SiemensSINAMICS.constants = StoppedRunning
      /\ SiemensSINAMICS.model = "siemens-sinamics-basic"
  BY DEF SiemensSINAMICS, Behaviour
<1>2. ProcessWords(data, 40099, 40109)
  BY ProcessDataMap, 40099 \in Nat, 40109 \in Nat
<1>3. \A i \in 3..10 : WriteKey[i] \notin keys /\ ReadKey[i] \notin keys
  <2> TAKE i \in 3..10
  <2>1. i = 3 \/ i = 4 \/ i = 5 \/ i = 6 \/ i = 7 \/ i = 8 \/ i = 9 \/ i = 10
    OBVIOUS
  <2>2. QED
    BY <2>1, Keys
<1>4. DOMAIN own = keys
  OBVIOUS
<1>5. /\ own["control_word"] = 40100 /\ own["main_setpoint"] = 40101
      /\ own["status_word"] = 40110 /\ own["main_actual_value"] = 40111
      /\ own["reference_speed"] = 40324 /\ own["failure_number"] = 40400
      /\ own["alarm_number"] = 40408 /\ own["actual_alarm_code"] = 40409
  OBVIOUS
<1> HIDE DEF own, data
<1>6. \A key \in keys :
         key \in DOMAIN SiemensSINAMICS.map /\ SiemensSINAMICS.map[key] = own[key]
  BY <1>1, <1>4 DEF Merged
<1>7. ProcessWords(SiemensSINAMICS.map, 40099, 40109)
  BY <1>1, <1>2, <1>3, <1>4 DEF Merged, ProcessWords
<1>8. QED
  BY <1>1, <1>5, <1>6, <1>7

\* The map of the defaults: word 3 falls on word 1 and word 4 on word 2.
LEMMA DanfossDefaultMap ==
  /\ DanfossFC302.constants = StoppedRunning
  /\ DanfossFC302.model = "danfoss-fc302-basic"
  /\ ProcessWords(DanfossFC302.map, 2807, 2907)
  /\ \A key \in {"control_word", "main_reference", "status_word", "main_actual_value"} :
       key \in DOMAIN DanfossFC302.map
  /\ DanfossFC302.map["control_word"] = 2810
  /\ DanfossFC302.map["main_reference"] = 2811
  /\ DanfossFC302.map["status_word"] = 2910
  /\ DanfossFC302.map["main_actual_value"] = 2911
<1> DEFINE own == [control_word |-> 2810, main_reference |-> 2811,
                   status_word |-> 2910, main_actual_value |-> 2911]
           data == ProcessData(2807, 2907)
           keys == {"control_word", "main_reference", "status_word", "main_actual_value"}
<1>1. /\ DanfossFC302.map = Merged(own, data)
      /\ DanfossFC302.constants = StoppedRunning
      /\ DanfossFC302.model = "danfoss-fc302-basic"
  BY DEF DanfossFC302, Behaviour
<1>2. ProcessWords(data, 2807, 2907)
  BY ProcessDataMap, 2807 \in Nat, 2907 \in Nat
<1>3. \A i \in 3..10 : WriteKey[i] \notin keys /\ ReadKey[i] \notin keys
  <2> TAKE i \in 3..10
  <2>1. i = 3 \/ i = 4 \/ i = 5 \/ i = 6 \/ i = 7 \/ i = 8 \/ i = 9 \/ i = 10
    OBVIOUS
  <2>2. QED
    BY <2>1, Keys
<1>4. DOMAIN own = keys
  OBVIOUS
<1>5. /\ own["control_word"] = 2810 /\ own["main_reference"] = 2811
      /\ own["status_word"] = 2910 /\ own["main_actual_value"] = 2911
  OBVIOUS
<1> HIDE DEF own, data
<1>6. \A key \in keys : key \in DOMAIN DanfossFC302.map /\ DanfossFC302.map[key] = own[key]
  BY <1>1, <1>4 DEF Merged
<1>7. ProcessWords(DanfossFC302.map, 2807, 2907)
  BY <1>1, <1>2, <1>3, <1>4 DEF Merged, ProcessWords
<1>8. QED
  BY <1>1, <1>5, <1>6, <1>7

\* The areas lie apart from each other, in the holding registers.
Areas(b, behavior, w, r) ==
    /\ w \in Nat /\ r \in Nat /\ w + 10 < r + 3
    /\ ProcessWords(behavior.map, w, r)
    /\ \A i \in 3..10 : InRange(b.holding, w + i, 1) /\ InRange(b.holding, r + i, 1)

\* The words up to n are echoed, and nothing else has changed.
EchoedTo(n, b, r, w, c) ==
    /\ c \in Banks /\ SameShape(c, b)
    /\ \A i \in 3..n : Read(c, r + i) = Read(b, w + i)
    /\ \A a \in Nat : a \notin (r + 3)..(r + n) => Read(c, a) = Read(b, a)

\* One more word is echoed.
LEMMA EchoNext ==
  ASSUME NEW b \in Banks, NEW behavior, NEW w, NEW r, Areas(b, behavior, w, r),
         NEW n \in 3..10, NEW c, EchoedTo(n - 1, b, r, w, c)
  PROVE  EchoedTo(n, b, r, w, EchoWord(c, behavior, n))
<1> DEFINE d == EchoWord(c, behavior, n)
           value == Commanded(c, behavior, WriteKey[n], 0)
           reports == << <<ReadKey[n], value>> >>
           at == <<r + n>>
<1>1. /\ w \in Nat /\ r \in Nat /\ w + 10 < r + 3 /\ w + n \in Nat /\ r + n \in Nat
      /\ WriteKey[n] \in DOMAIN behavior.map /\ behavior.map[WriteKey[n]] = w + n
      /\ ReadKey[n] \in DOMAIN behavior.map /\ behavior.map[ReadKey[n]] = r + n
      /\ InRange(b.holding, w + n, 1) /\ InRange(b.holding, r + n, 1)
  BY DEF Areas, ProcessWords
<1>2. c \in Banks /\ SameShape(c, b)
  BY DEF EchoedTo
<1>3. InRange(c.holding, w + n, 1) /\ InRange(c.holding, r + n, 1)
  BY <1>1, <1>2, ShapeRanges
<1>4. value = Read(b, w + n)
  <2>1. value = Read(c, w + n)
    BY <1>1, <1>2, <1>3, CommandedRead
  <2>2. w + n \notin (r + 3)..(r + (n - 1))
    BY <1>1
  <2>3. QED
    BY <1>1, <2>1, <2>2 DEF EchoedTo
<1>5. value \in Word
  BY <1>1, <1>4, ReadCases
<1> HIDE DEF value
<1>6. Shown(c, reports, at, d)
  <2>1. d = SetMapped(c, behavior, reports)
    BY DEF EchoWord, value
  <2>2. DOMAIN reports = 1..1
        /\ \A m \in 1..1 : reports[m][1] = ReadKey[n] /\ reports[m][2] = value
    OBVIOUS
  <2>3. \A m \in 1..1 : at[m] = r + n
    OBVIOUS
  <2> HIDE DEF reports, at, d
  <2>4. IsMappable(reports)
    BY <1>5, <2>2 DEF IsMappable, IsReports
  <2>5. Placed(behavior, reports, at)
    BY <1>1, <2>2, <2>3 DEF Placed
  <2>6. QED
    BY <1>2, <2>1, <2>4, <2>5, MappedDerives, Reports
<1>7. /\ d \in Banks /\ SameShape(d, c) /\ Read(d, r + n) = value
      /\ \A a \in Nat : a # r + n => Read(d, a) = Read(c, a)
  <2>1. DOMAIN reports = {1} /\ reports[1][2] = value /\ at[1] = r + n
    OBVIOUS
  <2> HIDE DEF reports, at, d
  <2>2. QED
    BY <1>3, <1>6, <2>1 DEF Shown, HasRegister
<1> HIDE DEF d
<1>8. SameShape(d, b)
  BY <1>2, <1>7 DEF SameShape
<1>9. ASSUME NEW i \in 3..n PROVE Read(d, r + i) = Read(b, w + i)
  <2>1. CASE i = n
    BY <1>4, <1>7, <2>1
  <2>2. CASE i # n
    <3>1. i \in 3..(n - 1) /\ r + i \in Nat /\ r + i # r + n
      BY <1>1, <2>2
    <3>2. QED
      BY <1>7, <3>1 DEF EchoedTo
  <2>3. QED
    BY <2>1, <2>2
<1>10. ASSUME NEW a \in Nat, a \notin (r + 3)..(r + n) PROVE Read(d, a) = Read(b, a)
  <2>1. a # r + n /\ a \notin (r + 3)..(r + (n - 1))
    BY <1>1, <1>10
  <2>2. QED
    BY <1>7, <2>1 DEF EchoedTo
<1>11. QED
  BY <1>7, <1>8, <1>9, <1>10 DEF EchoedTo, d

\* All the words are echoed.
LEMMA Echoes ==
  ASSUME NEW b \in Banks, NEW behavior, NEW w, NEW r, Areas(b, behavior, w, r)
  PROVE  EchoedTo(10, b, r, w, EchoProcessData(b, behavior))
<1> DEFINE Echoed(c, i) == EchoWord(c, behavior, i)
           b3 == Echoed(b, 3)
           b4 == Echoed(b3, 4)
           b5 == Echoed(b4, 5)
           b6 == Echoed(b5, 6)
           b7 == Echoed(b6, 7)
           b8 == Echoed(b7, 8)
           b9 == Echoed(b8, 9)
           b10 == Echoed(b9, 10)
<1>1. EchoedTo(2, b, r, w, b)
  BY DEF EchoedTo, SameShape
<1>2. \A n \in 3..10 : \A c : EchoedTo(n - 1, b, r, w, c) => EchoedTo(n, b, r, w, Echoed(c, n))
  BY EchoNext
<1>3. b10 = EchoProcessData(b, behavior)
  BY DEF EchoProcessData
<1> HIDE DEF Echoed
<1>4. EchoedTo(3, b, r, w, b3)
  BY <1>1, <1>2
<1>5. EchoedTo(4, b, r, w, b4)
  BY <1>2, <1>4
<1>6. EchoedTo(5, b, r, w, b5)
  BY <1>2, <1>5
<1>7. EchoedTo(6, b, r, w, b6)
  BY <1>2, <1>6
<1>8. EchoedTo(7, b, r, w, b7)
  BY <1>2, <1>7
<1>9. EchoedTo(8, b, r, w, b8)
  BY <1>2, <1>8
<1>10. EchoedTo(9, b, r, w, b9)
  BY <1>2, <1>9
<1>11. EchoedTo(10, b, r, w, b10)
  BY <1>2, <1>10
<1>12. QED
  BY <1>3, <1>11

\* The Danfoss drive with the shipped map.
LEMMA DanfossReports ==
  ASSUME NEW b, HasShapeOf(b, DanfossDrive), NEW c, c = SyncDanfossFC302(b, DanfossShipped)
  PROVE  /\ HasShapeOf(c, DanfossDrive)
         /\ \A a \in 2810..2819 : Read(c, a) = Read(b, a)
         /\ Read(c, 2910) = IF Read(c, 2810) = 0 THEN 1 ELSE 3
         /\ Read(c, 2911) = Read(c, 2811)
         /\ \A i \in 3..10 : Read(c, 2909 + i) = Read(c, 2809 + i)
         /\ Alike(c, b, Nat \ (2910..2919))
<1>1. /\ b.holding.start = 2810 /\ Len(b.holding.values) = 110 /\ b \in Banks
  BY DriveBlocks DEF HasShapeOf, IsBlock
<1>2. \A a \in 2810..2919 : InRange(b.holding, a, 1)
  BY <1>1 DEF InRange
<1>3. /\ Commanded(b, DanfossShipped, "control_word", 2810) = Read(b, 2810)
      /\ Commanded(b, DanfossShipped, "main_reference", 2811) = Read(b, 2811)
  BY <1>1, <1>2, CommandedRead, DanfossMap
<1> DEFINE status == StatusWord(DanfossShipped, Read(b, 2810), "stopped_status_word", 1,
                                "running_status_word", 3)
           reports == << <<"status_word", status>>, <<"main_actual_value", Read(b, 2811)>> >>
           at == <<2910, 2911>>
           reported == SetMapped(b, DanfossShipped, reports)
<1>4. c = EchoProcessData(reported, DanfossShipped)
  BY <1>3 DEF SyncDanfossFC302
<1>5. status = IF Read(b, 2810) = 0 THEN 1 ELSE 3
  BY DanfossMap DEF StatusWord, Constant, StoppedRunning
<1>6. status \in Word /\ Read(b, 2811) \in Word
  BY <1>1, <1>5, ReadCases, WordShape
<1> HIDE DEF status
<1>7. DOMAIN reports = 1..2 /\ \A n \in 1..2 : reports[n][2] \in Word
  BY <1>6
<1>8. \A n \in 1..2 : /\ reports[n][1] \in DOMAIN DanfossShipped.map
                      /\ DanfossShipped.map[reports[n][1]] = at[n] /\ at[n] = 2909 + n
  BY DanfossMap
<1>9. reports[1][2] = status /\ reports[2][2] = Read(b, 2811)
  OBVIOUS
<1> HIDE DEF reports, at, reported
<1>10. Shown(b, reports, at, reported)
  <2>1. IsMappable(reports)
    BY <1>7 DEF IsMappable, IsReports
  <2>2. Placed(DanfossShipped, reports, at)
    BY <1>7, <1>8 DEF Placed
  <2>3. QED
    BY <1>1, <2>1, <2>2, MappedDerives, Reports DEF reported
<1>11. /\ reported \in Banks /\ SameShape(reported, b)
       /\ \A a \in 2810..2819 : Read(reported, a) = Read(b, a)
       /\ \A n \in 1..2 : Read(reported, 2909 + n) = reports[n][2]
  BY <1>2, <1>7, <1>8, <1>10 DEF HasRegister, Shown
<1>12. Read(reported, 2910) = status /\ Read(reported, 2911) = Read(b, 2811)
  BY <1>9, <1>11
<1>13. Areas(reported, DanfossShipped, 2809, 2909)
  <2>1. \A i \in 3..10 : InRange(b.holding, 2809 + i, 1) /\ InRange(b.holding, 2909 + i, 1)
    BY <1>2
  <2>2. QED
    BY <1>11, <2>1, DanfossMap, ShapeRanges DEF Areas
<1>14. EchoedTo(10, reported, 2909, 2809, c)
  BY <1>4, <1>11, <1>13, Echoes
<1>15. /\ c \in Banks /\ SameShape(c, reported)
       /\ \A i \in 3..10 : Read(c, 2909 + i) = Read(reported, 2809 + i)
       /\ \A a \in Nat : a \notin (2909 + 3)..(2909 + 10) => Read(c, a) = Read(reported, a)
  BY <1>14 DEF EchoedTo
<1>16. \A a \in 2810..2819 : Read(c, a) = Read(reported, a)
  BY <1>15
<1>17. Read(c, 2910) = Read(reported, 2910) /\ Read(c, 2911) = Read(reported, 2911)
  BY <1>15
<1>18. HasShapeOf(c, DanfossDrive)
  BY <1>11, <1>15 DEF HasShapeOf, SameShape
<1>19. \A i \in 3..10 : Read(c, 2909 + i) = Read(c, 2809 + i)
  <2> TAKE i \in 3..10
  <2>1. 2809 + i \in 2810..2819
    OBVIOUS
  <2>2. QED
    BY <1>15, <1>16, <2>1
<1>20. Alike(c, b, Nat \ (2910..2919))
  <2>1. \A a \in Nat \ (2910..2919) : Read(reported, a) = Read(b, a)
    BY <1>7, <1>8, <1>10 DEF Shown
  <2>2. \A a \in Nat \ (2910..2919) : Read(c, a) = Read(reported, a)
    BY <1>15
  <2>3. QED
    BY <2>1, <2>2 DEF Alike
<1>21. QED
  BY <1>5, <1>11, <1>12, <1>16, <1>17, <1>18, <1>19, <1>20

\* With the map of the defaults the echoes go over the status word: only the commands stay.
LEMMA DanfossDefaultReports ==
  ASSUME NEW b, HasShapeOf(b, DanfossDefaultDrive), NEW c,
         c = SyncDanfossFC302(b, DanfossFC302)
  PROVE  /\ HasShapeOf(c, DanfossDefaultDrive)
         /\ \A a \in 2810..2811 : Read(c, a) = Read(b, a)
         /\ \A i \in 3..10 : Read(c, 2907 + i) = Read(b, 2807 + i)
         /\ Alike(c, b, Nat \ (2910..2917))
<1>1. /\ b.holding.start = 2810 /\ Len(b.holding.values) = 110 /\ b \in Banks
  BY DriveBlocks DEF HasShapeOf, IsBlock
<1>2. \A a \in 2810..2919 : InRange(b.holding, a, 1)
  BY <1>1 DEF InRange
<1>3. /\ Commanded(b, DanfossFC302, "control_word", 2810) = Read(b, 2810)
      /\ Commanded(b, DanfossFC302, "main_reference", 2811) = Read(b, 2811)
  BY <1>1, <1>2, CommandedRead, DanfossDefaultMap
<1> DEFINE status == StatusWord(DanfossFC302, Read(b, 2810), "stopped_status_word", 1,
                                "running_status_word", 3)
           reports == << <<"status_word", status>>, <<"main_actual_value", Read(b, 2811)>> >>
           at == <<2910, 2911>>
           reported == SetMapped(b, DanfossFC302, reports)
<1>4. c = EchoProcessData(reported, DanfossFC302)
  BY <1>3 DEF SyncDanfossFC302
<1>5. status \in Word /\ Read(b, 2811) \in Word
  <2>1. status = IF Read(b, 2810) = 0 THEN 1 ELSE 3
    BY DanfossDefaultMap DEF StatusWord, Constant, StoppedRunning
  <2>2. QED
    BY <1>1, <2>1, ReadCases, WordShape
<1> HIDE DEF status
<1>6. DOMAIN reports = 1..2 /\ \A n \in 1..2 : reports[n][2] \in Word
  BY <1>5
<1>7. \A n \in 1..2 : /\ reports[n][1] \in DOMAIN DanfossFC302.map
                      /\ DanfossFC302.map[reports[n][1]] = at[n] /\ at[n] = 2909 + n
  BY DanfossDefaultMap
<1> HIDE DEF reports, at, reported
<1>8. Shown(b, reports, at, reported)
  <2>1. IsMappable(reports)
    BY <1>6 DEF IsMappable, IsReports
  <2>2. Placed(DanfossFC302, reports, at)
    BY <1>6, <1>7 DEF Placed
  <2>3. QED
    BY <1>1, <2>1, <2>2, MappedDerives, Reports DEF reported
<1>9. /\ reported \in Banks /\ SameShape(reported, b)
      /\ \A a \in 2810..2811 : Read(reported, a) = Read(b, a)
  BY <1>6, <1>7, <1>8 DEF Shown
<1>10. Areas(reported, DanfossFC302, 2807, 2907)
  <2>1. \A i \in 3..10 : InRange(b.holding, 2807 + i, 1) /\ InRange(b.holding, 2907 + i, 1)
    BY <1>2
  <2>2. QED
    BY <1>9, <2>1, DanfossDefaultMap, ShapeRanges DEF Areas
<1>11. EchoedTo(10, reported, 2907, 2807, c)
  BY <1>4, <1>9, <1>10, Echoes
<1>12. /\ c \in Banks /\ SameShape(c, reported)
       /\ \A i \in 3..10 : Read(c, 2907 + i) = Read(reported, 2807 + i)
       /\ \A a \in Nat : a \notin (2907 + 3)..(2907 + 10) => Read(c, a) = Read(reported, a)
  BY <1>11 DEF EchoedTo
<1>13. \A a \in 2810..2811 : Read(c, a) = Read(reported, a)
  BY <1>12
<1>14. HasShapeOf(c, DanfossDefaultDrive)
  BY <1>9, <1>12 DEF HasShapeOf, SameShape
<1>15. \A a \in Nat \ (2910..2917) : Read(reported, a) = Read(b, a)
  BY <1>6, <1>7, <1>8 DEF Shown
<1>16. \A i \in 3..10 : Read(c, 2907 + i) = Read(b, 2807 + i)
  <2> TAKE i \in 3..10
  <2>1. 2807 + i \in Nat \ (2910..2917)
    OBVIOUS
  <2>2. QED
    BY <1>12, <1>15, <2>1
<1>17. Alike(c, b, Nat \ (2910..2917))
  <2>1. \A a \in Nat \ (2910..2917) : Read(c, a) = Read(reported, a)
    BY <1>12
  <2>2. QED
    BY <1>15, <2>1 DEF Alike
<1>18. QED
  BY <1>9, <1>13, <1>14, <1>16, <1>17

\* The SINAMICS drive.
LEMMA SiemensReports ==
  ASSUME NEW b, HasShapeOf(b, SiemensDrive), NEW c, c = SyncSiemensSINAMICS(b, SiemensSINAMICS)
  PROVE  /\ HasShapeOf(c, SiemensDrive)
         /\ \A a \in 40100..40109 : Read(c, a) = Read(b, a)
         /\ Read(c, 40110) = IF Read(c, 40100) = 0 THEN 1 ELSE 3
         /\ Read(c, 40111) = Read(c, 40101) /\ Read(c, 40324) = Read(c, 40101)
         /\ Read(c, 40400) = 0 /\ Read(c, 40408) = 0 /\ Read(c, 40409) = 0
         /\ \A i \in 3..10 : Read(c, 40109 + i) = Read(c, 40099 + i)
         /\ Alike(c, b, Nat \ ((40110..40119) \union {40324, 40400, 40408, 40409}))
<1>1. /\ b.holding.start = 40100 /\ Len(b.holding.values) = 310 /\ b \in Banks
  BY DriveBlocks DEF HasShapeOf, IsBlock
<1>2. InRange(b.holding, 40100, 1) /\ InRange(b.holding, 40101, 1)
  BY <1>1 DEF InRange
<1>3. /\ Commanded(b, SiemensSINAMICS, "control_word", 40100) = Read(b, 40100)
      /\ Commanded(b, SiemensSINAMICS, "main_setpoint", 40101) = Read(b, 40101)
  BY <1>1, <1>2, CommandedRead, SiemensMap
<1> DEFINE status == StatusWord(SiemensSINAMICS, Read(b, 40100), "stopped_status_word", 1,
                                "running_status_word", 3)
           setpoint == Read(b, 40101)
           reports == << <<"status_word", status>>, <<"main_actual_value", setpoint>>,
                         <<"reference_speed", setpoint>>, <<"failure_number", 0>>,
                         <<"alarm_number", 0>>, <<"actual_alarm_code", 0>> >>
           at == <<40110, 40111, 40324, 40400, 40408, 40409>>
           reported == SetMapped(b, SiemensSINAMICS, reports)
<1>4. c = EchoProcessData(reported, SiemensSINAMICS)
  BY <1>3 DEF SyncSiemensSINAMICS
<1>5. status = IF Read(b, 40100) = 0 THEN 1 ELSE 3
  BY SiemensMap DEF StatusWord, Constant, StoppedRunning
<1>6. status \in Word /\ setpoint \in Word /\ 0 \in Word
  BY <1>1, <1>5, ReadCases, WordShape
<1> HIDE DEF status, setpoint
<1>7. DOMAIN reports = 1..6 /\ \A n \in 1..6 : reports[n][2] \in Word
  BY <1>6
<1>8. /\ \A n \in 1..6 : /\ reports[n][1] \in DOMAIN SiemensSINAMICS.map
                         /\ SiemensSINAMICS.map[reports[n][1]] = at[n]
      /\ \A n \in 1..6 : at[n] \in Nat /\ at[n] >= 40110 /\ at[n] <= 40409
      /\ \A m, n \in 1..6 : at[m] = at[n] => m = n
  BY SiemensMap
<1>9. /\ reports[1][2] = status /\ reports[2][2] = setpoint /\ reports[3][2] = setpoint
      /\ \A n \in 4..6 : reports[n][2] = 0
  OBVIOUS
<1>10. /\ at[1] = 40110 /\ at[2] = 40111 /\ at[3] = 40324
       /\ at[4] = 40400 /\ at[5] = 40408 /\ at[6] = 40409
  OBVIOUS
<1> HIDE DEF reports, at, reported
<1>11. Shown(b, reports, at, reported)
  <2>1. IsMappable(reports)
    BY <1>7 DEF IsMappable, IsReports
  <2>2. Placed(SiemensSINAMICS, reports, at)
    BY <1>7, <1>8 DEF Placed
  <2>3. QED
    BY <1>1, <2>1, <2>2, MappedDerives, Reports DEF reported
<1>12. /\ reported \in Banks /\ SameShape(reported, b)
       /\ \A a \in 40100..40109 : Read(reported, a) = Read(b, a)
       /\ \A n \in 1..6 : Read(reported, at[n]) = reports[n][2]
  <2>1. \A n \in DOMAIN reports : HasRegister(b, at[n])
    <3> TAKE n \in DOMAIN reports
    <3>1. n \in 1..6
      BY <1>7
    <3>2. at[n] \in Nat /\ at[n] >= 40110 /\ at[n] <= 40409
      BY <1>8, <3>1
    <3>3. QED
      BY <1>1, <3>2 DEF HasRegister, InRange
  <2>2. \A a \in 40100..40109 : a \in Nat /\ \A n \in DOMAIN reports : at[n] # a
    <3> TAKE a \in 40100..40109
    <3>1. a \in Nat /\ a < 40110
      OBVIOUS
    <3>2. \A n \in 1..6 : at[n] # a
      BY <1>8, <3>1
    <3>3. QED
      BY <1>7, <3>1, <3>2
  <2>3. QED
    BY <1>7, <1>11, <2>1, <2>2 DEF Shown
<1>13. /\ Read(reported, 40110) = status /\ Read(reported, 40111) = setpoint
       /\ Read(reported, 40324) = setpoint
       /\ \A a \in {40400, 40408, 40409} : Read(reported, a) = 0
  BY <1>9, <1>10, <1>12
<1>14. Areas(reported, SiemensSINAMICS, 40099, 40109)
  <2>1. \A i \in 3..10 : InRange(b.holding, 40099 + i, 1) /\ InRange(b.holding, 40109 + i, 1)
    BY <1>1 DEF InRange
  <2>2. QED
    BY <1>12, <2>1, SiemensMap, ShapeRanges DEF Areas
<1>15. EchoedTo(10, reported, 40109, 40099, c)
  BY <1>4, <1>12, <1>14, Echoes
<1>16. /\ c \in Banks /\ SameShape(c, reported)
       /\ \A i \in 3..10 : Read(c, 40109 + i) = Read(reported, 40099 + i)
       /\ \A a \in Nat : a \notin (40109 + 3)..(40109 + 10) => Read(c, a) = Read(reported, a)
  BY <1>15 DEF EchoedTo
<1>17. \A a \in 40100..40109 : Read(c, a) = Read(reported, a)
  BY <1>16
<1>18. /\ Read(c, 40110) = Read(reported, 40110) /\ Read(c, 40111) = Read(reported, 40111)
       /\ \A a \in {40324, 40400, 40408, 40409} : Read(c, a) = Read(reported, a)
  BY <1>16
<1>19. HasShapeOf(c, SiemensDrive)
  BY <1>12, <1>16 DEF HasShapeOf, SameShape
<1>20. \A i \in 3..10 : Read(c, 40109 + i) = Read(c, 40099 + i)
  <2> TAKE i \in 3..10
  <2>1. 40099 + i \in 40100..40109
    OBVIOUS
  <2>2. QED
    BY <1>16, <1>17, <2>1
<1>21. Read(c, 40101) = setpoint
  BY <1>12, <1>17 DEF setpoint
<1>22. Alike(c, b, Nat \ ((40110..40119) \union {40324, 40400, 40408, 40409}))
  <2> SUFFICES ASSUME NEW a \in Nat, a \notin 40110..40119,
                      a \notin {40324, 40400, 40408, 40409}
               PROVE  Read(c, a) = Read(b, a)
    BY DEF Alike
  <2>1. Read(c, a) = Read(reported, a)
    BY <1>16
  <2>2. \A n \in 1..6 : at[n] # a
    BY <1>10
  <2>3. Read(reported, a) = Read(b, a)
    BY <1>7, <1>11, <2>2 DEF Shown
  <2>4. QED
    BY <2>1, <2>3
<1>23. QED
  BY <1>5, <1>12, <1>13, <1>17, <1>18, <1>19, <1>20, <1>21, <1>22

-----------------------------------------------------------------------------
(* Any drive of the table.                                                 *)

\* The keys of the registers that a client writes.
CommandKeys(d) == Table[d].others \union {Table[d].command}

\* Where a drive has a register.
AddressOf(d, key) == Table[d].behavior.map[key]

\* What is read at the address of a key.
Shows(d, b, key) == Read(b, AddressOf(d, key))

\* Is the drive commanded to run?
Runs(d, b) == IF d = "ms300" THEN Shows(d, b, Table[d].command) % 4 \in {2, 3}
                             ELSE Shows(d, b, Table[d].command) # 0

\* Which way it is commanded to run.
Reverses(d, b) == (Shows(d, b, Table[d].command) \div 16) % 4 = 2

\* None of the registers is among those that the operator forced.
Untouched(d, keys, forced) == \A key \in keys : AddressOf(d, key) \notin forced

\* A report that repeats another register holds its value.
EchoesTold(d, b, forced) ==
    \A e \in Table[d].echoes : Untouched(d, {e.source, e.report}, forced) =>
        Shows(d, b, e.report) = Shows(d, b, e.source)

\* A stopped drive is still.
StillTold(d, b, forced) ==
    ~Runs(d, b) => \A key \in Table[d].motion :
        Untouched(d, {key}, forced) => Shows(d, b, key) = 0

\* The status word says whether the drive runs.
StatusTold(d, b, forced) ==
    Untouched(d, {Table[d].status}, forced) =>
        Shows(d, b, Table[d].status) \in
            IF Runs(d, b) THEN Table[d].running ELSE Table[d].stopped

\* The torque of the MS300 has its sign, its power is right, and that of the ATV320 is
\* right up to the reference 18103.
NumbersTold(d, b, forced) ==
    /\ d = "ms300" /\ Untouched(d, {"signed_torque", "output_torque"}, forced) =>
          Signed(Shows(d, b, "signed_torque")) =
              IF Runs(d, b) /\ Reverses(d, b) THEN -Shows(d, b, "output_torque")
                                             ELSE Shows(d, b, "output_torque")
    /\ d = "ms300" /\ Untouched(d, {"power_output", "output_voltage", "output_current"}, forced) =>
          Shows(d, b, "power_output") =
              (Shows(d, b, "output_voltage") * Shows(d, b, "output_current")) \div 1000
    /\ d = "schneider" /\ Untouched(d, {"opr", "uop", "lcr"}, forced) =>
          (Shows(d, b, "opr") = (Shows(d, b, "uop") * Shows(d, b, "lcr")) \div 1000
            <=> ~Runs(d, b) \/ Shows(d, b, "lfr") <= 18103)

\* What a bank c tells after it was derived from b, when nothing is forced.
Tells(d, b, c) ==
    /\ HasShapeOf(c, Table[d])
    /\ \A key \in CommandKeys(d) : Shows(d, c, key) = Shows(d, b, key)
    /\ EchoesTold(d, c, {}) /\ StillTold(d, c, {}) /\ NumbersTold(d, c, {})
    /\ d # "danfossDefault" => StatusTold(d, c, {})

\* A bank after the reports have been derived.
DerivedBank(d, b) == Sync(b, Table[d].behavior, d)

\* A key has an address.
Located(d, key) == AddressOf(d, key) \in Nat

\* The keys have addresses, and the commands are holding registers.
Layout(d) ==
    /\ Table[d].holding \in Blocks(Word) /\ Table[d].input \in Blocks(Word)
    /\ Located(d, Table[d].status)
    /\ \A key \in CommandKeys(d) :
         Located(d, key) /\ InRange(Table[d].holding, AddressOf(d, key), 1)
    /\ \A e \in Table[d].echoes : Located(d, e.source) /\ Located(d, e.report)
    /\ \A key \in Table[d].motion : Located(d, key)
    /\ d = "ms300" => \A key \in {"signed_torque", "output_torque", "power_output",
                                    "output_voltage", "output_current"} : Located(d, key)
    /\ d = "schneider" => "lfr" \in CommandKeys(d)
                          /\ \A key \in {"opr", "uop", "lcr"} : Located(d, key)

\* What the properties say of the MS300.
LEMMA MS300Told ==
  /\ Layout("ms300")
  /\ \A b : HasShapeOf(b, Table["ms300"]) => Tells("ms300", b, DerivedBank("ms300", b))
<1> DEFINE echoes ==
            {Echo("frequency_command", "frequency_command_readback"),
             Echo("output_current", "display_output_current"),
             Echo("counter_value", "display_counter_value"),
             Echo("output_frequency", "display_output_frequency"),
             Echo("dc_bus_voltage", "display_dc_bus_voltage"),
             Echo("output_voltage", "display_output_voltage"),
             Echo("output_power_factor_angle", "display_power_factor_angle"),
             Echo("power_output", "display_power_output"),
             Echo("motor_actual_speed", "display_motor_actual_speed"),
             Echo("output_torque", "display_output_torque"),
             Echo("output_frequency", "master_frequency"),
             Echo("master_frequency", "combined_frequency")}
           motion ==
            {"output_frequency", "output_current", "output_voltage", "output_power_factor_angle",
             "output_torque", "motor_actual_speed", "power_output", "display_output_current",
             "display_output_frequency", "display_output_voltage", "display_power_factor_angle",
             "display_power_output", "display_motor_actual_speed", "display_output_torque",
             "display_user_defined_output", "pr_00_05_gain_value", "signed_torque",
             "master_frequency", "combined_frequency"}
           Where(key) == AddressOf("ms300", key)
<1>1. /\ Table["ms300"] = MS300Drive /\ MS300Drive.behavior = DeltaMS300
      /\ MS300Drive.command = "command" /\ MS300Drive.status = "drive_operation_status"
      /\ MS300Drive.stopped = {1280} /\ MS300Drive.running = {1283, 1307}
      /\ MS300Drive.others = {"frequency_command"}
      /\ MS300Drive.echoes = echoes /\ MS300Drive.motion = motion
  BY TableEntries DEF MS300Drive, Entry
<1>2. /\ Where("command") = 8192 /\ Where("frequency_command") = 8193
      /\ Where("drive_operation_status") = 8449 /\ Where("frequency_command_readback") = 8450
      /\ Where("output_frequency") = 8451 /\ Where("output_current") = 8452
      /\ Where("dc_bus_voltage") = 8453 /\ Where("output_voltage") = 8454
      /\ Where("counter_value") = 8457 /\ Where("output_power_factor_angle") = 8458
      /\ Where("output_torque") = 8459 /\ Where("motor_actual_speed") = 8460
      /\ Where("power_output") = 8463 /\ Where("display_output_current") = 8704
      /\ Where("display_counter_value") = 8705 /\ Where("display_output_frequency") = 8706
      /\ Where("display_dc_bus_voltage") = 8707 /\ Where("display_output_voltage") = 8708
      /\ Where("display_power_factor_angle") = 8709 /\ Where("display_power_output") = 8710
      /\ Where("display_motor_actual_speed") = 8711 /\ Where("display_output_torque") = 8712
      /\ Where("display_user_defined_output") = 8734 /\ Where("pr_00_05_gain_value") = 8735
      /\ Where("signed_torque") = 8743 /\ Where("master_frequency") = 8755
      /\ Where("combined_frequency") = 8756
  BY <1>1 DEF AddressOf, DeltaMS300, Behaviour
<1>3. CommandKeys("ms300") = {"command", "frequency_command"}
  BY <1>1 DEF CommandKeys
<1> HIDE DEF Where
<1>4. Layout("ms300")
  <2>1. /\ MS300Drive.holding \in Blocks(Word) /\ MS300Drive.input \in Blocks(Word)
        /\ MS300Drive.holding.start = 8192 /\ Len(MS300Drive.holding.values) = 3
    BY DriveBlocks DEF IsBlock
  <2>2. \A key \in CommandKeys("ms300") :
          Located("ms300", key) /\ InRange(MS300Drive.holding, AddressOf("ms300", key), 1)
    BY <1>2, <1>3, <2>1 DEF Where, InRange, Located
  <2>3. \A e \in echoes : Located("ms300", e.source) /\ Located("ms300", e.report)
    <3> DEFINE Placed2(e) == Where(e.source) \in Nat /\ Where(e.report) \in Nat
    <3>1. \A e \in echoes : Placed2(e)
      BY <1>2 DEF Echo
    <3>2. QED
      BY <3>1 DEF Where, Located
  <2>4. \A key \in motion : Located("ms300", key)
    <3>1. \A key \in motion : Where(key) \in Nat
      BY <1>2
    <3>2. QED
      BY <3>1 DEF Where, Located
  <2>5. /\ Located("ms300", "drive_operation_status")
        /\ \A key \in {"signed_torque", "output_torque", "power_output", "output_voltage",
                       "output_current"} : Located("ms300", key)
    BY <1>2 DEF Where, Located
  <2> HIDE DEF echoes, motion
  <2>6. QED
    BY <1>1, <2>1, <2>2, <2>3, <2>4, <2>5 DEF Layout
<1>5. ASSUME NEW b, HasShapeOf(b, Table["ms300"])
      PROVE  Tells("ms300", b, DerivedBank("ms300", b))
  <2> DEFINE c == DerivedBank("ms300", b)
             v == ComputedMS300(DeltaMS300, Read(b, 8192), Read(b, 8193))
             Of(key) == Shows("ms300", c, key)
  <2>1. c = SyncMS300(b, DeltaMS300)
    BY <1>1 DEF DerivedBank, Sync, DeltaMS300, Behaviour
  <2>2. HasShapeOf(b, MS300Drive)
    BY <1>1, <1>5
  <2> HIDE DEF c, v
  <2>3. /\ HasShapeOf(c, MS300Drive)
        /\ \A a \in 8192..8194 : Read(c, a) = Read(b, a)
        /\ \A n \in MS300Numbers : Read(c, MS300Place(n)) = ListedMS300(v)[n][2]
        /\ Read(b, 8192) \in Word /\ Read(b, 8193) \in Word
    BY <2>1, <2>2, MS300Reports DEF v
  <2>4. /\ Of("drive_operation_status") = v.status
        /\ Of("frequency_command_readback") = v.frequency /\ Of("output_frequency") = v.moving
        /\ Of("output_current") = v.current /\ Of("dc_bus_voltage") = v.bus
        /\ Of("output_voltage") = v.voltage /\ Of("counter_value") = 0
        /\ Of("output_power_factor_angle") = v.angle /\ Of("output_torque") = v.torque
        /\ Of("motor_actual_speed") = v.speed /\ Of("power_output") = v.power
        /\ Of("display_output_current") = v.current /\ Of("display_counter_value") = 0
        /\ Of("display_output_frequency") = v.moving /\ Of("display_dc_bus_voltage") = v.bus
        /\ Of("display_output_voltage") = v.voltage
        /\ Of("display_power_factor_angle") = v.angle /\ Of("display_power_output") = v.power
        /\ Of("display_motor_actual_speed") = v.speed
        /\ Of("display_output_torque") = v.torque
        /\ Of("display_user_defined_output") = v.moving
        /\ Of("pr_00_05_gain_value") = v.moving /\ Of("signed_torque") = v.signed
        /\ Of("master_frequency") = v.moving /\ Of("combined_frequency") = v.moving
    BY <1>2, <2>3, MS300Registers DEF Where, Shows
  <2>5. /\ v.frequency = Read(b, 8193)
        /\ v.power = (v.voltage * v.current) \div 1000
        /\ Signed(v.signed) = IF Read(b, 8192) % 4 \in {2, 3} /\ (Read(b, 8192) \div 16) % 4 = 2
                              THEN -v.torque ELSE v.torque
        /\ IF Read(b, 8192) % 4 \in {2, 3} THEN v.status \in {1283, 1307}
           ELSE /\ v.status = 1280 /\ v.moving = 0 /\ v.voltage = 0 /\ v.current = 0
                /\ v.power = 0 /\ v.speed = 0 /\ v.torque = 0 /\ v.signed = 0 /\ v.angle = 0
    BY <2>3, MS300Computed DEF v
  <2>6. /\ Of("command") = Read(b, 8192) /\ Of("frequency_command") = Read(b, 8193)
        /\ Shows("ms300", b, "command") = Read(b, 8192)
        /\ Shows("ms300", b, "frequency_command") = Read(b, 8193)
    BY <1>2, <2>3 DEF Where, Shows
  <2>7. /\ Runs("ms300", c) <=> Read(b, 8192) % 4 \in {2, 3}
        /\ Reverses("ms300", c) <=> (Read(b, 8192) \div 16) % 4 = 2
    BY <1>1, <2>6 DEF Runs, Reverses
  <2>8. \A key \in CommandKeys("ms300") : Shows("ms300", c, key) = Shows("ms300", b, key)
    BY <1>3, <2>6
  <2>9. EchoesTold("ms300", c, {})
    <3>1. \A e \in echoes : Of(e.report) = Of(e.source)
      <4> HIDE DEF Of
      <4>1. QED
        BY <2>4, <2>5, <2>6 DEF Echo
    <3> HIDE DEF echoes
    <3>2. QED
      BY <1>1, <3>1 DEF EchoesTold
  <2>10. StillTold("ms300", c, {})
    <3>1. ~Runs("ms300", c) => \A key \in motion : Of(key) = 0
      <4> HIDE DEF Of
      <4>1. QED
        BY <2>4, <2>5, <2>7
    <3> HIDE DEF motion
    <3>2. QED
      BY <1>1, <3>1 DEF StillTold
  <2>11. NumbersTold("ms300", c, {})
    BY <2>4, <2>5, <2>7 DEF NumbersTold
  <2>12. StatusTold("ms300", c, {})
    BY <1>1, <2>4, <2>5, <2>7 DEF StatusTold
  <2>13. QED
    BY <1>1, <2>3, <2>8, <2>9, <2>10, <2>11, <2>12 DEF Tells, c
<1>6. QED
  BY <1>4, <1>5

\* What the properties say of the ABB drive.
LEMMA ABBTold ==
  /\ Layout("abb")
  /\ \A b : HasShapeOf(b, Table["abb"]) => Tells("abb", b, DerivedBank("abb", b))
<1>1. /\ Table["abb"] = ABBDrive /\ ABBDrive.behavior = ABBFENA
      /\ ABBDrive.command = "control_word" /\ ABBDrive.status = "status_word"
      /\ ABBDrive.stopped = {1} /\ ABBDrive.running = {3}
      /\ ABBDrive.others = {"reference_1", "data_out_2"}
      /\ ABBDrive.echoes =
            {Echo("reference_1", "actual_1"), Echo("reference_2", "actual_2"),
             Echo("data_out_1", "data_in_1"), Echo("data_out_2", "data_in_2")}
      /\ ABBDrive.motion = {}
  BY TableEntries DEF ABBDrive, Entry
<1>2. /\ AddressOf("abb", "control_word") = 1
      /\ AddressOf("abb", "reference_1") = 2
      /\ AddressOf("abb", "reference_2") = 3
      /\ AddressOf("abb", "data_out_1") = 4
      /\ AddressOf("abb", "data_out_2") = 5
      /\ AddressOf("abb", "status_word") = 51
      /\ AddressOf("abb", "actual_1") = 52
      /\ AddressOf("abb", "actual_2") = 53
      /\ AddressOf("abb", "data_in_1") = 54
      /\ AddressOf("abb", "data_in_2") = 55
  BY <1>1 DEF AddressOf, ABBFENA, Behaviour
<1>3. CommandKeys("abb") = {"control_word", "reference_1", "data_out_2"}
  BY <1>1 DEF CommandKeys
<1>4. Layout("abb")
  <2>1. /\ ABBDrive.holding \in Blocks(Word) /\ ABBDrive.input \in Blocks(Word)
        /\ ABBDrive.holding.start = 1 /\ Len(ABBDrive.holding.values) = 65
    BY DriveBlocks DEF IsBlock
  <2>2. \A key \in CommandKeys("abb") :
          Located("abb", key) /\ InRange(ABBDrive.holding, AddressOf("abb", key), 1)
    <3>1. \A key \in CommandKeys("abb") : Located("abb", key)
      BY <1>1, <1>2, <1>3 DEF Located
    <3>2. \A key \in CommandKeys("abb") : /\ AddressOf("abb", key) \in Nat
                                         /\ AddressOf("abb", key) >= 1
                                         /\ AddressOf("abb", key) < 66
      BY <1>2, <1>3
    <3>3. QED
      BY <2>1, <3>1, <3>2 DEF InRange
  <2>3. \A e \in ABBDrive.echoes : Located("abb", e.source) /\ Located("abb", e.report)
    BY <1>1, <1>2 DEF Located, Echo
  <2>4. \A key \in ABBDrive.motion : Located("abb", key)
    BY <1>1, <1>2 DEF Located
  <2>5. Located("abb", ABBDrive.status)
    BY <1>1, <1>2 DEF Located
  <2>6. QED
    BY <1>1, <2>1, <2>2, <2>3, <2>4, <2>5 DEF Layout
<1>5. ASSUME NEW b, HasShapeOf(b, Table["abb"])
      PROVE  Tells("abb", b, DerivedBank("abb", b))
  <2> DEFINE c == DerivedBank("abb", b)
  <2>1. c = SyncABBFENA(b, ABBFENA)
    BY <1>1 DEF DerivedBank, Sync, ABBFENA, Behaviour
  <2>2. HasShapeOf(b, ABBDrive)
    BY <1>1, <1>5
  <2> HIDE DEF c
  <2>3. HasShapeOf(c, Table["abb"])
    BY <1>1, <2>1, <2>2, ABBReports
  <2>4. \A key \in CommandKeys("abb") : Shows("abb", c, key) = Shows("abb", b, key)
    BY <1>2, <1>3, <2>1, <2>2, ABBReports DEF Shows
  <2>5. EchoesTold("abb", c, {})
    BY <1>1, <1>2, <2>1, <2>2, ABBReports DEF EchoesTold, Shows, Echo
  <2>6. StillTold("abb", c, {})
    BY <1>1, <1>2, <2>1, <2>2, ABBReports DEF StillTold, Shows, Runs
  <2>7. NumbersTold("abb", c, {})
    BY <1>1, <1>2, <2>1, <2>2, ABBReports DEF NumbersTold, Shows
  <2>8. StatusTold("abb", c, {})
    BY <1>1, <1>2, <2>1, <2>2, ABBReports DEF StatusTold, Shows, Runs
  <2>9. QED
    BY <2>3, <2>4, <2>5, <2>6, <2>7, <2>8 DEF Tells, c
<1>6. QED
  BY <1>4, <1>5

\* What the properties say of the Danfoss drive.
LEMMA DanfossTold ==
  /\ Layout("danfoss")
  /\ \A b : HasShapeOf(b, Table["danfoss"]) => Tells("danfoss", b, DerivedBank("danfoss", b))
<1>1. /\ Table["danfoss"] = DanfossDrive /\ DanfossDrive.behavior = DanfossShipped
      /\ DanfossDrive.command = "control_word" /\ DanfossDrive.status = "status_word"
      /\ DanfossDrive.stopped = {1} /\ DanfossDrive.running = {3}
      /\ DanfossDrive.others =
            {"main_reference", "process_data_write_3", "process_data_write_10"}
      /\ DanfossDrive.echoes = {Echo("main_reference", "main_actual_value")}
                                 \union {Echo(WriteKey[i], ReadKey[i]) : i \in 3..10}
      /\ DanfossDrive.motion = {}
  BY TableEntries DEF DanfossDrive, Entry
<1>2. /\ AddressOf("danfoss", "control_word") = 2810
      /\ AddressOf("danfoss", "main_reference") = 2811
      /\ AddressOf("danfoss", "status_word") = 2910
      /\ AddressOf("danfoss", "main_actual_value") = 2911
  BY <1>1, DanfossMap DEF AddressOf
<1>3. \A i \in 3..10 : /\ AddressOf("danfoss", WriteKey[i]) = 2809 + i
                       /\ AddressOf("danfoss", ReadKey[i]) = 2909 + i
  BY <1>1, DanfossMap DEF AddressOf, ProcessWords
<1>4. AddressOf("danfoss", "process_data_write_3") = 2812
      /\ AddressOf("danfoss", "process_data_write_10") = 2819
  BY <1>3, Keys
<1>5. CommandKeys("danfoss") =
         {"control_word", "main_reference", "process_data_write_3", "process_data_write_10"}
  BY <1>1 DEF CommandKeys
<1>6. Layout("danfoss")
  <2>1. /\ DanfossDrive.holding \in Blocks(Word) /\ DanfossDrive.input \in Blocks(Word)
        /\ DanfossDrive.holding.start = 2810 /\ Len(DanfossDrive.holding.values) = 110
    BY DriveBlocks DEF IsBlock
  <2>2. \A key \in CommandKeys("danfoss") :
          Located("danfoss", key) /\ InRange(DanfossDrive.holding, AddressOf("danfoss", key), 1)
    <3>1. \A key \in CommandKeys("danfoss") : Located("danfoss", key)
      BY <1>1, <1>2, <1>4, <1>5 DEF Located
    <3>2. \A key \in CommandKeys("danfoss") : /\ AddressOf("danfoss", key) \in Nat
                                         /\ AddressOf("danfoss", key) >= 2810
                                         /\ AddressOf("danfoss", key) < 2920
      BY <1>2, <1>4, <1>5
    <3>3. QED
      BY <2>1, <3>1, <3>2 DEF InRange
  <2>3. \A e \in DanfossDrive.echoes : Located("danfoss", e.source) /\ Located("danfoss", e.report)
    <3>1. \A e \in {Echo("main_reference", "main_actual_value")} :
             Located("danfoss", e.source) /\ Located("danfoss", e.report)
      BY <1>1, <1>2 DEF Located, Echo
    <3>2. \A i \in 3..10 : Located("danfoss", WriteKey[i]) /\ Located("danfoss", ReadKey[i])
      BY <1>1, <1>2, <1>3 DEF Located
    <3>3. \A i \in 3..10 : /\ Echo(WriteKey[i], ReadKey[i]).source = WriteKey[i]
                         /\ Echo(WriteKey[i], ReadKey[i]).report = ReadKey[i]
      BY DEF Echo
    <3>4. QED
      BY <1>1, <3>1, <3>2, <3>3
  <2>4. \A key \in DanfossDrive.motion : Located("danfoss", key)
    BY <1>1, <1>2 DEF Located
  <2>5. Located("danfoss", DanfossDrive.status)
    BY <1>1, <1>2 DEF Located
  <2>6. QED
    BY <1>1, <2>1, <2>2, <2>3, <2>4, <2>5 DEF Layout
<1>7. ASSUME NEW b, HasShapeOf(b, Table["danfoss"])
      PROVE  Tells("danfoss", b, DerivedBank("danfoss", b))
  <2> DEFINE c == DerivedBank("danfoss", b)
  <2>1. c = SyncDanfossFC302(b, DanfossShipped)
    BY <1>1, DanfossMap DEF DerivedBank, Sync
  <2>2. HasShapeOf(b, DanfossDrive)
    BY <1>1, <1>7
  <2> HIDE DEF c
  <2>3. HasShapeOf(c, Table["danfoss"])
    BY <1>1, <2>1, <2>2, DanfossReports
  <2>4. \A key \in CommandKeys("danfoss") : Shows("danfoss", c, key) = Shows("danfoss", b, key)
    BY <1>2, <1>4, <1>5, <2>1, <2>2, DanfossReports DEF Shows
  <2>5. EchoesTold("danfoss", c, {})
    <3>1. \A e \in {Echo("main_reference", "main_actual_value")} :
             Shows("danfoss", c, e.report) = Shows("danfoss", c, e.source)
      BY <1>2, <2>1, <2>2, DanfossReports DEF Shows, Echo
    <3>2. \A i \in 3..10 : Shows("danfoss", c, ReadKey[i]) = Shows("danfoss", c, WriteKey[i])
      BY <1>3, <2>1, <2>2, DanfossReports DEF Shows
    <3>3. \A i \in 3..10 : /\ Echo(WriteKey[i], ReadKey[i]).source = WriteKey[i]
                         /\ Echo(WriteKey[i], ReadKey[i]).report = ReadKey[i]
      BY DEF Echo
    <3>4. QED
      BY <1>1, <3>1, <3>2, <3>3 DEF EchoesTold
  <2>6. StillTold("danfoss", c, {})
    BY <1>1, <1>2, <2>1, <2>2, DanfossReports DEF StillTold, Shows, Runs
  <2>7. NumbersTold("danfoss", c, {})
    BY <1>1, <1>2, <2>1, <2>2, DanfossReports DEF NumbersTold, Shows
  <2>8. StatusTold("danfoss", c, {})
    BY <1>1, <1>2, <2>1, <2>2, DanfossReports DEF StatusTold, Shows, Runs
  <2>9. QED
    BY <2>3, <2>4, <2>5, <2>6, <2>7, <2>8 DEF Tells, c
<1>8. QED
  BY <1>6, <1>7

\* What they say of it with the map of the defaults: all but the status word.
LEMMA DanfossDefaultTold ==
  /\ Layout("danfossDefault")
  /\ \A b : HasShapeOf(b, Table["danfossDefault"]) =>
             Tells("danfossDefault", b, DerivedBank("danfossDefault", b))
<1>1. /\ Table["danfossDefault"] = DanfossDefaultDrive
      /\ DanfossDefaultDrive.behavior = DanfossFC302
      /\ DanfossDefaultDrive.command = "control_word"
      /\ DanfossDefaultDrive.status = "status_word"
      /\ DanfossDefaultDrive.stopped = {1} /\ DanfossDefaultDrive.running = {3}
      /\ DanfossDefaultDrive.others = {"main_reference"}
      /\ DanfossDefaultDrive.echoes = {}
      /\ DanfossDefaultDrive.motion = {}
  BY TableEntries DEF DanfossDefaultDrive, Entry
<1>2. /\ AddressOf("danfossDefault", "control_word") = 2810
      /\ AddressOf("danfossDefault", "main_reference") = 2811
      /\ AddressOf("danfossDefault", "status_word") = 2910
  BY <1>1, DanfossDefaultMap DEF AddressOf
<1>3. CommandKeys("danfossDefault") = {"control_word", "main_reference"}
  BY <1>1 DEF CommandKeys
<1>4. Layout("danfossDefault")
  <2>1. /\ DanfossDefaultDrive.holding \in Blocks(Word)
        /\ DanfossDefaultDrive.input \in Blocks(Word)
        /\ DanfossDefaultDrive.holding.start = 2810
        /\ Len(DanfossDefaultDrive.holding.values) = 110
    BY DriveBlocks DEF IsBlock
  <2>2. \A key \in CommandKeys("danfossDefault") :
          Located("danfossDefault", key)
          /\ InRange(DanfossDefaultDrive.holding, AddressOf("danfossDefault", key), 1)
    <3>1. \A key \in CommandKeys("danfossDefault") : Located("danfossDefault", key)
      BY <1>1, <1>2, <1>3 DEF Located
    <3>2. \A key \in CommandKeys("danfossDefault") : /\ AddressOf("danfossDefault", key) \in Nat
                                         /\ AddressOf("danfossDefault", key) >= 2810
                                         /\ AddressOf("danfossDefault", key) < 2920
      BY <1>2, <1>3
    <3>3. QED
      BY <2>1, <3>1, <3>2 DEF InRange
  <2>3. \A e \in DanfossDefaultDrive.echoes :
           Located("danfossDefault", e.source) /\ Located("danfossDefault", e.report)
    BY <1>1, <1>2 DEF Located, Echo
  <2>4. \A key \in DanfossDefaultDrive.motion : Located("danfossDefault", key)
    BY <1>1, <1>2 DEF Located
  <2>5. Located("danfossDefault", DanfossDefaultDrive.status)
    BY <1>1, <1>2 DEF Located
  <2>6. QED
    BY <1>1, <2>1, <2>2, <2>3, <2>4, <2>5 DEF Layout
<1>5. ASSUME NEW b, HasShapeOf(b, Table["danfossDefault"])
      PROVE  Tells("danfossDefault", b, DerivedBank("danfossDefault", b))
  <2> DEFINE c == DerivedBank("danfossDefault", b)
  <2>1. c = SyncDanfossFC302(b, DanfossFC302)
    BY <1>1, DanfossDefaultMap DEF DerivedBank, Sync
  <2>2. HasShapeOf(b, DanfossDefaultDrive)
    BY <1>1, <1>5
  <2> HIDE DEF c
  <2>3. HasShapeOf(c, Table["danfossDefault"])
    BY <1>1, <2>1, <2>2, DanfossDefaultReports
  <2>4. \A key \in CommandKeys("danfossDefault") :
           Shows("danfossDefault", c, key) = Shows("danfossDefault", b, key)
    BY <1>2, <1>3, <2>1, <2>2, DanfossDefaultReports DEF Shows
  <2>5. EchoesTold("danfossDefault", c, {})
    BY <1>1 DEF EchoesTold
  <2>6. StillTold("danfossDefault", c, {})
    BY <1>1, <1>2, <2>1, <2>2, DanfossDefaultReports DEF StillTold, Shows, Runs
  <2>7. NumbersTold("danfossDefault", c, {})
    BY <1>1, <1>2, <2>1, <2>2, DanfossDefaultReports DEF NumbersTold, Shows
  <2>8. QED
    BY <2>3, <2>4, <2>5, <2>6, <2>7 DEF Tells, c
<1>6. QED
  BY <1>4, <1>5

\* What the properties say of the Invertek drive.
LEMMA InvertekTold ==
  /\ Layout("invertek")
  /\ \A b : HasShapeOf(b, Table["invertek"]) => Tells("invertek", b, DerivedBank("invertek", b))
<1>1. /\ Table["invertek"] = InvertekDrive /\ InvertekDrive.behavior = InvertekOptidriveP2
      /\ InvertekDrive.command = "control_word" /\ InvertekDrive.status = "status_word"
      /\ InvertekDrive.stopped = {9} /\ InvertekDrive.running = {11}
      /\ InvertekDrive.others = {"frequency_setpoint", "torque_setpoint"}
      /\ InvertekDrive.echoes =
            {Echo("frequency_setpoint", "output_frequency"),
             Echo("torque_setpoint", "output_torque")}
      /\ InvertekDrive.motion = {"output_current"}
  BY TableEntries DEF InvertekDrive, Entry
<1>2. /\ AddressOf("invertek", "control_word") = 1
      /\ AddressOf("invertek", "frequency_setpoint") = 2
      /\ AddressOf("invertek", "torque_setpoint") = 3
      /\ AddressOf("invertek", "status_word") = 256
      /\ AddressOf("invertek", "output_frequency") = 257
      /\ AddressOf("invertek", "output_current") = 258
      /\ AddressOf("invertek", "output_torque") = 259
  BY <1>1 DEF AddressOf, InvertekOptidriveP2, Behaviour
<1>3. CommandKeys("invertek") = {"control_word", "frequency_setpoint", "torque_setpoint"}
  BY <1>1 DEF CommandKeys
<1>4. Layout("invertek")
  <2>1. /\ InvertekDrive.holding \in Blocks(Word) /\ InvertekDrive.input \in Blocks(Word)
        /\ InvertekDrive.holding.start = 1 /\ Len(InvertekDrive.holding.values) = 4
    BY DriveBlocks DEF IsBlock
  <2>2. \A key \in CommandKeys("invertek") :
          Located("invertek", key)
          /\ InRange(InvertekDrive.holding, AddressOf("invertek", key), 1)
    <3>1. \A key \in CommandKeys("invertek") : Located("invertek", key)
      BY <1>1, <1>2, <1>3 DEF Located
    <3>2. \A key \in CommandKeys("invertek") : /\ AddressOf("invertek", key) \in Nat
                                         /\ AddressOf("invertek", key) >= 1
                                         /\ AddressOf("invertek", key) < 5
      BY <1>2, <1>3
    <3>3. QED
      BY <2>1, <3>1, <3>2 DEF InRange
  <2>3. \A e \in InvertekDrive.echoes :
           Located("invertek", e.source) /\ Located("invertek", e.report)
    BY <1>1, <1>2 DEF Located, Echo
  <2>4. \A key \in InvertekDrive.motion : Located("invertek", key)
    BY <1>1, <1>2 DEF Located
  <2>5. Located("invertek", InvertekDrive.status)
    BY <1>1, <1>2 DEF Located
  <2>6. QED
    BY <1>1, <2>1, <2>2, <2>3, <2>4, <2>5 DEF Layout
<1>5. ASSUME NEW b, HasShapeOf(b, Table["invertek"])
      PROVE  Tells("invertek", b, DerivedBank("invertek", b))
  <2> DEFINE c == DerivedBank("invertek", b)
  <2>1. c = SyncInvertekOptidriveP2(b, InvertekOptidriveP2)
    BY <1>1 DEF DerivedBank, Sync, InvertekOptidriveP2, Behaviour
  <2>2. HasShapeOf(b, InvertekDrive)
    BY <1>1, <1>5
  <2> HIDE DEF c
  <2>3. HasShapeOf(c, Table["invertek"])
    BY <1>1, <2>1, <2>2, InvertekReports
  <2>4. \A key \in CommandKeys("invertek") :
           Shows("invertek", c, key) = Shows("invertek", b, key)
    BY <1>2, <1>3, <2>1, <2>2, InvertekReports DEF Shows
  <2>5. EchoesTold("invertek", c, {})
    BY <1>1, <1>2, <2>1, <2>2, InvertekReports DEF EchoesTold, Shows, Echo
  <2>6. StillTold("invertek", c, {})
    BY <1>1, <1>2, <2>1, <2>2, InvertekReports DEF StillTold, Shows, Runs
  <2>7. NumbersTold("invertek", c, {})
    BY <1>1, <1>2, <2>1, <2>2, InvertekReports DEF NumbersTold, Shows
  <2>8. StatusTold("invertek", c, {})
    BY <1>1, <1>2, <2>1, <2>2, InvertekReports DEF StatusTold, Shows, Runs
  <2>9. QED
    BY <2>3, <2>4, <2>5, <2>6, <2>7, <2>8 DEF Tells, c
<1>6. QED
  BY <1>4, <1>5

\* What the properties say of the ATV320.
LEMMA SchneiderTold ==
  /\ Layout("schneider")
  /\ \A b : HasShapeOf(b, Table["schneider"]) => Tells("schneider", b, DerivedBank("schneider", b))
<1>1. /\ Table["schneider"] = SchneiderDrive /\ SchneiderDrive.behavior = SchneiderATV320
      /\ SchneiderDrive.command = "cmd" /\ SchneiderDrive.status = "eta"
      /\ SchneiderDrive.stopped = {1} /\ SchneiderDrive.running = {7}
      /\ SchneiderDrive.others = {"lfr", "pisp"}
      /\ SchneiderDrive.echoes = {Echo("lfr", "rfr"), Echo("lfr", "lfrd"), Echo("lfr", "rfrd"),
                                  Echo("eta", "eti")}
      /\ SchneiderDrive.motion = {"lcr", "otr", "uop", "opr"}
  BY TableEntries DEF SchneiderDrive, Entry
<1>2. /\ AddressOf("schneider", "cmd") = 8501
      /\ AddressOf("schneider", "lfr") = 8502
      /\ AddressOf("schneider", "pisp") = 8503
      /\ AddressOf("schneider", "eta") = 3201
      /\ AddressOf("schneider", "rfr") = 3202
      /\ AddressOf("schneider", "lcr") = 3204
      /\ AddressOf("schneider", "otr") = 3205
      /\ AddressOf("schneider", "eti") = 3206
      /\ AddressOf("schneider", "uop") = 3208
      /\ AddressOf("schneider", "opr") = 3211
      /\ AddressOf("schneider", "lfrd") = 8602
      /\ AddressOf("schneider", "rfrd") = 8604
  BY <1>1 DEF AddressOf, SchneiderATV320, Behaviour
<1>3. CommandKeys("schneider") = {"cmd", "lfr", "pisp"}
  BY <1>1 DEF CommandKeys
<1>4. Layout("schneider")
  <2>1. /\ SchneiderDrive.holding \in Blocks(Word) /\ SchneiderDrive.input \in Blocks(Word)
        /\ SchneiderDrive.holding.start = 8501 /\ Len(SchneiderDrive.holding.values) = 104
    BY DriveBlocks DEF IsBlock
  <2>2. \A key \in CommandKeys("schneider") :
          Located("schneider", key)
          /\ InRange(SchneiderDrive.holding, AddressOf("schneider", key), 1)
    <3>1. \A key \in CommandKeys("schneider") : Located("schneider", key)
      BY <1>1, <1>2, <1>3 DEF Located
    <3>2. \A key \in CommandKeys("schneider") : /\ AddressOf("schneider", key) \in Nat
                                         /\ AddressOf("schneider", key) >= 8501
                                         /\ AddressOf("schneider", key) < 8605
      BY <1>2, <1>3
    <3>3. QED
      BY <2>1, <3>1, <3>2 DEF InRange
  <2>3. \A e \in SchneiderDrive.echoes :
           Located("schneider", e.source) /\ Located("schneider", e.report)
    BY <1>1, <1>2 DEF Located, Echo
  <2>4. \A key \in SchneiderDrive.motion : Located("schneider", key)
    BY <1>1, <1>2 DEF Located
  <2>5. /\ Located("schneider", "eta") /\ "lfr" \in CommandKeys("schneider")
        /\ \A key \in {"opr", "uop", "lcr"} : Located("schneider", key)
    BY <1>2, <1>3 DEF Located
  <2>6. QED
    BY <1>1, <1>2, <2>1, <2>2, <2>3, <2>4, <2>5 DEF Layout
<1>5. ASSUME NEW b, HasShapeOf(b, Table["schneider"])
      PROVE  Tells("schneider", b, DerivedBank("schneider", b))
  <2> DEFINE c == DerivedBank("schneider", b)
  <2>1. c = SyncSchneiderATV320(b, SchneiderATV320)
    BY <1>1 DEF DerivedBank, Sync, SchneiderATV320, Behaviour
  <2>2. HasShapeOf(b, SchneiderDrive)
    BY <1>1, <1>5
  <2> HIDE DEF c
  <2>3. HasShapeOf(c, Table["schneider"])
    BY <1>1, <2>1, <2>2, SchneiderReports
  <2>4. \A key \in CommandKeys("schneider") :
           Shows("schneider", c, key) = Shows("schneider", b, key)
    BY <1>2, <1>3, <2>1, <2>2, SchneiderReports DEF Shows
  <2>5. EchoesTold("schneider", c, {})
    BY <1>1, <1>2, <2>1, <2>2, SchneiderReports DEF EchoesTold, Shows, Echo
  <2>6. StillTold("schneider", c, {})
    BY <1>1, <1>2, <2>1, <2>2, SchneiderReports DEF StillTold, Shows, Runs
  <2>7. NumbersTold("schneider", c, {})
    <3>1. Runs("schneider", c) <=> Read(c, 8501) # 0
      BY <1>1, <1>2 DEF Runs, Shows
    <3>2. Read(c, 3211) = (Read(c, 3208) * Read(c, 3204)) \div 1000
            <=> ~Runs("schneider", c) \/ Read(c, 8502) <= 18103
      BY <2>1, <2>2, <3>1, SchneiderReports
    <3>3. QED
      BY <1>2, <3>2 DEF NumbersTold, Shows
  <2>8. StatusTold("schneider", c, {})
    BY <1>1, <1>2, <2>1, <2>2, SchneiderReports DEF StatusTold, Shows, Runs
  <2>9. QED
    BY <2>3, <2>4, <2>5, <2>6, <2>7, <2>8 DEF Tells, c
<1>6. QED
  BY <1>4, <1>5

\* What the properties say of the SINAMICS drive.
LEMMA SiemensTold ==
  /\ Layout("siemens")
  /\ \A b : HasShapeOf(b, Table["siemens"]) => Tells("siemens", b, DerivedBank("siemens", b))
<1>1. /\ Table["siemens"] = SiemensDrive /\ SiemensDrive.behavior = SiemensSINAMICS
      /\ SiemensDrive.command = "control_word" /\ SiemensDrive.status = "status_word"
      /\ SiemensDrive.stopped = {1} /\ SiemensDrive.running = {3}
      /\ SiemensDrive.others =
            {"main_setpoint", "process_data_write_3", "process_data_write_10"}
      /\ SiemensDrive.echoes =
            {Echo("main_setpoint", "main_actual_value"),
             Echo("main_setpoint", "reference_speed")}
               \union {Echo(WriteKey[i], ReadKey[i]) : i \in 3..10}
      /\ SiemensDrive.motion = {}
  BY TableEntries DEF SiemensDrive, Entry
<1>2. /\ AddressOf("siemens", "control_word") = 40100
      /\ AddressOf("siemens", "main_setpoint") = 40101
      /\ AddressOf("siemens", "status_word") = 40110
      /\ AddressOf("siemens", "main_actual_value") = 40111
      /\ AddressOf("siemens", "reference_speed") = 40324
  BY <1>1, SiemensMap DEF AddressOf
<1>3. \A i \in 3..10 : /\ AddressOf("siemens", WriteKey[i]) = 40099 + i
                       /\ AddressOf("siemens", ReadKey[i]) = 40109 + i
  BY <1>1, SiemensMap DEF AddressOf, ProcessWords
<1>4. AddressOf("siemens", "process_data_write_3") = 40102
      /\ AddressOf("siemens", "process_data_write_10") = 40109
  BY <1>3, Keys
<1>5. CommandKeys("siemens") =
            {"control_word", "main_setpoint", "process_data_write_3", "process_data_write_10"}
  BY <1>1 DEF CommandKeys
<1>6. Layout("siemens")
  <2>1. /\ SiemensDrive.holding \in Blocks(Word) /\ SiemensDrive.input \in Blocks(Word)
        /\ SiemensDrive.holding.start = 40100 /\ Len(SiemensDrive.holding.values) = 310
    BY DriveBlocks DEF IsBlock
  <2>2. \A key \in CommandKeys("siemens") :
          Located("siemens", key) /\ InRange(SiemensDrive.holding, AddressOf("siemens", key), 1)
    <3>1. \A key \in CommandKeys("siemens") : Located("siemens", key)
      BY <1>1, <1>2, <1>4, <1>5 DEF Located
    <3>2. \A key \in CommandKeys("siemens") : /\ AddressOf("siemens", key) \in Nat
                                         /\ AddressOf("siemens", key) >= 40100
                                         /\ AddressOf("siemens", key) < 40410
      BY <1>2, <1>4, <1>5
    <3>3. QED
      BY <2>1, <3>1, <3>2 DEF InRange
  <2>3. \A e \in SiemensDrive.echoes : Located("siemens", e.source) /\ Located("siemens", e.report)
    <3>1. \A e \in {Echo("main_setpoint", "main_actual_value"),
                   Echo("main_setpoint", "reference_speed")} :
             Located("siemens", e.source) /\ Located("siemens", e.report)
      BY <1>1, <1>2 DEF Located, Echo
    <3>2. \A i \in 3..10 : Located("siemens", WriteKey[i]) /\ Located("siemens", ReadKey[i])
      BY <1>1, <1>2, <1>3 DEF Located
    <3>3. \A i \in 3..10 : /\ Echo(WriteKey[i], ReadKey[i]).source = WriteKey[i]
                         /\ Echo(WriteKey[i], ReadKey[i]).report = ReadKey[i]
      BY DEF Echo
    <3>4. QED
      BY <1>1, <3>1, <3>2, <3>3
  <2>4. \A key \in SiemensDrive.motion : Located("siemens", key)
    BY <1>1, <1>2 DEF Located
  <2>5. Located("siemens", SiemensDrive.status)
    BY <1>1, <1>2 DEF Located
  <2>6. QED
    BY <1>1, <2>1, <2>2, <2>3, <2>4, <2>5 DEF Layout
<1>7. ASSUME NEW b, HasShapeOf(b, Table["siemens"])
      PROVE  Tells("siemens", b, DerivedBank("siemens", b))
  <2> DEFINE c == DerivedBank("siemens", b)
  <2>1. c = SyncSiemensSINAMICS(b, SiemensSINAMICS)
    BY <1>1, SiemensMap DEF DerivedBank, Sync
  <2>2. HasShapeOf(b, SiemensDrive)
    BY <1>1, <1>7
  <2> HIDE DEF c
  <2>3. HasShapeOf(c, Table["siemens"])
    BY <1>1, <2>1, <2>2, SiemensReports
  <2>4. \A key \in CommandKeys("siemens") : Shows("siemens", c, key) = Shows("siemens", b, key)
    BY <1>2, <1>4, <1>5, <2>1, <2>2, SiemensReports DEF Shows
  <2>5. EchoesTold("siemens", c, {})
    <3>1. \A e \in {Echo("main_setpoint", "main_actual_value"),
                   Echo("main_setpoint", "reference_speed")} :
             Shows("siemens", c, e.report) = Shows("siemens", c, e.source)
      BY <1>2, <2>1, <2>2, SiemensReports DEF Shows, Echo
    <3>2. \A i \in 3..10 : Shows("siemens", c, ReadKey[i]) = Shows("siemens", c, WriteKey[i])
      BY <1>3, <2>1, <2>2, SiemensReports DEF Shows
    <3>3. \A i \in 3..10 : /\ Echo(WriteKey[i], ReadKey[i]).source = WriteKey[i]
                         /\ Echo(WriteKey[i], ReadKey[i]).report = ReadKey[i]
      BY DEF Echo
    <3>4. QED
      BY <1>1, <3>1, <3>2, <3>3 DEF EchoesTold
  <2>6. StillTold("siemens", c, {})
    BY <1>1, <1>2, <2>1, <2>2, SiemensReports DEF StillTold, Shows, Runs
  <2>7. NumbersTold("siemens", c, {})
    BY <1>1, <1>2, <2>1, <2>2, SiemensReports DEF NumbersTold, Shows
  <2>8. StatusTold("siemens", c, {})
    BY <1>1, <1>2, <2>1, <2>2, SiemensReports DEF StatusTold, Shows, Runs
  <2>9. QED
    BY <2>3, <2>4, <2>5, <2>6, <2>7, <2>8 DEF Tells, c
<1>8. QED
  BY <1>6, <1>7

\* What the properties say of each drive of the table, for any bank of its shape.
LEMMA EveryDrive ==
  ASSUME NEW d \in DOMAIN Table
  PROVE  /\ Layout(d)
         /\ \A b : HasShapeOf(b, Table[d]) => Tells(d, b, DerivedBank(d, b))
BY TableEntries, MS300Told, ABBTold, DanfossTold, DanfossDefaultTold, InvertekTold,
   SchneiderTold, SiemensTold

-----------------------------------------------------------------------------
(* What the reports depend on.                                             *)

\* The registers that each drive derives.
DerivedRegisters ==
    [ms300 |-> MS300Derived, abb |-> 51..55, danfoss |-> 2910..2919,
     danfossDefault |-> 2910..2917, invertek |-> 256..259, schneider |-> SchneiderDerived,
     siemens |-> (40110..40119) \union {40324, 40400, 40408, 40409}]

\* Two banks that agree on the registers that are not derived.
SameInputs(d, b, x) ==
    /\ HasShapeOf(b, Table[d]) /\ HasShapeOf(x, Table[d])
    /\ Alike(b, x, Nat \ DerivedRegisters[d])

\* The derived registers are a function of the other ones, which stay as they are.
Determined(d, b, x) ==
    /\ Alike(DerivedBank(d, b), b, Nat \ DerivedRegisters[d])
    /\ Alike(DerivedBank(d, b), DerivedBank(d, x), Nat)

\* The places of the derived registers, by drive.
LEMMA DerivedPlaces ==
  /\ DerivedRegisters["ms300"] = MS300Derived /\ DerivedRegisters["abb"] = 51..55
  /\ DerivedRegisters["danfoss"] = 2910..2919
  /\ DerivedRegisters["danfossDefault"] = 2910..2917
  /\ DerivedRegisters["invertek"] = 256..259
  /\ DerivedRegisters["schneider"] = SchneiderDerived
  /\ DerivedRegisters["siemens"] = (40110..40119) \union {40324, 40400, 40408, 40409}
BY DEF DerivedRegisters

\* It is enough that the banks agree on the derived registers afterwards.
LEMMA Determines ==
  ASSUME NEW d, NEW b, NEW x, SameInputs(d, b, x),
         Alike(DerivedBank(d, b), b, Nat \ DerivedRegisters[d]),
         Alike(DerivedBank(d, x), x, Nat \ DerivedRegisters[d]),
         Alike(DerivedBank(d, b), DerivedBank(d, x), DerivedRegisters[d])
  PROVE  Determined(d, b, x)
<1>1. ASSUME NEW a \in Nat PROVE Read(DerivedBank(d, b), a) = Read(DerivedBank(d, x), a)
  <2>1. CASE a \in DerivedRegisters[d]
    BY <2>1 DEF Alike
  <2>2. CASE a \notin DerivedRegisters[d]
    BY <2>2 DEF Alike, SameInputs
  <2>3. QED
    BY <2>1, <2>2
<1>2. QED
  BY <1>1 DEF Determined, Alike

\* The MS300.
LEMMA MS300Determined ==
  ASSUME NEW b, NEW x, SameInputs("ms300", b, x)
  PROVE  Determined("ms300", b, x)
<1> DEFINE c == DerivedBank("ms300", b)
           y == DerivedBank("ms300", x)
<1>1. /\ Table["ms300"] = MS300Drive /\ MS300Drive.behavior = DeltaMS300
      /\ DerivedRegisters["ms300"] = MS300Derived
  BY TableEntries, DerivedPlaces DEF MS300Drive, Entry
<1>2. c = SyncMS300(b, DeltaMS300) /\ y = SyncMS300(x, DeltaMS300)
  BY <1>1 DEF DerivedBank, Sync, DeltaMS300, Behaviour
<1>3. HasShapeOf(b, MS300Drive) /\ HasShapeOf(x, MS300Drive)
  BY <1>1 DEF SameInputs
<1>4. Read(b, 8192) = Read(x, 8192) /\ Read(b, 8193) = Read(x, 8193)
  <2>1. \A a \in MS300Derived : a \in Nat /\ a >= 8448
    BY PlacesRise DEF MS300Derived
  <2>2. 8192 \notin MS300Derived /\ 8193 \notin MS300Derived
    BY <2>1
  <2>3. QED
    BY <1>1, <2>2 DEF SameInputs, Alike
<1> HIDE DEF c, y
<1>5. /\ Alike(c, b, Nat \ MS300Derived) /\ Alike(y, x, Nat \ MS300Derived)
      /\ \A n \in MS300Numbers : Read(c, MS300Place(n)) = Read(y, MS300Place(n))
  BY <1>2, <1>3, <1>4, MS300Reports
<1>6. Alike(c, y, MS300Derived)
  BY <1>5 DEF Alike, MS300Derived
<1>7. QED
  BY <1>1, <1>5, <1>6, Determines DEF c, y

\* The ABB drive.
LEMMA ABBDetermined ==
  ASSUME NEW b, NEW x, SameInputs("abb", b, x)
  PROVE  Determined("abb", b, x)
<1> DEFINE c == DerivedBank("abb", b)
           y == DerivedBank("abb", x)
<1>1. /\ Table["abb"] = ABBDrive /\ ABBDrive.behavior = ABBFENA
      /\ DerivedRegisters["abb"] = 51..55
  BY TableEntries, DerivedPlaces DEF ABBDrive, Entry
<1>2. c = SyncABBFENA(b, ABBFENA) /\ y = SyncABBFENA(x, ABBFENA)
  BY <1>1 DEF DerivedBank, Sync, ABBFENA, Behaviour
<1>3. HasShapeOf(b, ABBDrive) /\ HasShapeOf(x, ABBDrive)
  BY <1>1 DEF SameInputs
<1>4. \A a \in 1..5 : Read(b, a) = Read(x, a)
  BY <1>1 DEF SameInputs, Alike
<1> HIDE DEF c, y
<1>5. /\ Alike(c, b, Nat \ DerivedRegisters["abb"])
      /\ Alike(y, x, Nat \ DerivedRegisters["abb"])
  BY <1>1, <1>2, <1>3, ABBReports
<1>6. \A a \in 1..5 : Read(c, a) = Read(y, a)
  BY <1>2, <1>3, <1>4, ABBReports
<1>7. Alike(c, y, DerivedRegisters["abb"])
  BY <1>1, <1>2, <1>3, <1>6, ABBReports DEF Alike
<1>8. QED
  BY <1>5, <1>7, Determines DEF c, y

\* The Danfoss drive as it is shipped.
LEMMA DanfossDetermined ==
  ASSUME NEW b, NEW x, SameInputs("danfoss", b, x)
  PROVE  Determined("danfoss", b, x)
<1> DEFINE c == DerivedBank("danfoss", b)
           y == DerivedBank("danfoss", x)
<1>1. /\ Table["danfoss"] = DanfossDrive /\ DanfossDrive.behavior = DanfossShipped
      /\ DerivedRegisters["danfoss"] = 2910..2919
  BY TableEntries, DerivedPlaces DEF DanfossDrive, Entry
<1>2. c = SyncDanfossFC302(b, DanfossShipped) /\ y = SyncDanfossFC302(x, DanfossShipped)
  BY <1>1, DanfossMap DEF DerivedBank, Sync
<1>3. HasShapeOf(b, DanfossDrive) /\ HasShapeOf(x, DanfossDrive)
  BY <1>1 DEF SameInputs
<1>4. \A a \in 2810..2819 : Read(b, a) = Read(x, a)
  BY <1>1 DEF SameInputs, Alike
<1> HIDE DEF c, y
<1>5. /\ Alike(c, b, Nat \ DerivedRegisters["danfoss"])
      /\ Alike(y, x, Nat \ DerivedRegisters["danfoss"])
  BY <1>1, <1>2, <1>3, DanfossReports
<1>6. \A a \in 2810..2819 : Read(c, a) = Read(y, a)
  BY <1>2, <1>3, <1>4, DanfossReports
<1>7. Alike(c, y, DerivedRegisters["danfoss"])
  <2>1. \A i \in 3..10 : Read(c, 2909 + i) = Read(y, 2909 + i)
    <3>1. \A i \in 3..10 : 2809 + i \in 2810..2819
      OBVIOUS
    <3>2. QED
      BY <1>2, <1>3, <1>6, <3>1, DanfossReports
  <2>2. \A a \in {2910, 2911} : Read(c, a) = Read(y, a)
    BY <1>2, <1>3, <1>6, DanfossReports
  <2>3. ASSUME NEW a \in DerivedRegisters["danfoss"] PROVE Read(c, a) = Read(y, a)
    <3>1. a \in {2910, 2911} \/ (a - 2909 \in 3..10 /\ 2909 + (a - 2909) = a)
      BY <1>1
    <3>2. QED
      BY <2>1, <2>2, <3>1
  <2>4. QED
    BY <2>3 DEF Alike
<1>8. QED
  BY <1>5, <1>7, Determines DEF c, y

\* The Danfoss drive with the default map.
LEMMA DanfossDefaultDetermined ==
  ASSUME NEW b, NEW x, SameInputs("danfossDefault", b, x)
  PROVE  Determined("danfossDefault", b, x)
<1> DEFINE c == DerivedBank("danfossDefault", b)
           y == DerivedBank("danfossDefault", x)
<1>1. /\ Table["danfossDefault"] = DanfossDefaultDrive /\ DanfossDefaultDrive.behavior = DanfossFC302
      /\ DerivedRegisters["danfossDefault"] = 2910..2917
  BY TableEntries, DerivedPlaces DEF DanfossDefaultDrive, Entry
<1>2. c = SyncDanfossFC302(b, DanfossFC302) /\ y = SyncDanfossFC302(x, DanfossFC302)
  BY <1>1, DanfossDefaultMap DEF DerivedBank, Sync
<1>3. HasShapeOf(b, DanfossDefaultDrive) /\ HasShapeOf(x, DanfossDefaultDrive)
  BY <1>1 DEF SameInputs
<1>4. \A a \in 2810..2817 : Read(b, a) = Read(x, a)
  BY <1>1 DEF SameInputs, Alike
<1> HIDE DEF c, y
<1>5. /\ Alike(c, b, Nat \ DerivedRegisters["danfossDefault"])
      /\ Alike(y, x, Nat \ DerivedRegisters["danfossDefault"])
  BY <1>1, <1>2, <1>3, DanfossDefaultReports
<1>6. \A i \in 3..10 : Read(c, 2907 + i) = Read(y, 2907 + i)
  <2>1. \A i \in 3..10 : 2807 + i \in 2810..2817
    OBVIOUS
  <2>2. QED
    BY <1>2, <1>3, <1>4, <2>1, DanfossDefaultReports
<1>7. Alike(c, y, DerivedRegisters["danfossDefault"])
  <2>1. ASSUME NEW a \in DerivedRegisters["danfossDefault"] PROVE Read(c, a) = Read(y, a)
    <3>1. a - 2907 \in 3..10 /\ 2907 + (a - 2907) = a
      BY <1>1
    <3>2. QED
      BY <1>6, <3>1
  <2>2. QED
    BY <2>1 DEF Alike
<1>8. QED
  BY <1>5, <1>7, Determines DEF c, y

\* The Invertek drive.
LEMMA InvertekDetermined ==
  ASSUME NEW b, NEW x, SameInputs("invertek", b, x)
  PROVE  Determined("invertek", b, x)
<1> DEFINE c == DerivedBank("invertek", b)
           y == DerivedBank("invertek", x)
<1>1. /\ Table["invertek"] = InvertekDrive /\ InvertekDrive.behavior = InvertekOptidriveP2
      /\ DerivedRegisters["invertek"] = 256..259
  BY TableEntries, DerivedPlaces DEF InvertekDrive, Entry
<1>2. c = SyncInvertekOptidriveP2(b, InvertekOptidriveP2) /\ y = SyncInvertekOptidriveP2(x, InvertekOptidriveP2)
  BY <1>1 DEF DerivedBank, Sync, InvertekOptidriveP2, Behaviour
<1>3. HasShapeOf(b, InvertekDrive) /\ HasShapeOf(x, InvertekDrive)
  BY <1>1 DEF SameInputs
<1>4. \A a \in 1..4 : Read(b, a) = Read(x, a)
  BY <1>1 DEF SameInputs, Alike
<1> HIDE DEF c, y
<1>5. /\ Alike(c, b, Nat \ DerivedRegisters["invertek"])
      /\ Alike(y, x, Nat \ DerivedRegisters["invertek"])
  BY <1>1, <1>2, <1>3, InvertekReports
<1>6. \A a \in 1..4 : Read(c, a) = Read(y, a)
  BY <1>2, <1>3, <1>4, InvertekReports
<1>7. Alike(c, y, DerivedRegisters["invertek"])
  BY <1>1, <1>2, <1>3, <1>6, InvertekReports DEF Alike
<1>8. QED
  BY <1>5, <1>7, Determines DEF c, y

\* The Schneider drive.
LEMMA SchneiderDetermined ==
  ASSUME NEW b, NEW x, SameInputs("schneider", b, x)
  PROVE  Determined("schneider", b, x)
<1> DEFINE c == DerivedBank("schneider", b)
           y == DerivedBank("schneider", x)
<1>1. /\ Table["schneider"] = SchneiderDrive /\ SchneiderDrive.behavior = SchneiderATV320
      /\ DerivedRegisters["schneider"] = SchneiderDerived
  BY TableEntries, DerivedPlaces DEF SchneiderDrive, Entry
<1>2. c = SyncSchneiderATV320(b, SchneiderATV320) /\ y = SyncSchneiderATV320(x, SchneiderATV320)
  BY <1>1 DEF DerivedBank, Sync, SchneiderATV320, Behaviour
<1>3. HasShapeOf(b, SchneiderDrive) /\ HasShapeOf(x, SchneiderDrive)
  BY <1>1 DEF SameInputs
<1>4. \A a \in 8501..8504 : Read(b, a) = Read(x, a)
  BY <1>1 DEF SameInputs, Alike, SchneiderDerived
<1> HIDE DEF c, y
<1>5. /\ Alike(c, b, Nat \ DerivedRegisters["schneider"])
      /\ Alike(y, x, Nat \ DerivedRegisters["schneider"])
  <2>1. Alike(c, b, Nat \ SchneiderDerived)
    BY <1>2, <1>3, SchneiderReports
  <2>2. Alike(y, x, Nat \ SchneiderDerived)
    BY <1>2, <1>3, SchneiderReports
  <2>3. QED
    BY <1>1, <2>1, <2>2
<1>6. \A a \in 8501..8504 : Read(c, a) = Read(y, a)
  BY <1>2, <1>3, <1>4, SchneiderReports
<1>7. Alike(c, y, DerivedRegisters["schneider"])
  <2>1. SchneiderComputes(c, Read(c, 8501) # 0, Read(c, 8502))
    BY <1>2, <1>3, SchneiderReports
  <2>2. SchneiderComputes(y, Read(y, 8501) # 0, Read(y, 8502))
    BY <1>2, <1>3, SchneiderReports
  <2>3. \A a \in {3201, 3202, 3206, 8602, 8604} : Read(c, a) = Read(y, a)
    BY <1>2, <1>3, <1>6, SchneiderReports
  <2>4. Read(c, 8501) = 0 => \A a \in {3204, 3205, 3208, 3211} : Read(c, a) = 0 /\ Read(y, a) = 0
    BY <1>2, <1>3, <1>6, SchneiderReports
  <2>5. \A a \in {3204, 3205, 3208} : Read(c, a) = Read(y, a)
    BY <1>6, <2>1, <2>2, <2>4 DEF SchneiderComputes
  <2>6. Read(c, 3211) = Read(y, 3211)
    BY <2>1, <2>2, <2>5 DEF SchneiderComputes
  <2>7. QED
    BY <1>1, <2>3, <2>5, <2>6 DEF SchneiderDerived, Alike
<1>8. QED
  BY <1>5, <1>7, Determines DEF c, y

\* The Siemens drive.
LEMMA SiemensDetermined ==
  ASSUME NEW b, NEW x, SameInputs("siemens", b, x)
  PROVE  Determined("siemens", b, x)
<1> DEFINE c == DerivedBank("siemens", b)
           y == DerivedBank("siemens", x)
<1>1. /\ Table["siemens"] = SiemensDrive /\ SiemensDrive.behavior = SiemensSINAMICS
      /\ DerivedRegisters["siemens"] = (40110..40119) \union {40324, 40400, 40408, 40409}
  BY TableEntries, DerivedPlaces DEF SiemensDrive, Entry
<1>2. c = SyncSiemensSINAMICS(b, SiemensSINAMICS) /\ y = SyncSiemensSINAMICS(x, SiemensSINAMICS)
  BY <1>1, SiemensMap DEF DerivedBank, Sync
<1>3. HasShapeOf(b, SiemensDrive) /\ HasShapeOf(x, SiemensDrive)
  BY <1>1 DEF SameInputs
<1>4. \A a \in 40100..40109 : Read(b, a) = Read(x, a)
  BY <1>1 DEF SameInputs, Alike
<1> HIDE DEF c, y
<1>5. /\ Alike(c, b, Nat \ DerivedRegisters["siemens"])
      /\ Alike(y, x, Nat \ DerivedRegisters["siemens"])
  BY <1>1, <1>2, <1>3, SiemensReports
<1>6. \A a \in 40100..40109 : Read(c, a) = Read(y, a)
  BY <1>2, <1>3, <1>4, SiemensReports
<1>7. Alike(c, y, DerivedRegisters["siemens"])
  <2>1. \A i \in 3..10 : Read(c, 40109 + i) = Read(y, 40109 + i)
    <3>1. \A i \in 3..10 : 40099 + i \in 40100..40109
      OBVIOUS
    <3>2. QED
      BY <1>2, <1>3, <1>6, <3>1, SiemensReports
  <2>2. \A a \in {40110, 40111, 40324, 40400, 40408, 40409} : Read(c, a) = Read(y, a)
    BY <1>2, <1>3, <1>6, SiemensReports
  <2>3. ASSUME NEW a \in DerivedRegisters["siemens"] PROVE Read(c, a) = Read(y, a)
    <3>1. a \in {40110, 40111, 40324, 40400, 40408, 40409} \/ (a - 40109 \in 3..10 /\ 40109 + (a - 40109) = a)
      BY <1>1
    <3>2. QED
      BY <2>1, <2>2, <3>1
  <2>4. QED
    BY <2>3 DEF Alike
<1>8. QED
  BY <1>5, <1>7, Determines DEF c, y

\* Every drive model derives its reports from the other registers alone, and leaves those
\* as they are: two banks that differ in the reports only, because the operator forced one
\* or a client wrote one, are the same bank after the next holding write.  This is what
\* RegisterBank and DataStore take the drive model for (their constant Derive, for
\* syncDerivedStateLocked, datastore.go:142-455).
THEOREM Derivation ==
  \A d \in DOMAIN Table : \A b, x : SameInputs(d, b, x) => Determined(d, b, x)
BY TableEntries, MS300Determined, ABBDetermined, DanfossDetermined, DanfossDefaultDetermined,
   InvertekDetermined, SchneiderDetermined, SiemensDetermined

-----------------------------------------------------------------------------
(* What is written.                                                        *)

\* What a block holds after some of its registers were written.
LEMMA Stored ==
  ASSUME NEW block \in Blocks(Word), NEW a \in Nat, NEW new \in Seq(Word),
         InRange(block, a, Len(new)), NEW after, after = Store(block, a, new)
  PROVE  /\ after \in Blocks(Word)
         /\ after.start = block.start /\ Len(after.values) = Len(block.values)
         /\ \A x \in Nat : InRange(block, x, 1) =>
              RegisterValueOrZero(after, x) =
                IF x \in a..(a + Len(new) - 1) THEN new[x - a + 1]
                ELSE RegisterValueOrZero(block, x)
<1> DEFINE first == a - block.start + 1
           last == a - block.start + Len(new)
           vals == [i \in 1..Len(block.values) |->
                      IF i \in first..last THEN new[i - first + 1] ELSE block.values[i]]
<1>1. /\ block.start \in Nat /\ Len(block.values) \in Nat
      /\ block.values \in [1..Len(block.values) -> Word]
  BY BlockShape
<1>2. /\ after = [start |-> block.start, values |-> vals]
  BY DEF Store
<1>3. Len(new) \in Nat /\ new \in [1..Len(new) -> Word]
  OBVIOUS
<1>4. vals \in [1..Len(block.values) -> Word]
  <2>1. ASSUME NEW i \in 1..Len(block.values), i \in first..last
        PROVE  new[i - first + 1] \in Word
    <3>1. i - first + 1 \in 1..Len(new)
      BY <1>1, <1>3, <2>1
    <3>2. QED
      BY <1>3, <3>1
  <2>2. QED
    BY <1>1, <2>1
<1>5. ASSUME NEW x \in Nat, InRange(block, x, 1)
      PROVE  vals[x - block.start + 1] =
                IF x \in a..(a + Len(new) - 1) THEN new[x - a + 1]
                ELSE RegisterValueOrZero(block, x)
  <2> DEFINE i == x - block.start + 1
  <2>1. /\ i \in 1..Len(block.values)
        /\ RegisterValueOrZero(block, x) = block.values[i]
    BY <1>5, RegisterValue
  <2>2. /\ i \in first..last <=> x \in a..(a + Len(new) - 1)
        /\ i - first + 1 = x - a + 1
    <3>1. block.start \in Int /\ Len(new) \in Int /\ x \in Int /\ a \in Int
      BY <1>1, <1>3
    <3> DEFINE k == Len(new)
               t == block.start
    <3>2. k \in Int /\ t \in Int
      BY <3>1
    <3> HIDE DEF k, t
    <3>3. /\ x - t + 1 \in (a - t + 1)..(a - t + k) <=> x \in a..(a + k - 1)
          /\ (x - t + 1) - (a - t + 1) + 1 = x - a + 1
      BY <3>1, <3>2
    <3>4. QED
      BY <3>3 DEF k, t
  <2> HIDE DEF i
  <2>3. vals[i] = IF i \in first..last THEN new[i - first + 1] ELSE block.values[i]
    BY <2>1
  <2> HIDE DEF vals, first, last
  <2>4. vals[i] = IF x \in a..(a + Len(new) - 1) THEN new[x - a + 1]
                  ELSE RegisterValueOrZero(block, x)
    BY <2>1, <2>2, <2>3
  <2>5. QED
    BY <2>4 DEF i
<1> HIDE DEF vals
<1>6. /\ after \in Blocks(Word)
      /\ after.start = block.start /\ Len(after.values) = Len(block.values)
      /\ \A x \in Nat : InRange(block, x, 1) =>
            RegisterValueOrZero(after, x) = vals[x - block.start + 1]
  BY <1>2, <1>4, Revalued
<1>7. QED
  BY <1>5, <1>6

\* Writing holding registers that the bank has.
LEMMA HoldingStored ==
  ASSUME NEW b \in Banks, NEW a \in Nat, NEW new \in Seq(Word),
         InRange(b.holding, a, Len(new)),
         NEW c, c = [b EXCEPT !.holding = Store(@, a, new)]
  PROVE  /\ c \in Banks /\ SameShape(c, b)
         /\ \A x \in Nat : InRange(b.holding, x, 1) =>
              Read(c, x) = IF x \in a..(a + Len(new) - 1) THEN new[x - a + 1] ELSE Read(b, x)
<1>1. /\ b.holding \in Blocks(Word) /\ b.input \in Blocks(Word)
      /\ b = [holding |-> b.holding, input |-> b.input]
  BY DEF Banks
<1> DEFINE after == Store(b.holding, a, new)
<1>2. c = [holding |-> after, input |-> b.input]
  <2>1. c = [b EXCEPT !.holding = after]
    OBVIOUS
  <2> HIDE DEF after
  <2>2. QED
    BY <1>1, <2>1
<1>3. /\ after \in Blocks(Word)
      /\ after.start = b.holding.start /\ Len(after.values) = Len(b.holding.values)
      /\ \A x \in Nat : InRange(b.holding, x, 1) =>
            RegisterValueOrZero(after, x) =
               IF x \in a..(a + Len(new) - 1) THEN new[x - a + 1]
               ELSE RegisterValueOrZero(b.holding, x)
  BY <1>1, Stored
<1> HIDE DEF after
<1>4. c \in Banks /\ SameShape(c, b) /\ c.holding = after
  BY <1>1, <1>2, <1>3 DEF Banks, SameShape
<1>5. ASSUME NEW x \in Nat, InRange(b.holding, x, 1)
      PROVE  Read(c, x) = IF x \in a..(a + Len(new) - 1) THEN new[x - a + 1] ELSE Read(b, x)
  <2>1. InRange(c.holding, x, 1)
    BY <1>4, <1>5, ShapeRanges
  <2>2. Read(c, x) = RegisterValueOrZero(after, x)
    BY <1>4, <2>1, ReadCases
  <2>3. Read(b, x) = RegisterValueOrZero(b.holding, x)
    BY <1>5, ReadCases
  <2>4. QED
    BY <1>3, <1>5, <2>2, <2>3
<1>6. QED
  BY <1>4, <1>5

\* Setting an input register changes what is read there only, and nothing at all where
\* a holding register has the same address.
LEMMA InputStored ==
  ASSUME NEW b \in Banks, NEW a \in Nat, NEW v \in Word, InRange(b.input, a, 1),
         NEW c, c = [b EXCEPT !.input = Store(@, a, <<v>>)]
  PROVE  /\ c \in Banks /\ SameShape(c, b)
         /\ \A x \in Nat : x # a \/ InRange(b.holding, x, 1) => Read(c, x) = Read(b, x)
<1>1. /\ b.holding \in Blocks(Word) /\ b.input \in Blocks(Word)
      /\ b = [holding |-> b.holding, input |-> b.input]
  BY DEF Banks
<1> DEFINE new == <<v>>
           after == Store(b.input, a, new)
<1>2. c = [holding |-> b.holding, input |-> after]
  <2>1. c = [b EXCEPT !.input = after]
    OBVIOUS
  <2> HIDE DEF after
  <2>2. QED
    BY <1>1, <2>1
<1>3. new \in Seq(Word)
  OBVIOUS
<1>4. Len(new) = 1
  OBVIOUS
<1> HIDE DEF new
<1>5. InRange(b.input, a, Len(new))
  BY <1>4
<1>6. /\ after \in Blocks(Word)
      /\ after.start = b.input.start /\ Len(after.values) = Len(b.input.values)
      /\ \A x \in Nat : InRange(b.input, x, 1) =>
            RegisterValueOrZero(after, x) =
               IF x \in a..(a + Len(new) - 1) THEN new[x - a + 1]
               ELSE RegisterValueOrZero(b.input, x)
  BY <1>1, <1>3, <1>5, Stored
<1> HIDE DEF after
<1>7. c \in Banks /\ SameShape(c, b) /\ c.input = after /\ c.holding = b.holding
  BY <1>1, <1>2, <1>6 DEF Banks, SameShape
<1>8. ASSUME NEW x \in Nat, x # a \/ InRange(b.holding, x, 1)
      PROVE  Read(c, x) = Read(b, x)
  <2>1. CASE InRange(b.holding, x, 1)
    BY <1>7, <2>1 DEF Read
  <2>2. CASE ~InRange(b.holding, x, 1) /\ InRange(b.input, x, 1)
    <3>1. x \notin a..(a + Len(new) - 1)
      BY <1>4, <1>8, <2>2
    <3>2. QED
      BY <1>6, <1>7, <2>2, <3>1 DEF Read
  <2>3. CASE ~InRange(b.holding, x, 1) /\ ~InRange(b.input, x, 1)
    <3>1. ~HasRegister(b, x) /\ ~HasRegister(c, x)
      BY <1>7, <2>3, ShapeRanges DEF HasRegister
    <3>2. QED
      BY <1>7, <3>1, ReadCases
  <2>4. QED
    BY <2>1, <2>2, <2>3
<1>9. QED
  BY <1>7, <1>8

-----------------------------------------------------------------------------
(* The invariant.                                                          *)

\* The command registers hold what was last written to them.
Remembered ==
    \A key \in CommandKeys(drive) : Shows(drive, bank, key) = written[AddressOf(drive, key)]

\* The inductive invariant.  The bank keeps the shape that the configuration gave it,
\* so that the addresses of the table stay registers of it; what the reports tell is
\* true of those registers that the operator has not set since the last write, and a
\* command is true even then, because he sets input registers only.
DriveInv ==
    /\ TypeOK
    /\ HasShapeOf(bank, Table[drive])
    /\ Remembered
    /\ EchoesTold(drive, bank, overridden)
    /\ StillTold(drive, bank, overridden)
    /\ NumbersTold(drive, bank, overridden)
    /\ drive # "danfossDefault" => StatusTold(drive, bank, overridden)

\* The addresses that the history remembers.
LEMMA CommandAddresses == Commands = {AddressOf(drive, key) : key \in CommandKeys(drive)}
BY DEF Commands, At, This, AddressOf, CommandKeys

\* The reports are derived once when the store is made (NewDataStore).
LEMMA InitDriveInv == Init => DriveInv
<1> SUFFICES ASSUME Init PROVE DriveInv
  OBVIOUS
<1> DEFINE b == [holding |-> Table[drive].holding, input |-> Table[drive].input]
<1>1. /\ drive \in Drives /\ drive \in DOMAIN Table
      /\ bank = DerivedBank(drive, b)
      /\ written = [a \in Commands |-> RegisterValueOrZero(Table[drive].holding, a)]
      /\ overridden = {}
  BY DriveAssumption DEF Init, This, DerivedBank
<1>2. Layout(drive) /\ (HasShapeOf(b, Table[drive]) => Tells(drive, b, DerivedBank(drive, b)))
  BY <1>1, EveryDrive
<1>3. b.holding = Table[drive].holding /\ b.input = Table[drive].input
  OBVIOUS
<1>4. b \in Banks
  BY <1>2 DEF Layout, Banks
<1> HIDE DEF b
<1>5. HasShapeOf(b, Table[drive])
  BY <1>3, <1>4 DEF HasShapeOf
<1>6. Tells(drive, b, bank)
  BY <1>1, <1>2, <1>5
<1>7. ASSUME NEW key \in CommandKeys(drive)
      PROVE  /\ written[AddressOf(drive, key)] \in Word
             /\ Shows(drive, bank, key) = written[AddressOf(drive, key)]
  <2>1. /\ AddressOf(drive, key) \in Nat
        /\ InRange(b.holding, AddressOf(drive, key), 1)
    BY <1>2, <1>3 DEF Layout, Located
  <2>2. /\ Shows(drive, b, key) = RegisterValueOrZero(b.holding, AddressOf(drive, key))
        /\ Shows(drive, b, key) \in Word
    BY <1>4, <2>1, ReadCases DEF Shows
  <2>3. written[AddressOf(drive, key)] = RegisterValueOrZero(b.holding, AddressOf(drive, key))
    BY <1>1, <1>3, CommandAddresses
  <2>4. QED
    BY <1>6, <2>2, <2>3 DEF Tells
<1>8. TypeOK
  <2>1. bank \in Banks
    BY <1>6 DEF Tells, HasShapeOf
  <2>2. \A a \in Commands : written[a] \in Word
    BY <1>7, CommandAddresses
  <2>3. QED
    BY <1>1, <2>1, <2>2 DEF TypeOK, Banks
<1>9. QED
  BY <1>1, <1>6, <1>7, <1>8 DEF DriveInv, Tells, Remembered

\* A write of values from CommandValues at any address.
LEMMA WriteKeepsInv ==
  ASSUME DriveInv, NEW a \in Nat, NEW new \in Seq(CommandValues), WriteRegisters(a, new)
  PROVE  DriveInv'
<1> DEFINE b == [bank EXCEPT !.holding = Store(@, a, new)]
<1>1. /\ drive \in DOMAIN Table /\ drive \in Drives /\ bank \in Banks
      /\ HasShapeOf(bank, Table[drive])
      /\ written \in [Commands -> Word] /\ Remembered
  BY DriveAssumption DEF DriveInv, TypeOK, Banks
<1>2. /\ InRange(bank.holding, a, Len(new))
      /\ bank' = DerivedBank(drive, b)
      /\ written' = [x \in DOMAIN written |->
            IF x \in a..(a + Len(new) - 1) THEN new[x - a + 1] ELSE written[x]]
      /\ overridden' = {} /\ drive' = drive
  BY DEF WriteRegisters, DerivedBank, This
<1>3. new \in Seq(Word) /\ Len(new) \in Nat
  BY DriveAssumption
<1> HIDE DEF b
<1>4. /\ b \in Banks /\ SameShape(b, bank)
      /\ \A x \in Nat : InRange(bank.holding, x, 1) =>
            Read(b, x) = IF x \in a..(a + Len(new) - 1) THEN new[x - a + 1] ELSE Read(bank, x)
  BY <1>1, <1>2, <1>3, HoldingStored DEF b
<1>5. HasShapeOf(b, Table[drive])
  BY <1>1, <1>4 DEF HasShapeOf, SameShape
<1>6. Layout(drive) /\ Tells(drive, b, bank')
  BY <1>1, <1>2, <1>5, EveryDrive
<1>7. Commands' = Commands /\ CommandKeys(drive') = CommandKeys(drive)
  BY <1>2 DEF Commands, At, This
<1>8. \A x \in a..(a + Len(new) - 1) : new[x - a + 1] \in Word
  <2> TAKE x \in a..(a + Len(new) - 1)
  <2>1. x - a + 1 \in 1..Len(new)
    BY <1>3
  <2>2. QED
    BY <1>3, <2>1
<1>9. written' \in [Commands -> Word]
  <2>1. DOMAIN written = Commands /\ \A x \in Commands : written[x] \in Word
    BY <1>1
  <2>2. QED
    BY <1>2, <1>8, <2>1
<1>10. TypeOK'
  <2>1. bank' \in Banks
    BY <1>6 DEF Tells, HasShapeOf
  <2>2. QED
    BY <1>1, <1>2, <1>7, <1>9, <2>1 DEF TypeOK, Banks
<1>11. Remembered'
  <2> SUFFICES ASSUME NEW key \in CommandKeys(drive)
               PROVE  Shows(drive, bank', key) = written'[AddressOf(drive, key)]
    BY <1>2 DEF Remembered
  <2> DEFINE x == AddressOf(drive, key)
  <2>1. x \in Nat /\ InRange(Table[drive].holding, x, 1)
    BY <1>6 DEF Layout, Located
  <2>2. InRange(bank.holding, x, 1)
    BY <1>1, <2>1 DEF HasShapeOf, InRange
  <2>3. x \in DOMAIN written
    BY <1>1, CommandAddresses
  <2>4. Shows(drive, bank', key) = Read(b, x)
    BY <1>6 DEF Tells, Shows
  <2>5. Read(bank, x) = written[x]
    BY <1>1 DEF Remembered, Shows
  <2> HIDE DEF x
  <2>6. Read(b, x) = written'[x]
    BY <1>2, <1>4, <2>1, <2>2, <2>3, <2>5
  <2>7. QED
    BY <2>4, <2>6 DEF x
<1>12. QED
  BY <1>2, <1>6, <1>10, <1>11 DEF DriveInv, Tells

\* Setting any input register that the drive reports anything in: what the other registers
\* tell stays true, and the commands are out of the operator's reach.
LEMMA OverrideKeepsInv ==
  ASSUME DriveInv, NEW key \in DOMAIN This.behavior.map,
         SetInputRegister(At(key), OverrideValue)
  PROVE  DriveInv'
<1> DEFINE a == AddressOf(drive, key)
<1>1. /\ drive \in DOMAIN Table /\ drive \in Drives /\ bank \in Banks
      /\ HasShapeOf(bank, Table[drive]) /\ overridden \in SUBSET Word
      /\ written \in [Commands -> Word] /\ Remembered
  BY DriveAssumption DEF DriveInv, TypeOK, Banks
<1>2. /\ InRange(bank.input, a, 1)
      /\ bank' = [bank EXCEPT !.input = Store(@, a, <<OverrideValue>>)]
      /\ overridden' = overridden \union {a} /\ drive' = drive /\ written' = written
  BY DEF SetInputRegister, At, This, AddressOf
<1>3. Layout(drive)
  BY <1>1, EveryDrive
<1>4. a \in Word /\ a \in Nat /\ OverrideValue \in Word
  BY <1>1, DriveAssumption, MappedKeys, WordShape DEF This, AddressOf
<1> HIDE DEF a
<1>5. /\ bank' \in Banks /\ SameShape(bank', bank)
      /\ \A x \in Nat : x # a \/ InRange(bank.holding, x, 1) => Read(bank', x) = Read(bank, x)
  BY <1>1, <1>2, <1>4, InputStored
<1>6. \A k \in CommandKeys(drive) : Shows(drive, bank', k) = Shows(drive, bank, k)
  <2> TAKE k \in CommandKeys(drive)
  <2>1. /\ AddressOf(drive, k) \in Nat
        /\ InRange(Table[drive].holding, AddressOf(drive, k), 1)
    BY <1>3 DEF Layout, Located
  <2>2. InRange(bank.holding, AddressOf(drive, k), 1)
    BY <1>1, <2>1 DEF HasShapeOf, InRange
  <2>3. QED
    BY <1>5, <2>1, <2>2 DEF Shows
<1>7. \A keys : Untouched(drive, keys, overridden') =>
         /\ Untouched(drive, keys, overridden)
         /\ \A k \in keys : Located(drive, k) => Shows(drive, bank', k) = Shows(drive, bank, k)
  BY <1>2, <1>5 DEF Untouched, Located, Shows
<1>8. HasShapeOf(bank', Table[drive])
  BY <1>1, <1>5 DEF HasShapeOf, SameShape
<1>9. Commands' = Commands
  BY <1>2 DEF Commands, At, This
<1>10. TypeOK'
  BY <1>1, <1>2, <1>4, <1>5, <1>9 DEF TypeOK, Banks
<1>11. Remembered'
  BY <1>1, <1>2, <1>6 DEF Remembered
<1>12. Runs(drive, bank') = Runs(drive, bank) /\ Reverses(drive, bank') = Reverses(drive, bank)
  <2>1. Table[drive].command \in CommandKeys(drive)
    BY DEF CommandKeys
  <2>2. QED
    BY <1>6, <2>1 DEF Runs, Reverses
<1>13. EchoesTold(drive, bank', overridden')
  <2> SUFFICES ASSUME NEW e \in Table[drive].echoes,
                      Untouched(drive, {e.source, e.report}, overridden')
               PROVE  Shows(drive, bank', e.report) = Shows(drive, bank', e.source)
    BY DEF EchoesTold
  <2>1. Located(drive, e.source) /\ Located(drive, e.report)
    BY <1>3 DEF Layout
  <2>2. /\ Untouched(drive, {e.source, e.report}, overridden)
        /\ Shows(drive, bank', e.source) = Shows(drive, bank, e.source)
        /\ Shows(drive, bank', e.report) = Shows(drive, bank, e.report)
    BY <1>7, <2>1
  <2>3. QED
    BY <2>2 DEF DriveInv, EchoesTold
<1>14. StillTold(drive, bank', overridden')
  <2> SUFFICES ASSUME ~Runs(drive, bank), NEW k \in Table[drive].motion,
                      Untouched(drive, {k}, overridden')
               PROVE  Shows(drive, bank', k) = 0
    BY <1>12 DEF StillTold
  <2>1. Located(drive, k)
    BY <1>3 DEF Layout
  <2>2. Untouched(drive, {k}, overridden) /\ Shows(drive, bank', k) = Shows(drive, bank, k)
    BY <1>7, <2>1
  <2>3. QED
    BY <2>2 DEF DriveInv, StillTold
<1>15. drive # "danfossDefault" => StatusTold(drive, bank', overridden')
  <2> SUFFICES ASSUME drive # "danfossDefault",
                      Untouched(drive, {Table[drive].status}, overridden')
               PROVE  Shows(drive, bank', Table[drive].status) \in
                         IF Runs(drive, bank) THEN Table[drive].running
                                              ELSE Table[drive].stopped
    BY <1>12 DEF StatusTold
  <2>1. Located(drive, Table[drive].status)
    BY <1>3 DEF Layout
  <2>2. /\ Untouched(drive, {Table[drive].status}, overridden)
        /\ Shows(drive, bank', Table[drive].status) = Shows(drive, bank, Table[drive].status)
    BY <1>7, <2>1
  <2>3. QED
    BY <2>2 DEF DriveInv, StatusTold
<1>16. NumbersTold(drive, bank', overridden')
  <2> DEFINE Kept(keys) == \A k \in keys : Shows(drive, bank', k) = Shows(drive, bank, k)
  <2>1. ASSUME NEW keys, \A k \in keys : Located(drive, k), Untouched(drive, keys, overridden')
        PROVE  Untouched(drive, keys, overridden) /\ Kept(keys)
    BY <1>7, <2>1
  <2>2. NumbersTold(drive, bank, overridden)
    BY DEF DriveInv
  <2>3. ASSUME drive = "ms300", Untouched(drive, {"signed_torque", "output_torque"}, overridden')
        PROVE  Signed(Shows(drive, bank', "signed_torque")) =
                 IF Runs(drive, bank') /\ Reverses(drive, bank')
                 THEN -Shows(drive, bank', "output_torque")
                 ELSE Shows(drive, bank', "output_torque")
    <3>1. \A k \in {"signed_torque", "output_torque"} : Located(drive, k)
      BY <1>3, <2>3 DEF Layout
    <3>2. /\ Untouched(drive, {"signed_torque", "output_torque"}, overridden)
          /\ Shows(drive, bank', "signed_torque") = Shows(drive, bank, "signed_torque")
          /\ Shows(drive, bank', "output_torque") = Shows(drive, bank, "output_torque")
      BY <2>1, <2>3, <3>1
    <3>3. QED
      BY <1>12, <2>2, <2>3, <3>2 DEF NumbersTold
  <2>4. ASSUME drive = "ms300",
               Untouched(drive, {"power_output", "output_voltage", "output_current"}, overridden')
        PROVE  Shows(drive, bank', "power_output") =
                 (Shows(drive, bank', "output_voltage") *
                    Shows(drive, bank', "output_current")) \div 1000
    <3>1. \A k \in {"power_output", "output_voltage", "output_current"} : Located(drive, k)
      BY <1>3, <2>4 DEF Layout
    <3>2. /\ Untouched(drive, {"power_output", "output_voltage", "output_current"}, overridden)
          /\ Shows(drive, bank', "power_output") = Shows(drive, bank, "power_output")
          /\ Shows(drive, bank', "output_voltage") = Shows(drive, bank, "output_voltage")
          /\ Shows(drive, bank', "output_current") = Shows(drive, bank, "output_current")
      BY <2>1, <2>4, <3>1
    <3>3. QED
      BY <2>2, <2>4, <3>2 DEF NumbersTold
  <2>5. ASSUME drive = "schneider", Untouched(drive, {"opr", "uop", "lcr"}, overridden')
        PROVE  Shows(drive, bank', "opr") =
                 (Shows(drive, bank', "uop") * Shows(drive, bank', "lcr")) \div 1000
               <=> ~Runs(drive, bank') \/ Shows(drive, bank', "lfr") <= 18103
    <3>1. \A k \in {"opr", "uop", "lcr"} : Located(drive, k)
      BY <1>3, <2>5 DEF Layout
    <3>2. /\ Untouched(drive, {"opr", "uop", "lcr"}, overridden)
          /\ Shows(drive, bank', "opr") = Shows(drive, bank, "opr")
          /\ Shows(drive, bank', "uop") = Shows(drive, bank, "uop")
          /\ Shows(drive, bank', "lcr") = Shows(drive, bank, "lcr")
      BY <2>1, <2>5, <3>1
    <3>3. Shows(drive, bank', "lfr") = Shows(drive, bank, "lfr")
      BY <1>3, <1>6, <2>5 DEF Layout
    <3>4. QED
      BY <1>12, <2>2, <2>5, <3>2, <3>3 DEF NumbersTold
  <2>6. QED
    BY <2>3, <2>4, <2>5 DEF NumbersTold
<1>17. QED
  BY <1>2, <1>8, <1>10, <1>11, <1>13, <1>14, <1>15, <1>16 DEF DriveInv

\* Every step keeps the invariant.
LEMMA NextDriveInv == DriveInv /\ [Next]_vars => DriveInv'
<1> SUFFICES ASSUME DriveInv, [Next]_vars PROVE DriveInv'
  OBVIOUS
<1>1. drive \in DOMAIN Table
  BY DriveAssumption DEF DriveInv, TypeOK
<1>2. Layout(drive)
  BY <1>1, EveryDrive
<1>3. /\ At(This.status) \in Nat /\ At(This.command) \in Nat /\ Commands \subseteq Nat
  <2>1. At(This.status) = AddressOf(drive, Table[drive].status)
        /\ At(This.command) = AddressOf(drive, Table[drive].command)
    BY DEF At, This, AddressOf
  <2>2. Table[drive].command \in CommandKeys(drive)
    BY DEF CommandKeys
  <2>3. \A key \in CommandKeys(drive) : AddressOf(drive, key) \in Nat
    BY <1>2 DEF Layout, Located
  <2>4. Commands \subseteq Nat
    BY <2>3, CommandAddresses
  <2>5. AddressOf(drive, Table[drive].status) \in Nat
    BY <1>2 DEF Layout, Located
  <2>6. QED
    BY <2>1, <2>2, <2>3, <2>4, <2>5
<1>4. CASE \E a \in Commands \union {At(This.status)}, v \in CommandValues :
             WriteRegisters(a, <<v>>)
  <2>1. PICK a \in Nat, v \in CommandValues : WriteRegisters(a, <<v>>)
    BY <1>3, <1>4
  <2>2. <<v>> \in Seq(CommandValues)
    OBVIOUS
  <2>3. QED
    BY <2>1, <2>2, WriteKeepsInv
<1>5. CASE \E v, w \in CommandValues : WriteRegisters(At(This.command), <<v, w>>)
  <2>1. PICK v \in CommandValues, w \in CommandValues :
           WriteRegisters(At(This.command), <<v, w>>)
    BY <1>5
  <2>2. <<v, w>> \in Seq(CommandValues)
    OBVIOUS
  <2>3. QED
    BY <1>3, <2>1, <2>2, WriteKeepsInv
<1>6. CASE /\ Cardinality(overridden) < MaxOverrides
           /\ \E key \in DOMAIN This.behavior.map : SetInputRegister(At(key), OverrideValue)
  BY <1>6, OverrideKeepsInv
<1>7. CASE UNCHANGED vars
  <2>1. drive' = drive /\ bank' = bank /\ written' = written /\ overridden' = overridden
    BY <1>7 DEF vars
  <2>2. Commands' = Commands
    BY <2>1 DEF Commands, At, This
  <2>3. QED
    BY <2>1, <2>2 DEF DriveInv, TypeOK, Remembered
<1>8. QED
  BY <1>4, <1>5, <1>6, <1>7 DEF Next

\* The invariant holds in every reachable state.
THEOREM Invariance == Spec => []DriveInv
<1>1. Init => DriveInv
  BY InitDriveInv
<1>2. DriveInv /\ [Next]_vars => DriveInv'
  BY NextDriveInv
<1>3. QED
  BY <1>1, <1>2, PTL DEF Spec

\* The properties read the bank as the lemmas do.
LEMMA ValueIsShown == \A key : Value(key) = Shows(drive, bank, key)
BY DEF Value, At, This, Shows, AddressOf, Read

\* They mean the same by running, by the direction and by what the operator has set.
LEMMA RunningShown == (IsRunning <=> Runs(drive, bank)) /\ (IsReverse <=> Reverses(drive, bank))
BY ValueIsShown DEF IsRunning, Runs, IsReverse, Reverses, This

LEMMA DerivedUntouched == \A keys : Derived(keys) <=> Untouched(drive, keys, overridden)
BY DEF Derived, Untouched, At, This, AddressOf

\* The blocks stay blocks of words, for every set of drives and of values written: every
\* value the models compute has been converted to uint16 (datastore.go:142-431).
THEOREM Typing == Spec => []TypeOK
<1>1. DriveInv => TypeOK
  BY DEF DriveInv
<1>2. QED
  BY <1>1, Invariance, PTL

\* No drive model changes a command register when it derives its reports, and the operator
\* cannot: each holds the value last written to it (datastore.go:136-431).
THEOREM KeptCommands == Spec => []CommandsKept
<1>1. DriveInv => CommandsKept
  <2> SUFFICES ASSUME DriveInv, NEW a \in DOMAIN written
               PROVE  RegisterValueOrZero(bank.holding, a) = written[a]
    BY DEF CommandsKept
  <2>1. /\ drive \in DOMAIN Table /\ bank \in Banks /\ HasShapeOf(bank, Table[drive])
        /\ DOMAIN written = Commands /\ Remembered
    BY DriveAssumption DEF DriveInv, TypeOK, Banks
  <2>2. PICK key \in CommandKeys(drive) : a = AddressOf(drive, key)
    BY <2>1, CommandAddresses
  <2>3. Layout(drive)
    BY <2>1, EveryDrive
  <2>4. a \in Nat /\ InRange(Table[drive].holding, a, 1)
    BY <2>2, <2>3 DEF Layout, Located
  <2>5. InRange(bank.holding, a, 1)
    BY <2>1, <2>4 DEF HasShapeOf, InRange
  <2>6. Read(bank, a) = written[a]
    BY <2>1, <2>2 DEF Remembered, Shows
  <2>7. QED
    BY <2>1, <2>4, <2>5, <2>6, ReadCases
<1>2. QED
  BY <1>1, Invariance, PTL

\* A report that repeats a command or another report holds its value, whatever was written
\* and in whatever order, and whatever else the operator has set: only setting one of the
\* two parts them, until the next write (datastore.go:136-140, 225-277, 294-407).
THEOREM AgreeingEchoes == Spec => []EchoesAgree
<1>1. DriveInv => EchoesAgree
  BY ValueIsShown, DerivedUntouched DEF DriveInv, EchoesAgree, EchoesTold, This
<1>2. QED
  BY <1>1, Invariance, PTL

\* A drive that is commanded to stop reports no motion, no current and no power, but for
\* the registers that the operator has set since the last write, any number of them
\* (datastore.go:136-140, 186-277, 343-372).
THEOREM Stillness == Spec => []StoppedIsStill
<1>1. DriveInv => StoppedIsStill
  BY ValueIsShown, RunningShown, DerivedUntouched
     DEF DriveInv, StoppedIsStill, StillTold, This
<1>2. QED
  BY <1>1, Invariance, PTL

\* After a write the status word says whether the drive was commanded to run, for every
\* drive but the Danfoss with the map of the defaults: there word 3 of the process data
\* is echoed over it (config.go, DefaultDanfossFC302Behavior).
THEOREM TruthfulStatus == Spec => [](drive # "danfossDefault" => StatusFollowsCommand)
<1>1. DriveInv => (drive # "danfossDefault" => StatusFollowsCommand)
  BY ValueIsShown, RunningShown, DerivedUntouched
     DEF DriveInv, StatusFollowsCommand, StatusTold, This
<1>2. QED
  BY <1>1, Invariance, PTL

\* For every value that a client can write: the signed torque of the MS300 is its torque
\* in the commanded direction and its output power that of its voltage and current, so
\* neither ever overflows its register; the output power of the ATV320 is right exactly
\* up to the reference 18103 and has lost its upper bits from 18104 on
\* (datastore.go:207-221, 371).
THEOREM FittingNumbers == Spec => []NumbersFit
<1>1. DriveInv => NumbersFit
  <2> SUFFICES ASSUME DriveInv PROVE NumbersFit
    OBVIOUS
  <2>1. NumbersTold(drive, bank, overridden)
    BY DEF DriveInv
  <2>2. QED
    BY <2>1, ValueIsShown, RunningShown, DerivedUntouched DEF NumbersTold, NumbersFit
<1>2. QED
  BY <1>1, Invariance, PTL
=============================================================================
