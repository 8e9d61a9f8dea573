------------------------------- MODULE Blocks -------------------------------
(***************************************************************************)
(* A block of the data model: consecutive Modbus addresses from a start    *)
(* address on, with a value each (BoolBlock and RegisterBlock of           *)
(* internal/modbus/config.go; the helpers are at the end of datastore.go). *)
(* Addresses and quantities are uint16, but the code computes in int from  *)
(* the offset on, so a block may reach beyond address 65535.               *)
(***************************************************************************)
EXTENDS Integers, Sequences

MaxWord == 65535
Word == 0..MaxWord

Blocks(Values) == [start : Word, values : Seq(Values)]

\* Variant: the last register of the block is taken for the first one outside.
InRangeShort(block, address, quantity) ==
    /\ address >= block.start
    /\ (address - block.start) + quantity < Len(block.values)

\* blockRange: does the request lie within the block?
InRange(block, address, quantity) ==
    /\ address >= block.start
    /\ (address - block.start) + quantity <= Len(block.values)

\* The values of a request that is in range.
Fetch(block, address, quantity) ==
    SubSeq(block.values, address - block.start + 1, address - block.start + quantity)

\* Variant: the rows are numbered from 1.
RowsFromOne(block) ==
    [i \in 1..Len(block.values) |->
        [address |-> (block.start + i) % (MaxWord + 1), value |-> block.values[i]]]

\* The rows of the register map.  Here the addresses are computed in uint16.
Rows(block) ==
    [i \in 1..Len(block.values) |->
        [address |-> (block.start + i - 1) % (MaxWord + 1), value |-> block.values[i]]]

\* Variant: the register after the last one is written too.
StoreSpilled(block, address, new) ==
    LET first == address - block.start + 1
        last  == address - block.start + Len(new)
    IN  [start  |-> block.start,
         values |-> [i \in 1..Len(block.values) |->
            IF i \in first..last THEN new[i - first + 1]
            ELSE IF i = last + 1 THEN new[Len(new)] ELSE block.values[i]]]

\* The block after the new values have been copied to a place in range.
Store(block, address, new) ==
    LET first == address - block.start + 1
        last  == address - block.start + Len(new)
    IN  [start  |-> block.start,
         values |-> [i \in 1..Len(block.values) |->
            IF i \in first..last THEN new[i - first + 1] ELSE block.values[i]]]
=============================================================================
