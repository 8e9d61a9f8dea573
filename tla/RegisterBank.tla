---------------------------- MODULE RegisterBank ----------------------------
(***************************************************************************)
(* What the data store promises its callers: calls take effect one at a    *)
(* time.  A write to the holding registers and the reports that follow     *)
(* from it are one step, so nobody sees a command without its reports, and *)
(* a call that reaches outside its block changes nothing.                  *)
(***************************************************************************)
EXTENDS Functions

CONSTANTS
    Callers,        \* the goroutines that use the store
    Holding,        \* places in the holding registers
    Others,         \* coils, discrete inputs and input registers
    Reports,        \* the places that the drive model derives
    Values,         \* what a place holds
    Derive,         \* from the commands' values to the reports' values
    NoAnswer, Refused

Places == Holding \union Others
Commands == Holding \ Reports

VARIABLES
    bank,           \* the value of every place
    answer          \* what the last call of each caller returned

bankVars == <<bank, answer>>

Overlay(data, b) == [p \in Places |-> IF p \in DOMAIN data THEN data[p] ELSE b[p]]

\* The reports that follow from the commands.
Settle(b) == Overlay(Derive[Restrict(b, Commands)], b)

BankInit ==
    /\ bank \in {Settle(b) : b \in [Places -> Values]}
    /\ answer = [t \in Callers |-> NoAnswer]

Return(t, result) == answer' = [answer EXCEPT ![t] = result]

\* A caller forgets what it was answered before.
Ask(t) ==
    /\ Return(t, NoAnswer)
    /\ UNCHANGED bank

Read(t, places) ==
    /\ Return(t, Restrict(bank, places))
    /\ UNCHANGED bank

WriteHolding(t, data) ==
    /\ bank' = Settle(Overlay(data, bank))
    /\ Return(t, NoAnswer)

\* Coils, discrete inputs and input registers derive nothing.
WriteOthers(t, data) ==
    /\ bank' = Overlay(data, bank)
    /\ Return(t, NoAnswer)

Refuse(t) ==
    /\ Return(t, Refused)
    /\ UNCHANGED bank

Data(places) == UNION {[P -> Values] : P \in SUBSET places}

BankNext == \E t \in Callers :
    \/ \E places \in SUBSET Places : Read(t, places)
    \/ \E data \in Data(Holding) : WriteHolding(t, data)
    \/ \E data \in Data(Others) : WriteOthers(t, data)
    \/ Ask(t) \/ Refuse(t)

BankSpec == BankInit /\ [][BankNext]_bankVars
=============================================================================
