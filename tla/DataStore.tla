----------------------------- MODULE DataStore -----------------------------
(***************************************************************************)
(* The locking of modbus.DataStore (internal/modbus/datastore.go).  The    *)
(* connection handlers and the operator call it at the same time; a call   *)
(* takes the RWMutex, checks its range, and reads or writes one register   *)
(* at a time.  A write to the holding registers then derives the reports,  *)
(* one register at a time too, before it unlocks.                          *)
(*                                                                         *)
(* The values are few and Derive stands for the drive model, whose own     *)
(* subject is DriveModels.  A place outside every block stands for an      *)
(* address that blockRange refuses.                                        *)
(*                                                                         *)
(* The RWMutex is that of the Go library: one writer at a time announces   *)
(* itself, which keeps new readers out, enters when the readers inside     *)
(* have left, and lets the readers that waited in when it unlocks.         *)
(***************************************************************************)
EXTENDS Functions

CONSTANTS
    Handlers,       \* the goroutines of the connections
    Operators,      \* the goroutines of the user interface
    Holding,        \* places in the holding registers
    Coils,          \* coils
    Inputs,         \* places in the discrete inputs and the input registers
    Reports,        \* the places that the drive model derives
    Values,         \* what a place holds
    Derive,         \* from the commands' values to the reports' values
    Requests,       \* bound: the sets of places that clients name
    Outside,        \* a place that no block has
    Nobody, NoCall, NoAnswer, Refused

Callers == Handlers \union Operators
Others == Coils \union Inputs
Places == Holding \union Others
Commands == Holding \ Reports

ASSUME StoreAssumption ==
    /\ Reports \subseteq Places
    /\ Derive \in [[Commands -> Values] -> [Reports -> Values]]
    /\ Outside \notin Places
    /\ Nobody \notin Callers
    /\ Holding \intersect Others = {}
    /\ Handlers \intersect Operators = {}

VARIABLES
    mem,            \* the value of every place
    writer,         \* who has announced itself to the RWMutex as the writer
    readers,        \* who reads
    pc,             \* where each caller is, see Steps
    call,           \* what it called
    todo,           \* the places it has not read or written yet
    got,            \* what it has read so far
    answer,         \* what its last call returned
    committed,      \* history: mem when it was last unlocked
    overridden      \* history: reports set by hand since the last derivation

lockVars == <<writer, readers>>
historyVars == <<committed, overridden>>
vars == <<mem, lockVars, pc, call, todo, got, answer, historyVars>>

Steps == {"idle", "lock", "drain", "rlock", "wait", "check", "read", "store", "derive"}

Overlay(data, b) == [p \in Places |-> IF p \in DOMAIN data THEN data[p] ELSE b[p]]

\* The reports that follow from the commands.
Settle(b) == Overlay(Derive[Restrict(b, Commands)], b)

\* The empty function.
Nothing == [p \in {} |-> Nobody]

(***************************************************************************)
(* The calls.  A handler reads and writes as its client asks for: some     *)
(* places of one block, or an address outside.  An operator takes a        *)
(* snapshot of all blocks or sets one place.                               *)
(***************************************************************************)
Call(kind, places, data) == [kind |-> kind, places |-> places, data |-> data]

Read(places) == Call("read", places, Nothing)

Writes(kind, requests) ==
    UNION {{Call(kind, P, data) : data \in [P -> Values]} : P \in requests}

Nowhere == {Outside}
Within(block) == {P \in Requests : P \subseteq block} \union {Nowhere}
Singly(block) == {{p} : p \in block \union Nowhere}

Calls(t) ==
    IF t \in Handlers
    THEN {Read(P) : P \in Within(Holding) \union Within(Coils) \union Within(Inputs)}
         \union Writes("holding", Within(Holding)) \union Writes("others", Within(Coils))
    ELSE {Read(Places)}
         \union Writes("holding", Singly(Holding)) \union Writes("others", Singly(Others))

Init ==
    /\ mem \in {Settle(b) : b \in [Places -> Values]}
    /\ writer = Nobody
    /\ readers = {}
    /\ pc = [t \in Callers |-> "idle"]
    /\ call = [t \in Callers |-> NoCall]
    /\ todo = [t \in Callers |-> {}]
    /\ got = [t \in Callers |-> Nothing]
    /\ answer = [t \in Callers |-> NoAnswer]
    /\ committed = mem
    /\ overridden = {}

Done(t, p) == todo' = [todo EXCEPT ![t] = @ \ {p}]

Return(t, result) ==
    /\ answer' = [answer EXCEPT ![t] = result]
    /\ call' = [call EXCEPT ![t] = NoCall]
    /\ got' = [got EXCEPT ![t] = Nothing]

Goto(t, step) == pc' = [pc EXCEPT ![t] = step]

Invoke(t) ==
    /\ pc[t] = "idle"
    /\ \E c \in Calls(t) :
          /\ call' = [call EXCEPT ![t] = c]
          /\ answer' = [answer EXCEPT ![t] = NoAnswer]
          /\ Goto(t, IF c.kind = "read" THEN "rlock" ELSE "lock")
    /\ UNCHANGED <<mem, lockVars, todo, got, historyVars>>

-----------------------------------------------------------------------------
(* The RWMutex. *)

\* Lock: one writer at a time gets past the inner mutex and announces itself.
Announce(t) ==
    /\ pc[t] = "lock"
    /\ writer = Nobody
    /\ writer' = t
    /\ Goto(t, "drain")
    /\ UNCHANGED <<mem, readers, call, todo, got, answer, historyVars>>

\* It has the lock when the readers that were inside have left.
Enter(t) ==
    /\ pc[t] = "drain"
    /\ readers = {}
    /\ Goto(t, "check")
    /\ UNCHANGED <<mem, lockVars, call, todo, got, answer, historyVars>>

RLock(t) ==
    /\ pc[t] = "rlock"
    /\ IF writer = Nobody
       THEN readers' = readers \union {t} /\ Goto(t, "check")
       ELSE readers' = readers /\ Goto(t, "wait")
    /\ UNCHANGED <<mem, writer, call, todo, got, answer, historyVars>>

RUnlock(t) ==
    /\ readers' = readers \ {t}
    /\ writer' = writer
    /\ Goto(t, "idle")

Waiting == {t \in Callers : pc[t] = "wait"}

\* Variant: a lock of one's own that wakes the next writer only.
UnlockWritersOnly(t) ==
    /\ writer' = Nobody
    /\ readers' = readers
    /\ Goto(t, "idle")

\* Unlock lets the readers that wait in before it lets the next writer go on.
Unlock(t) ==
    /\ writer' = Nobody
    /\ readers' = readers \union Waiting
    /\ pc' = [u \in Callers |-> IF u = t THEN "idle" ELSE IF u \in Waiting THEN "check" ELSE pc[u]]

\* The deferred unlock of either kind.
Leave(t) == IF call[t].kind = "read" THEN RUnlock(t) ELSE Unlock(t)

-----------------------------------------------------------------------------
(* Under the lock. *)

\* blockRange finds the call outside its block.
Refuse(t) ==
    /\ pc[t] = "check"
    /\ ~ call[t].places \subseteq Places
    /\ Return(t, Refused)
    /\ Leave(t)
    /\ UNCHANGED <<mem, todo, historyVars>>

\* Variant: the range is not checked.
BeginUnchecked(t) ==
    /\ pc[t] = "check"
    /\ todo' = [todo EXCEPT ![t] = call[t].places]
    /\ Goto(t, IF call[t].kind = "read" THEN "read" ELSE "store")
    /\ UNCHANGED <<mem, lockVars, call, got, answer, historyVars>>

\* Variant: a read returns a slice of the block, which is copied after the unlock.
BeginAliased(t) ==
    /\ pc[t] = "check"
    /\ call[t].places \subseteq Places
    /\ todo' = [todo EXCEPT ![t] = call[t].places]
    /\ IF call[t].kind = "read"
       THEN Goto(t, "read") /\ readers' = readers \ {t}
       ELSE Goto(t, "store") /\ readers' = readers
    /\ UNCHANGED <<mem, writer, call, got, answer, historyVars>>

Begin(t) ==
    /\ pc[t] = "check"
    /\ call[t].places \subseteq Places
    /\ todo' = [todo EXCEPT ![t] = call[t].places]
    /\ Goto(t, IF call[t].kind = "read" THEN "read" ELSE "store")
    /\ UNCHANGED <<mem, lockVars, call, got, answer, historyVars>>

ReadPlace(t, p) ==
    /\ pc[t] = "read"
    /\ p \in todo[t]
    /\ got' = [got EXCEPT ![t] =
                  [q \in DOMAIN @ \union {p} |-> IF q = p THEN mem[p] ELSE @[q]]]
    /\ Done(t, p)
    /\ UNCHANGED <<mem, lockVars, pc, call, answer, historyVars>>

ReturnValues(t) ==
    /\ pc[t] = "read"
    /\ todo[t] = {}
    /\ Return(t, got[t])
    /\ RUnlock(t)
    /\ UNCHANGED <<mem, todo, historyVars>>

StorePlace(t, p) ==
    /\ pc[t] = "store"
    /\ p \in todo[t]
    /\ mem' = [mem EXCEPT ![p] = call[t].data[p]]
    /\ Done(t, p)
    /\ UNCHANGED <<lockVars, pc, call, got, answer, historyVars>>

\* Variant: the reports are not derived after the write.
DeriveSkipped(t) ==
    /\ pc[t] = "store"
    /\ todo[t] = {}
    /\ call[t].kind = "holding"
    /\ Return(t, NoAnswer)
    /\ committed' = mem
    /\ overridden' = {}
    /\ Unlock(t)
    /\ UNCHANGED <<mem, todo>>

\* syncDerivedStateLocked after a write to the holding registers.
BeginDerive(t) ==
    /\ pc[t] = "store"
    /\ todo[t] = {}
    /\ call[t].kind = "holding"
    /\ todo' = [todo EXCEPT ![t] = Reports]
    /\ Goto(t, "derive")
    /\ UNCHANGED <<mem, lockVars, call, got, answer, historyVars>>

DerivePlace(t, p) ==
    /\ pc[t] = "derive"
    /\ p \in todo[t]
    /\ mem' = [mem EXCEPT ![p] = Derive[Restrict(mem, Commands)][p]]
    /\ Done(t, p)
    /\ UNCHANGED <<lockVars, pc, call, got, answer, historyVars>>

ReturnDerived(t) ==
    /\ pc[t] = "derive"
    /\ todo[t] = {}
    /\ Return(t, NoAnswer)
    /\ committed' = mem
    /\ overridden' = {}
    /\ Unlock(t)
    /\ UNCHANGED <<mem, todo>>

ReturnStored(t) ==
    /\ pc[t] = "store"
    /\ todo[t] = {}
    /\ call[t].kind = "others"
    /\ Return(t, NoAnswer)
    /\ committed' = mem
    /\ overridden' = overridden \union (call[t].places \intersect Reports)
    /\ Unlock(t)
    /\ UNCHANGED <<mem, todo>>

Running(t) ==
    \/ Enter(t) \/ RLock(t) \/ Refuse(t) \/ Begin(t)
    \/ \E p \in Places : ReadPlace(t, p) \/ StorePlace(t, p) \/ DerivePlace(t, p)
    \/ ReturnValues(t) \/ BeginDerive(t) \/ ReturnDerived(t) \/ ReturnStored(t)

Next == \E t \in Callers : Invoke(t) \/ Announce(t) \/ Running(t)

Spec == Init /\ [][Next]_vars

\* A running goroutine goes on.  The inner mutex of the RWMutex hands itself to
\* a caller that has waited for a millisecond, so nobody is overtaken for ever.
Fairness == \A t \in Callers : WF_vars(Running(t)) /\ SF_vars(Announce(t))

FairSpec == Spec /\ Fairness

-----------------------------------------------------------------------------
Answers == {NoAnswer, Refused} \union UNION {[P -> Values] : P \in SUBSET Places}

TypeOK ==
    /\ mem \in [Places -> Values]
    /\ writer \in Callers \union {Nobody}
    /\ readers \subseteq Callers
    /\ pc \in [Callers -> Steps]
    /\ call \in [Callers -> (UNION {Calls(t) : t \in Callers}) \union {NoCall}]
    /\ todo \in [Callers -> SUBSET Places]
    /\ got \in [Callers -> UNION {[P -> Values] : P \in SUBSET Places}]
    /\ answer \in [Callers -> Answers]
    /\ committed \in [Places -> Values]
    /\ overridden \subseteq Reports

\* The caller that is past the wait for the readers, and holds the write lock.
Writing(t) ==
    /\ pc[t] \in {"check", "store", "derive"}
    /\ call[t].kind # "read"

\* A caller that holds the read lock.
Reading(t) ==
    /\ pc[t] \in {"check", "read"}
    /\ call[t].kind = "read"

\* Between calls the reports are those of the commands, whatever the clients
\* wrote in whatever order, except those that the operator has set by hand since
\* (every holding write ends in syncDerivedStateLocked, datastore.go:104-128).
ReportsAgree ==
    (\A t \in Callers : ~Writing(t)) =>
        \A r \in Reports \ overridden : mem[r] = Derive[Restrict(mem, Commands)][r]

\* A waiting caller of either kind returns: no reader or writer is left behind,
\* and no caller of the store can block the others for ever.
EveryCallReturns == \A t \in Callers : pc[t] # "idle" ~> pc[t] = "idle"

(***************************************************************************)
(* The store implements an atomic register bank: seen by its callers, a    *)
(* write happens when it unlocks, with its reports, and a read returns the *)
(* values of one moment (the RWMutex of datastore.go:10, taken by every    *)
(* exported method).                                                       *)
(***************************************************************************)
Bank == INSTANCE RegisterBank WITH
    bank <- committed

IsAtomicBank == Bank!BankSpec
=============================================================================
