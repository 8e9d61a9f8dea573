-------------------------- MODULE DataStoreProofs --------------------------
(***************************************************************************)
(* Proofs about DataStore for any number of callers, any places, values    *)
(* and drive model: its typing, the exclusion of readers and writers, that *)
(* the reports agree with the commands, and that the store implements the  *)
(* atomic RegisterBank.                                                    *)
(*                                                                         *)
(* The inductive invariant says who holds the lock (LockOK), what each     *)
(* caller asked for (CallOK), and how far it has got (WorkOK): the memory  *)
(* is the committed one, overlaid with the registers that the writer has   *)
(* stored and the reports it has derived.                                  *)
(***************************************************************************)
EXTENDS DataStore, TLAPS

USE DEF Callers, Places, Others, Commands

LockOK ==
    \A t \in Callers :
        /\ pc[t] = "drain" \/ Writing(t) <=> writer = t
        /\ t \in readers <=> Reading(t)
        /\ Writing(t) => readers = {}

CallOK ==
    \A t \in Callers :
        /\ pc[t] # "idle" => call[t] \in Calls(t)
        /\ pc[t] \in {"lock", "drain", "store", "derive"} => call[t].kind # "read"
        /\ pc[t] \in {"rlock", "wait", "read"} => call[t].kind = "read"
        /\ pc[t] \in {"read", "store", "derive"} => call[t].places \subseteq Places
        /\ pc[t] = "derive" => call[t].kind = "holding"

\* The memory after the stores of t, before its reports are derived.
Stored(t) == Overlay(call[t].data, committed)

ReadsOK(t) ==
    IF pc[t] = "read"
    THEN /\ todo[t] \subseteq call[t].places
         /\ got[t] = [p \in call[t].places \ todo[t] |-> mem[p]]
    ELSE got[t] = Nothing

StoresOK(t) ==
    pc[t] = "store" =>
        /\ todo[t] \subseteq call[t].places
        /\ mem = [p \in Places |-> IF p \in call[t].places \ todo[t]
                                   THEN call[t].data[p] ELSE committed[p]]

DerivesOK(t) ==
    pc[t] = "derive" =>
        /\ todo[t] \subseteq Reports
        /\ mem = [p \in Places |-> IF p \in Reports \ todo[t]
                                   THEN Derive[Restrict(Stored(t), Commands)][p]
                                   ELSE Stored(t)[p]]

WorkOK ==
    /\ (\A t \in Callers : pc[t] \notin {"store", "derive"}) => mem = committed
    /\ \A t \in Callers : ReadsOK(t) /\ StoresOK(t) /\ DerivesOK(t)

\* What was committed last is settled but for what was set by hand.
SettledOK ==
    \A r \in Reports \ overridden : committed[r] = Derive[Restrict(committed, Commands)][r]

IInv == TypeOK /\ LockOK /\ CallOK /\ WorkOK /\ SettledOK

-----------------------------------------------------------------------------
\* A call reads, or writes the places of one block.
LEMMA CallShape ==
    ASSUME NEW t \in Callers, NEW c \in Calls(t)
    PROVE  /\ c = [kind |-> c.kind, places |-> c.places, data |-> c.data]
           /\ c.kind \in {"read", "holding", "others"}
           /\ c.kind # "read" => c.data \in [c.places -> Values]
           /\ c.kind = "holding" /\ c.places \subseteq Places => c.places \subseteq Holding
           /\ c.kind = "others" /\ c.places \subseteq Places => c.places \subseteq Others
BY StoreAssumption DEF StoreAssumption, Calls, Read, Writes, Call, Within, Singly, Nowhere

\* A drive model gives every report a value.
LEMMA DeriveTyped ==
    ASSUME NEW b \in [Places -> Values]
    PROVE  /\ Restrict(b, Commands) \in [Commands -> Values]
           /\ Derive[Restrict(b, Commands)] \in [Reports -> Values]
BY StoreAssumption DEF StoreAssumption, Restrict

\* Banks with equal commands have equal reports.
LEMMA SameReports ==
    ASSUME NEW a \in [Places -> Values], NEW b \in [Places -> Values],
           \A p \in Commands : a[p] = b[p]
    PROVE  Restrict(a, Commands) = Restrict(b, Commands)
BY DEF Restrict

LEMMA SettleTyped ==
    ASSUME NEW b \in [Places -> Values]
    PROVE  /\ Settle(b) \in [Places -> Values]
           /\ \A r \in Reports : Settle(b)[r] = Derive[Restrict(Settle(b), Commands)][r]
<1> DEFINE d == Derive[Restrict(b, Commands)]
<1>1. d \in [Reports -> Values]
  BY DeriveTyped
<1>2. Settle(b) = [p \in Places |-> IF p \in Reports THEN d[p] ELSE b[p]]
  BY <1>1 DEF Settle, Overlay
<1> HIDE DEF d
<1>3. Settle(b) \in [Places -> Values] /\ \A p \in Commands : Settle(b)[p] = b[p]
  BY <1>1, <1>2, StoreAssumption DEF StoreAssumption
<1>4. Restrict(Settle(b), Commands) = Restrict(b, Commands)
  BY <1>3, SameReports
<1>5. \A r \in Reports : Settle(b)[r] = d[r]
  BY <1>2, StoreAssumption DEF StoreAssumption
<1> QED
  BY <1>3, <1>4, <1>5 DEF d

LEMMA InitOK == Init => IInv
<1> SUFFICES ASSUME Init PROVE IInv
  OBVIOUS
<1>1. PICK b \in [Places -> Values] : mem = Settle(b)
  BY DEF Init
<1>2. mem \in [Places -> Values] /\ SettledOK
  BY <1>1, SettleTyped DEF Init, SettledOK
<1>3. Nothing \in [{} -> Values]
  BY DEF Nothing
<1>4. got \in [Callers -> UNION {[P -> Values] : P \in SUBSET Places}]
  BY <1>3 DEF Init
<1>5. TypeOK
  BY <1>2, <1>4 DEF Init, TypeOK, Steps, Answers
<1>6. LockOK /\ CallOK /\ WorkOK
  BY StoreAssumption DEF StoreAssumption, Init, LockOK, CallOK, WorkOK, Writing, Reading,
         ReadsOK, StoresOK, DerivesOK
<1> QED
  BY <1>2, <1>5, <1>6 DEF IInv

-----------------------------------------------------------------------------
(* One lemma per action: it keeps the invariant. *)

\* A step outside the reads and writes keeps the account of them.
LEMMA WorkKept ==
    ASSUME WorkOK, UNCHANGED <<mem, committed, todo, got>>,
           \A u \in Callers :
              \/ pc'[u] = pc[u] /\ call'[u] = call[u]
              \/ /\ pc[u] \notin {"read", "store", "derive"}
                 /\ pc'[u] \notin {"read", "store", "derive"}
    PROVE  WorkOK'
<1>1. (\A u \in Callers : pc'[u] \notin {"store", "derive"}) => mem' = committed'
  BY DEF WorkOK
<1>2. ASSUME NEW u \in Callers, pc'[u] = pc[u] /\ call'[u] = call[u]
      PROVE  /\ ReadsOK(u) => ReadsOK(u)'
             /\ StoresOK(u) => StoresOK(u)'
             /\ DerivesOK(u) => DerivesOK(u)'
  <2>1. Stored(u)' = Stored(u)
    BY <1>2 DEF Stored, Overlay
  <2> QED
    BY <1>2, <2>1 DEF ReadsOK, StoresOK, DerivesOK
<1>3. ASSUME NEW u \in Callers,
             pc[u] \notin {"read", "store", "derive"},
             pc'[u] \notin {"read", "store", "derive"}
      PROVE  /\ ReadsOK(u) => ReadsOK(u)'
             /\ StoresOK(u)' /\ DerivesOK(u)'
  BY <1>3 DEF ReadsOK, StoresOK, DerivesOK
<1> QED
  BY <1>1, <1>2, <1>3 DEF WorkOK

LEMMA InvokeOK ==
    ASSUME IInv, NEW t \in Callers, Invoke(t)
    PROVE  IInv'
<1> USE DEF IInv, Invoke, Goto, lockVars, historyVars
<1>1. PICK c \in Calls(t) : /\ call' = [call EXCEPT ![t] = c]
                            /\ answer' = [answer EXCEPT ![t] = NoAnswer]
                            /\ Goto(t, IF c.kind = "read" THEN "rlock" ELSE "lock")
  OBVIOUS
<1>2. c.kind \in {"read", "holding", "others"}
  BY CallShape
<1>3. TypeOK'
  BY <1>1 DEF TypeOK, Steps, Answers
<1>4. LockOK'
  BY <1>1, <1>2 DEF LockOK, Writing, Reading, TypeOK
<1>5. CallOK'
  BY <1>1, <1>2 DEF CallOK, TypeOK
<1>6. WorkOK'
  BY <1>1, WorkKept DEF TypeOK
<1>7. SettledOK'
  BY DEF SettledOK
<1> QED
  BY <1>3, <1>4, <1>5, <1>6, <1>7

LEMMA AnnounceOK ==
    ASSUME IInv, NEW t \in Callers, Announce(t)
    PROVE  IInv'
<1> USE DEF IInv, Announce, Goto, lockVars, historyVars
<1>1. TypeOK'
  BY DEF TypeOK, Steps
<1>2. LockOK'
  BY StoreAssumption DEF StoreAssumption, LockOK, Writing, Reading, TypeOK
<1>3. CallOK'
  BY DEF CallOK, TypeOK
<1>4. WorkOK'
  BY WorkKept DEF TypeOK
<1>5. SettledOK'
  BY DEF SettledOK
<1> QED
  BY <1>1, <1>2, <1>3, <1>4, <1>5

LEMMA EnterOK ==
    ASSUME IInv, NEW t \in Callers, Enter(t)
    PROVE  IInv'
<1> USE DEF IInv, Enter, Goto, lockVars, historyVars
<1>1. TypeOK'
  BY DEF TypeOK, Steps
<1>2. LockOK'
  BY DEF LockOK, CallOK, Writing, Reading, TypeOK
<1>3. CallOK'
  BY DEF CallOK, TypeOK
<1>4. WorkOK'
  BY WorkKept DEF TypeOK
<1>5. SettledOK'
  BY DEF SettledOK
<1> QED
  BY <1>1, <1>2, <1>3, <1>4, <1>5

LEMMA RLockOK ==
    ASSUME IInv, NEW t \in Callers, RLock(t)
    PROVE  IInv'
<1> USE DEF IInv, RLock, Goto, lockVars, historyVars
<1>1. TypeOK'
  BY DEF TypeOK, Steps
<1>2. LockOK'
  BY StoreAssumption DEF StoreAssumption, LockOK, CallOK, Writing, Reading, TypeOK
<1>3. CallOK'
  BY DEF CallOK, TypeOK
<1>4. WorkOK'
  BY WorkKept DEF TypeOK
<1>5. SettledOK'
  BY DEF SettledOK
<1> QED
  BY <1>1, <1>2, <1>3, <1>4, <1>5

\* The two ways to leave keep the lock, whatever else the step does.
LEMMA LeaveOK ==
    ASSUME TypeOK, LockOK, CallOK, NEW t \in Callers,
           pc[t] \in {"check", "read", "store", "derive"},
           Leave(t), call' = [call EXCEPT ![t] = NoCall]
    PROVE  /\ pc' \in [Callers -> Steps]
           /\ writer' \in Callers \union {Nobody}
           /\ readers' \subseteq Callers
           /\ LockOK' /\ CallOK'
<1> USE DEF TypeOK, Leave, Steps
<1>1. CASE call[t].kind = "read"
  <2>1. RUnlock(t)
    BY <1>1
  <2>2. LockOK'
    BY <1>1, <2>1 DEF RUnlock, Goto, LockOK, Writing, Reading
  <2>3. CallOK'
    BY <2>1 DEF RUnlock, Goto, CallOK
  <2> QED
    BY <2>1, <2>2, <2>3 DEF RUnlock, Goto
<1>2. CASE call[t].kind # "read"
  <2>1. Unlock(t) /\ Writing(t) /\ readers = {} /\ writer = t
    BY <1>2 DEF LockOK, CallOK, Writing
  <2>2. LockOK'
    BY <1>2, <2>1, StoreAssumption DEF StoreAssumption, Unlock, Waiting, LockOK, CallOK,
                                       Writing, Reading
  <2>3. CallOK'
    BY <2>1 DEF Unlock, Waiting, CallOK
  <2> QED
    BY <2>1, <2>2, <2>3 DEF Unlock, Waiting
<1> QED
  BY <1>1, <1>2

\* Where a caller's step leaves the others alone, so does its account.
LEMMA OthersKept ==
    ASSUME NEW t \in Callers, NEW u \in Callers \ {t},
           pc'[u] = pc[u], call'[u] = call[u], todo'[u] = todo[u], got'[u] = got[u],
           UNCHANGED <<mem, committed>>
    PROVE  /\ ReadsOK(u) => ReadsOK(u)'
           /\ StoresOK(u) => StoresOK(u)'
           /\ DerivesOK(u) => DerivesOK(u)'
<1>1. Stored(u)' = Stored(u)
  BY DEF Stored, Overlay
<1> QED
  BY <1>1 DEF ReadsOK, StoresOK, DerivesOK

LEMMA RefuseOK ==
    ASSUME IInv, NEW t \in Callers, Refuse(t)
    PROVE  IInv'
<1> USE DEF IInv, Refuse, Return, historyVars
<1>1. /\ pc' \in [Callers -> Steps]
      /\ writer' \in Callers \union {Nobody}
      /\ readers' \subseteq Callers
      /\ LockOK' /\ CallOK'
  BY LeaveOK
<1>2. got' = got
  BY DEF TypeOK, WorkOK, ReadsOK
<1>3. TypeOK'
  BY <1>1, <1>2 DEF TypeOK, Answers
<1>4. \A u \in Callers \ {t} : \/ pc'[u] = pc[u]
                               \/ pc[u] = "wait" /\ pc'[u] = "check"
  BY DEF Leave, RUnlock, Unlock, Waiting, Goto, TypeOK
<1>5. pc'[t] = "idle" /\ \A u \in Callers \ {t} : call'[u] = call[u]
  BY DEF Leave, RUnlock, Unlock, Goto, TypeOK
<1>6. WorkOK'
  BY <1>2, <1>4, <1>5, WorkKept
<1>7. SettledOK'
  BY DEF SettledOK
<1> QED
  BY <1>1, <1>3, <1>6, <1>7

LEMMA BeginOK ==
    ASSUME IInv, NEW t \in Callers, Begin(t)
    PROVE  IInv'
<1> USE DEF IInv, Begin, Goto, lockVars, historyVars
<1>1. TypeOK'
  BY DEF TypeOK, Steps
<1>2. LockOK'
  BY DEF LockOK, CallOK, Writing, Reading, TypeOK
<1>3. CallOK'
  BY DEF CallOK, TypeOK
<1>4. ReadsOK(t)' /\ StoresOK(t)' /\ DerivesOK(t)'
  <2>1. todo'[t] = call[t].places /\ pc'[t] \in {"read", "store"} /\ got[t] = Nothing
    BY DEF TypeOK, WorkOK, ReadsOK
  <2>2. ReadsOK(t)' /\ DerivesOK(t)'
    BY <2>1 DEF ReadsOK, DerivesOK, Nothing
  <2>3. CASE pc'[t] = "store"
    <3>1. Writing(t)
      BY <2>3 DEF Writing, TypeOK
    <3>2. \A u \in Callers : pc[u] \notin {"store", "derive"}
      BY <3>1 DEF LockOK, CallOK, Writing
    <3>3. mem = committed
      BY <3>2 DEF WorkOK
    <3> QED
      BY <2>1, <2>2, <3>3 DEF StoresOK, TypeOK
  <2>4. CASE pc'[t] # "store"
    BY <2>2, <2>4 DEF StoresOK
  <2> QED
    BY <2>2, <2>3, <2>4
<1>5. \A u \in Callers \ {t} : ReadsOK(u)' /\ StoresOK(u)' /\ DerivesOK(u)'
  BY OthersKept DEF WorkOK, TypeOK
<1>6. (\A u \in Callers : pc'[u] \notin {"store", "derive"}) => mem' = committed'
  BY DEF WorkOK, TypeOK
<1>7. WorkOK'
  BY <1>4, <1>5, <1>6 DEF WorkOK
<1>8. SettledOK'
  BY DEF SettledOK
<1> QED
  BY <1>1, <1>2, <1>3, <1>7, <1>8

LEMMA ReadPlaceOK ==
    ASSUME IInv, NEW t \in Callers, NEW p \in Places, ReadPlace(t, p)
    PROVE  IInv'
<1> USE DEF IInv, ReadPlace, Done, lockVars, historyVars
<1> DEFINE next == [q \in DOMAIN got[t] \union {p} |-> IF q = p THEN mem[p] ELSE got[t][q]]
<1>1. got' = [got EXCEPT ![t] = next] /\ got'[t] = next
  BY DEF TypeOK
<1>2. next = [q \in call[t].places \ (todo[t] \ {p}) |-> mem[q]]
  BY DEF WorkOK, ReadsOK
<1>3. next \in [call[t].places \ (todo[t] \ {p}) -> Values] /\ call[t].places \subseteq Places
  BY <1>2 DEF TypeOK, CallOK
<1> HIDE DEF next
<1>4. TypeOK'
  <2>1. next \in UNION {[P -> Values] : P \in SUBSET Places}
    BY <1>3
  <2> QED
    BY <1>1, <2>1 DEF TypeOK
<1>5. LockOK' /\ CallOK'
  BY DEF LockOK, CallOK, Writing, Reading
<1>6. ReadsOK(t)' /\ StoresOK(t)' /\ DerivesOK(t)'
  BY <1>1, <1>2 DEF ReadsOK, StoresOK, DerivesOK, WorkOK, TypeOK
<1>7. \A u \in Callers \ {t} : ReadsOK(u)' /\ StoresOK(u)' /\ DerivesOK(u)'
  BY OthersKept DEF WorkOK, TypeOK
<1>8. WorkOK'
  BY <1>6, <1>7 DEF WorkOK
<1>9. SettledOK'
  BY DEF SettledOK
<1> QED
  BY <1>4, <1>5, <1>8, <1>9

LEMMA ReturnValuesOK ==
    ASSUME IInv, NEW t \in Callers, ReturnValues(t)
    PROVE  IInv'
<1> USE DEF IInv, ReturnValues, Return, historyVars
<1>1. call[t].kind = "read" /\ Leave(t)
  BY DEF CallOK, Leave
<1>2. /\ pc' \in [Callers -> Steps]
      /\ writer' \in Callers \union {Nobody}
      /\ readers' \subseteq Callers
      /\ LockOK' /\ CallOK'
  BY <1>1, LeaveOK
<1>3. Nothing \in UNION {[P -> Values] : P \in SUBSET Places}
  <2>1. Nothing \in [{} -> Values]
    BY DEF Nothing
  <2> QED
    BY <2>1
<1>4. TypeOK'
  BY <1>2, <1>3 DEF TypeOK, Answers
<1>5. ReadsOK(t)' /\ StoresOK(t)' /\ DerivesOK(t)'
  BY DEF ReadsOK, StoresOK, DerivesOK, TypeOK, RUnlock, Goto
<1>6. \A u \in Callers \ {t} : ReadsOK(u)' /\ StoresOK(u)' /\ DerivesOK(u)'
  BY OthersKept DEF WorkOK, TypeOK, RUnlock, Goto
<1>7. (\A u \in Callers : pc'[u] \notin {"store", "derive"}) => mem' = committed'
  BY DEF WorkOK, TypeOK, RUnlock, Goto
<1>8. WorkOK'
  BY <1>5, <1>6, <1>7 DEF WorkOK
<1>9. SettledOK'
  BY DEF SettledOK
<1> QED
  BY <1>2, <1>4, <1>8, <1>9

\* While somebody writes, the others neither read nor write.
LEMMA Alone ==
    ASSUME IInv, NEW t \in Callers, pc[t] \in {"store", "derive"}
    PROVE  /\ Writing(t) /\ call[t] \in Calls(t) /\ call[t].places \subseteq Places
           /\ \A u \in Callers \ {t} : pc[u] \notin {"read", "store", "derive"}
BY DEF IInv, LockOK, CallOK, Writing, Reading

\* The account of the others, while t writes.
LEMMA IdleKept ==
    ASSUME IInv, NEW t \in Callers, pc[t] \in {"store", "derive"}, UNCHANGED got,
           \A u \in Callers \ {t} : pc'[u] \notin {"read", "store", "derive"}
    PROVE  \A u \in Callers \ {t} : ReadsOK(u)' /\ StoresOK(u)' /\ DerivesOK(u)'
BY Alone DEF IInv, WorkOK, ReadsOK, StoresOK, DerivesOK

LEMMA StorePlaceOK ==
    ASSUME IInv, NEW t \in Callers, NEW p \in Places, StorePlace(t, p)
    PROVE  IInv'
<1> USE DEF IInv, StorePlace, Done, lockVars, historyVars
<1>1. call[t].data \in [call[t].places -> Values] /\ p \in call[t].places
  BY Alone, CallShape DEF WorkOK, StoresOK, CallOK
<1>2. TypeOK'
  BY <1>1 DEF TypeOK
<1>3. LockOK' /\ CallOK'
  BY DEF LockOK, CallOK, Writing, Reading
<1>4. mem' = [q \in Places |-> IF q \in call[t].places \ (todo[t] \ {p})
                               THEN call[t].data[q] ELSE committed[q]]
  BY <1>1 DEF WorkOK, StoresOK, TypeOK
<1>5. ReadsOK(t)' /\ StoresOK(t)' /\ DerivesOK(t)'
  BY <1>4 DEF ReadsOK, StoresOK, DerivesOK, WorkOK, TypeOK
<1>6. \A u \in Callers \ {t} : ReadsOK(u)' /\ StoresOK(u)' /\ DerivesOK(u)'
  BY Alone, IdleKept
<1>7. WorkOK'
  BY <1>5, <1>6 DEF WorkOK
<1>8. SettledOK'
  BY DEF SettledOK
<1> QED
  BY <1>2, <1>3, <1>7, <1>8

\* The writes of t in full, and its commands.
LEMMA StoredTyped ==
    ASSUME IInv, NEW t \in Callers, pc[t] \in {"store", "derive"}
    PROVE  /\ call[t].data \in [call[t].places -> Values]
           /\ Stored(t) \in [Places -> Values]
<1>1. call[t].data \in [call[t].places -> Values]
  BY Alone, CallShape DEF IInv, CallOK
<1> QED
  BY <1>1 DEF IInv, TypeOK, Stored, Overlay

LEMMA BeginDeriveOK ==
    ASSUME IInv, NEW t \in Callers, BeginDerive(t)
    PROVE  IInv'
<1> USE DEF IInv, BeginDerive, Goto, lockVars, historyVars
<1>1. TypeOK'
  BY StoreAssumption DEF StoreAssumption, TypeOK, Steps
<1>2. LockOK' /\ CallOK'
  BY DEF LockOK, CallOK, Writing, Reading, TypeOK
<1>3. todo'[t] = Reports /\ pc'[t] = "derive" /\ Stored(t)' = Stored(t)
  BY DEF TypeOK, Stored, Overlay
<1>4. mem = Stored(t)
  <2>1. DOMAIN call[t].data = call[t].places
    BY StoredTyped
  <2> QED
    BY <2>1 DEF WorkOK, StoresOK, Stored, Overlay
<1>5. mem = [q \in Places |-> IF q \in Reports \ Reports
                              THEN Derive[Restrict(Stored(t), Commands)][q]
                              ELSE Stored(t)[q]]
  BY <1>4, StoredTyped
<1>6. ReadsOK(t)' /\ StoresOK(t)' /\ DerivesOK(t)'
  BY <1>3, <1>5 DEF ReadsOK, StoresOK, DerivesOK, WorkOK
<1>7. \A u \in Callers \ {t} : ReadsOK(u)' /\ StoresOK(u)' /\ DerivesOK(u)'
  BY Alone, IdleKept DEF TypeOK
<1>8. WorkOK'
  BY <1>3, <1>6, <1>7 DEF WorkOK
<1>9. SettledOK'
  BY DEF SettledOK
<1> QED
  BY <1>1, <1>2, <1>8, <1>9

LEMMA DerivePlaceOK ==
    ASSUME IInv, NEW t \in Callers, NEW p \in Places, DerivePlace(t, p)
    PROVE  IInv'
<1> USE DEF IInv, DerivePlace, Done, lockVars, historyVars
<1> DEFINE d == Derive[Restrict(Stored(t), Commands)]
<1>1. p \in Reports /\ Stored(t) \in [Places -> Values] /\ d \in [Reports -> Values]
  BY StoredTyped, DeriveTyped DEF WorkOK, DerivesOK
<1>2. mem = [q \in Places |-> IF q \in Reports \ todo[t] THEN d[q] ELSE Stored(t)[q]]
  BY DEF WorkOK, DerivesOK
<1>3. Restrict(mem, Commands) = Restrict(Stored(t), Commands)
  <2>1. \A q \in Commands : mem[q] = Stored(t)[q]
    BY <1>2
  <2> QED
    BY <1>1, <2>1, SameReports DEF TypeOK
<1>4. mem' = [mem EXCEPT ![p] = d[p]]
  BY <1>3
<1> HIDE DEF d
<1>5. mem' = [q \in Places |-> IF q \in Reports \ (todo[t] \ {p}) THEN d[q] ELSE Stored(t)[q]]
  BY <1>1, <1>2, <1>4
<1>6. TypeOK'
  BY <1>1, <1>4 DEF TypeOK
<1>7. LockOK' /\ CallOK'
  BY DEF LockOK, CallOK, Writing, Reading
<1>8. ReadsOK(t)' /\ StoresOK(t)' /\ DerivesOK(t)'
  <2>1. Stored(t)' = Stored(t)
    BY DEF Stored, Overlay
  <2>2. todo'[t] = todo[t] \ {p}
    BY DEF TypeOK
  <2> QED
    BY <1>5, <2>1, <2>2 DEF ReadsOK, StoresOK, DerivesOK, WorkOK, d
<1>9. \A u \in Callers \ {t} : ReadsOK(u)' /\ StoresOK(u)' /\ DerivesOK(u)'
  BY Alone, IdleKept
<1>10. WorkOK'
  BY <1>8, <1>9 DEF WorkOK
<1>11. SettledOK'
  BY DEF SettledOK
<1> QED
  BY <1>6, <1>7, <1>10, <1>11

\* A writer that is done leaves the memory committed.
LEMMA CommitOK ==
    ASSUME IInv, NEW t \in Callers, pc[t] \in {"store", "derive"},
           Return(t, NoAnswer), Unlock(t), UNCHANGED <<mem, todo>>, committed' = mem,
           overridden' \subseteq Reports
    PROVE  TypeOK' /\ LockOK' /\ CallOK' /\ WorkOK'
<1> USE DEF IInv, Return
<1>1. Leave(t) /\ pc' = [u \in Callers |-> IF u = t THEN "idle"
                                  ELSE IF u \in Waiting THEN "check" ELSE pc[u]]
  BY Alone DEF Leave, Unlock, Writing
<1>2. /\ pc' \in [Callers -> Steps]
      /\ writer' \in Callers \union {Nobody}
      /\ readers' \subseteq Callers
      /\ LockOK' /\ CallOK'
  BY <1>1, LeaveOK
<1>3. got' = got
  BY DEF TypeOK, WorkOK, ReadsOK
<1>4. TypeOK'
  BY <1>2, <1>3 DEF TypeOK, Answers
<1>5. \A u \in Callers : pc'[u] \notin {"read", "store", "derive"}
  BY <1>1, Alone
<1>6. \A u \in Callers : got[u] = Nothing
  BY Alone DEF WorkOK, ReadsOK
<1>7. WorkOK'
  BY <1>3, <1>5, <1>6 DEF WorkOK, ReadsOK, StoresOK, DerivesOK
<1> QED
  BY <1>2, <1>4, <1>7

\* What a write to the holding registers has done when it unlocks.
LEMMA HoldingDone ==
    ASSUME IInv, NEW t \in Callers, pc[t] = "derive", todo[t] = {}
    PROVE  /\ call[t].data \in [call[t].places -> Values]
           /\ call[t].places \subseteq Holding
           /\ Stored(t) \in [Places -> Values]
           /\ mem = Settle(Stored(t))
<1> USE DEF IInv
<1>1. call[t].kind = "holding"
  BY DEF CallOK
<1>2. call[t].places \subseteq Holding
  BY <1>1, Alone, CallShape
<1>3. Stored(t) \in [Places -> Values] /\ call[t].data \in [call[t].places -> Values]
  BY StoredTyped
<1>4. DOMAIN Derive[Restrict(Stored(t), Commands)] = Reports
  BY <1>3, DeriveTyped
<1>5. mem = Settle(Stored(t))
  BY <1>4 DEF WorkOK, DerivesOK, Settle, Overlay
<1> QED
  BY <1>2, <1>3, <1>5

LEMMA ReturnDerivedOK ==
    ASSUME IInv, NEW t \in Callers, ReturnDerived(t)
    PROVE  IInv'
<1> USE DEF ReturnDerived
<1>1. TypeOK' /\ LockOK' /\ CallOK' /\ WorkOK'
  BY CommitOK
<1>2. SettledOK'
  BY HoldingDone, SettleTyped DEF SettledOK
<1> QED
  BY <1>1, <1>2 DEF IInv

\* What a write to the other blocks has done when it unlocks.
LEMMA OthersDone ==
    ASSUME IInv, NEW t \in Callers, pc[t] = "store", todo[t] = {}, call[t].kind = "others"
    PROVE  /\ call[t].data \in [call[t].places -> Values]
           /\ call[t].places \subseteq Others
           /\ mem = Stored(t)
<1> USE DEF IInv
<1>1. call[t].places \subseteq Others
  BY Alone, CallShape
<1>2. call[t].data \in [call[t].places -> Values]
  BY StoredTyped
<1>3. mem = Stored(t)
  BY <1>2 DEF WorkOK, StoresOK, Stored, Overlay
<1> QED
  BY <1>1, <1>2, <1>3

LEMMA ReturnStoredOK ==
    ASSUME IInv, NEW t \in Callers, ReturnStored(t)
    PROVE  IInv'
<1> USE DEF ReturnStored
<1>1. overridden' \subseteq Reports
  BY DEF IInv, TypeOK
<1>2. TypeOK' /\ LockOK' /\ CallOK' /\ WorkOK'
  BY <1>1, CommitOK
<1>3. \A p \in Places \ call[t].places : mem[p] = committed[p]
  BY OthersDone DEF Stored, Overlay
<1>4. \A p \in Commands : mem[p] = committed[p]
  BY <1>3, OthersDone, StoreAssumption DEF StoreAssumption
<1>5. Restrict(mem, Commands) = Restrict(committed, Commands)
  BY <1>4, SameReports DEF IInv, TypeOK
<1>6. SettledOK'
  BY <1>3, <1>5, StoreAssumption DEF StoreAssumption, SettledOK, IInv
<1> QED
  BY <1>2, <1>6 DEF IInv

LEMMA StutterOK == IInv /\ UNCHANGED vars => IInv'
<1> SUFFICES ASSUME IInv, UNCHANGED vars PROVE IInv'
  OBVIOUS
<1> USE DEF IInv, vars, lockVars, historyVars
<1>1. TypeOK'
  BY DEF TypeOK
<1>2. LockOK' /\ CallOK'
  BY DEF LockOK, CallOK, Writing, Reading
<1>3. WorkOK'
  BY WorkKept
<1> QED
  BY <1>1, <1>2, <1>3 DEF SettledOK

LEMMA NextOK == IInv /\ [Next]_vars => IInv'
<1>1. ASSUME IInv, NEW t \in Callers, Running(t) PROVE IInv'
  BY <1>1, EnterOK, RLockOK, RefuseOK, BeginOK, ReadPlaceOK, StorePlaceOK, DerivePlaceOK,
     ReturnValuesOK, BeginDeriveOK, ReturnDerivedOK, ReturnStoredOK DEF Running
<1> QED
  BY <1>1, InvokeOK, AnnounceOK, StutterOK DEF Next

LEMMA Inductive == Spec => []IInv
BY InitOK, NextOK, PTL DEF Spec

-----------------------------------------------------------------------------
\* Every variable keeps its type: no call stores outside its block, or something
\* that is not a value (blockRange in every helper, datastore.go:457-529).
THEOREM Typing == Spec => []TypeOK
<1>1. IInv => TypeOK
  BY DEF IInv
<1> QED
  BY <1>1, Inductive, PTL

\* Between calls every report that was not set by hand is the one of the commands,
\* for every number of callers (syncDerivedStateLocked, datastore.go:142-161).
THEOREM Agreement == Spec => []ReportsAgree
<1>1. IInv => ReportsAgree
  <2> SUFFICES ASSUME IInv, \A t \in Callers : ~Writing(t)
               PROVE  \A r \in Reports \ overridden : mem[r] = Derive[Restrict(mem,
                   Commands)][r]
    BY DEF ReportsAgree
  <2>1. \A t \in Callers : pc[t] \notin {"store", "derive"}
    BY Alone
  <2> QED
    BY <2>1 DEF IInv, WorkOK, SettledOK
<1> QED
  BY <1>1, Inductive, PTL

LEMMA SameBank ==
    ASSUME NEW d, NEW b
    PROVE  /\ Bank!Overlay(d, b) = Overlay(d, b)
           /\ Bank!Settle(b) = Settle(b)
<1>1. Bank!Places = Places /\ Bank!Commands = Commands
  BY DEF Bank!Places, Bank!Commands
<1>2. ASSUME NEW e PROVE Bank!Overlay(e, b) = Overlay(e, b)
  BY <1>1, Zenon DEF Bank!Overlay, Overlay
<1>3. Bank!Restrict(b, Commands) = Restrict(b, Commands)
  BY DEF Bank!Restrict, Restrict
<1> QED
  BY <1>1, <1>2, <1>3, Zenon DEF Bank!Settle, Settle

LEMMA BankStarts == Init => Bank!BankInit
<1>1. Bank!Places = Places
  BY DEF Bank!Places
<1> QED
  BY <1>1, SameBank DEF Init, Bank!BankInit

LEMMA BankSteps == IInv /\ [Next]_vars => [Bank!BankNext]_(Bank!bankVars)
<1> SUFFICES ASSUME IInv, [Next]_vars
             PROVE  Bank!BankNext \/ UNCHANGED <<committed, answer>>
  BY DEF Bank!bankVars
<1> USE DEF lockVars, historyVars, Bank!Return, Return
<1>1. ASSUME NEW t \in Callers, Invoke(t)
      PROVE  Bank!BankNext
  <2>1. Bank!Ask(t)
    BY <1>1 DEF Invoke, Bank!Ask
  <2> QED
    BY <2>1 DEF Bank!BankNext
<1>2. ASSUME NEW t \in Callers, Refuse(t)
      PROVE  Bank!BankNext
  <2>1. Bank!Refuse(t)
    BY <1>2 DEF Refuse, Bank!Refuse
  <2> QED
    BY <2>1 DEF Bank!BankNext
<1>3. ASSUME NEW t \in Callers, ReturnValues(t)
      PROVE  Bank!BankNext
  <2>1. \A u \in Callers : pc[u] \notin {"store", "derive"}
    BY <1>3, Alone DEF ReturnValues, IInv, CallOK, Writing
  <2>2. mem = committed /\ call[t].places \subseteq Places
    BY <1>3, <2>1 DEF ReturnValues, IInv, WorkOK, CallOK
  <2>3. got[t] = Restrict(committed, call[t].places)
    BY <1>3, <2>2 DEF ReturnValues, IInv, WorkOK, ReadsOK, Restrict
  <2>4. Bank!Read(t, call[t].places)
    BY <1>3, <2>3 DEF ReturnValues, Bank!Read, Bank!Restrict, Restrict
  <2> QED
    BY <2>2, <2>4 DEF Bank!BankNext, Bank!Places
<1>4. ASSUME NEW t \in Callers, ReturnDerived(t)
      PROVE  Bank!BankNext
  <2>1. /\ call[t].data \in [call[t].places -> Values]
        /\ call[t].places \subseteq Holding
        /\ committed' = Settle(Stored(t))
    BY <1>4, HoldingDone DEF ReturnDerived
  <2>2. call[t].data \in Bank!Data(Holding)
    BY <2>1 DEF Bank!Data
  <2>3. Bank!WriteHolding(t, call[t].data)
    BY <1>4, <2>1, SameBank DEF ReturnDerived, Bank!WriteHolding, Stored
  <2> QED
    BY <2>2, <2>3 DEF Bank!BankNext
<1>5. ASSUME NEW t \in Callers, ReturnStored(t)
      PROVE  Bank!BankNext
  <2>1. /\ call[t].data \in [call[t].places -> Values]
        /\ call[t].places \subseteq Others
        /\ committed' = Stored(t)
    BY <1>5, OthersDone DEF ReturnStored
  <2>2. call[t].data \in Bank!Data(Others)
    BY <2>1 DEF Bank!Data
  <2>3. Bank!WriteOthers(t, call[t].data)
    BY <1>5, <2>1, SameBank DEF ReturnStored, Bank!WriteOthers, Stored
  <2> QED
    BY <2>2, <2>3 DEF Bank!BankNext
<1>6. ASSUME NEW t \in Callers,
    Announce(t) \/ Enter(t) \/ RLock(t) \/ Begin(t) \/ BeginDerive(t)
      PROVE  UNCHANGED <<committed, answer>>
  BY <1>6 DEF Announce, Enter, RLock, Begin, BeginDerive
<1>7. ASSUME NEW t \in Callers, NEW p \in Places,
             ReadPlace(t, p) \/ StorePlace(t, p) \/ DerivePlace(t, p)
      PROVE  UNCHANGED <<committed, answer>>
  BY <1>7 DEF ReadPlace, StorePlace, DerivePlace
<1>8. CASE UNCHANGED vars
  BY <1>8 DEF vars
<1>9. CASE Next
  BY <1>1, <1>2, <1>3, <1>4, <1>5, <1>6, <1>7, <1>9 DEF Next, Running
<1> QED
  BY <1>8, <1>9

\* The store implements the atomic register bank for every number of callers: no
\* read sees half of a write, or a command without its reports, and no two writes
\* mix (the RWMutex of datastore.go:10 and the deferred unlocks, 74-140).
THEOREM Atomic == Spec => IsAtomicBank
BY BankStarts, BankSteps, Inductive, PTL DEF Spec, IsAtomicBank, Bank!BankSpec
=============================================================================
