# A verification project for the Modbus TCP simulator

TLA+ modules that model the simulator, TLC configurations that check them on
small instances, and theorems about them that TLAPS checks for every value of
the constants. Source paths are relative to `src/`; `server.go`, `datastore.go`,
`config.go`, `stats.go` are in `internal/modbus/`, `runtime.go` in
`internal/app/`, and "the dashboard" is `cmd/fynehmi/main.go`.

## 1. The system

The simulator pretends to be a frequency drive (or another device) on Modbus
TCP. A JSON file gives the port, the connection limits, four blocks of values
(coils, discrete inputs, holding registers, input registers) and the drive model
that derives status registers from command registers. Two programs run it: a
command line and a dashboard.

| Component | State | Operations | Modelled in |
|---|---|---|---|
| Server (`server.go:42-188`) | listener, context, atomic `activeClient`, one goroutine per connection | listen, accept or reject, request loop with a deadline, deferred clean-up, cancellation | `ModbusServer`, `ClientLimit` |
| Request processing (`server.go:197-446`) | none of its own | eight functions, limits, exceptions, packing | `ModbusPDU`, `Blocks` |
| Data store (`datastore.go:9-161, 457-529`) | four blocks under one `RWMutex` | reads, snapshot, writes with the derivation, overrides | `DataStore`, `RegisterBank`, `Blocks` |
| Drive models (`datastore.go:142-455`, `config.go:228-550`) | the reports in the blocks | six models, their default register maps | `DriveModels`, `DriveDefaults`, `Drive` |
| App runtime (`runtime.go`) | catalog, selected configuration, current server with its cancel and done, `lastAsyncErr` | SetRoot, Discover, SelectConfig, Start, Stop, the queries that sync, the edits | `Runtime`, `ServerControl` |
| Dashboard (`cmd/fynehmi/main.go`) | label, buttons, register table, configuration list | the callbacks, the ticker, the closing of the window | `Hmi` (partly) |
| Traffic statistics (`stats.go`) | connection table with a count per row, totals, one-second window, all under one mutex | opened, closed, recordRead, recordWrite, snapshot | `ServerTraffic`, on the table of `ModbusServer` |
| Configuration files (`config.go:10-226`) | files on disk | load, fill in defaults, validate, create, save | `ConfigFiles`, `Cli` |
| Discovery (`discovery.go`) | none of its own | a scan of a folder, file by file | `Cli`; in `Hmi` a scan finds any set of files |
| Command line (`cmd/mockserver/main.go`) | menus, configuration in hand, signal context, server and its error channel | resolve, choose, edit, save, run, stop | `Cli` (partly) |
| Register map (`registermap.go`) | none of its own | rows of a block | `Blocks` (the rows, not the text) |
| Log sink, paths, build files | | | not modelled |

How they interact. The accept loop starts a handler for each admitted
connection; the handlers share the counter, the connection table (a mutex) and
the store (a read-write mutex). The runtime starts `ListenAndServe` in a
goroutine that sends its result to a channel of one place, `done`; `Stop`
cancels the context and waits for that value, every other call looks into the
channel (`syncServerLocked`). The dashboard makes all its runtime calls in one
goroutine: callbacks and the 500 ms ticker (`fyne.Do`) never overlap, but
servers and clients go on between any two calls, and `Stop` blocks the
goroutine. An edit goes to the selected configuration, whose value slices are
shared with the catalog, and to the running server's copy. The command line has
two goroutines of its own, the menu and the server's, joined by a channel of one
place and a signal context; any number of its processes share the folder of
configuration files, with no lock.

What is hard here: the limit is checked and raised in two steps; clean-up
happens in deferred calls after the client has gone; clients can vanish, reset,
dial again from the same address, or fall silent; cancellation races with
starting and failing; a server can end on its own and is noticed only by the
next call; a derivation of many registers must look like one step; a row of the
traffic table has the address for a key, and addresses come back; configuration
files are written in place, by several processes, and a zero in a file stands for
a missing value; the menu looks at the signal before it reads a line, not after.
The file
`PROJECT.json` lists each of these hazards at its line with the properties that
would catch it going wrong.

What makes each component correct, in short: the counter is the number of
admitted connections and bounded; the table lists what is served; a well-formed
request is refused exactly when it leaves its block, and changes only what it
names; the store is an atomic register bank; reports follow commands; the
runtime never leaves a listener, an error or a waiting `Stop` behind; edits stay
with their configuration; each message is counted once; what the program saves it
can load again, and what it serves is valid.

## 2. The modules

| Module | What it is |
|---|---|
| `ClientLimit` | Abstract: clients knock, are let in while there is room, are turned away only when there is none. |
| `ModbusServer` | `ListenAndServe`, the closer goroutine and `handleConnection` step by step, with clients and kernel as environment. Refines `ClientLimit`. |
| `ServerTraffic` | The server together with its traffic collector: rows, totals, window, snapshots. Extends `ModbusServer`. |
| `ModbusServerProofs` | Proofs about the server, and about its collector on top of them. |
| `Blocks` | A block of values: `blockRange`, fetch, store, the rows of the register map. |
| `ModbusPDU` | `handlePDU` on four blocks; a PDU is a sequence of bytes. |
| `ModbusPDUProofs` | Its proofs. |
| `RegisterBank` | Abstract: reads and writes one at a time, a holding write with its reports in one step. |
| `DataStore` | The store's calls under the `RWMutex`, one register per step. Refines `RegisterBank`. |
| `DataStoreProofs` | Its proofs. |
| `DriveModels` | The six `sync...Locked` functions as operators on a bank. |
| `DriveDefaults` | The `Default...Behavior` maps and constants, and the shipped Danfoss map. |
| `Drive` | A drive's registers over time under writes and overrides. |
| `DriveProofs` | Its proofs, model by model. |
| `ServerControl` | Abstract: servers take turns, and the error of one is told before the next begins. |
| `Runtime` | The methods of `app.Runtime` as operators, and the servers they start. |
| `Hmi` | The dashboard's callbacks as sequences of runtime calls; what it shows. Refines `ServerControl`. |
| `HmiProofs` | Proofs about both. |
| `HmiEditProofs` | Proofs about the types of both and about edits: those taken are kept, those refused change nothing. |
| `ServerControlProofs` | The proof that `Hmi` implements `ServerControl`. |
| `ConfigFiles` | Configurations as functions over their fields: defaults, validation, what a file holds and what it loads as. |
| `Cli` | The command line in several processes on one folder, with signals, kills and failing writes. |
| `CliProofs` | Its proofs. |
| `MC...` | The instances for TLC: definitions for the constants in the `.cfg` files. |

`DriveModels` is built on `Blocks`, `Drive` on `DriveModels` and
`DriveDefaults`; `Hmi` extends `Runtime`, `ServerTraffic` composes the server and
its collector, `Cli` extends `ConfigFiles`. The server, the PDUs, the store and
the drives are separate modules because they meet at one call each: a handler
step `HandlePDU` of `ModbusServer` is a step of `ModbusPDU`, whose `Read` and
`Write` are calls of `DataStore`, whose `Derive` is a `Sync` of `DriveModels`.
`DataStore` shows that such a call is atomic, so `ModbusPDU` and `Drive` may
take it as one step.

A definition with the comment "Variant" is not part of the model. It is the
model's definition with a plausible bug in it (a dropped guard, a wrong order, a
missing reset), put in place of the original to show that a property notices.

### ModbusServer

`pc[c]` is where a connection is: in the kernel's queue, in the hand of the
accept loop, or at a step of `handleConnection`. The three deferred calls are
three steps (`Decrement`, `ConnectionClosed`, `CloseConn`), in the order of
lines 129-131. `serve` is where `ListenAndServe` is; the check of the limit
(`RejectClient`, `PassCheck`) and the `Add` (`AdmitClient`) are separate steps.
`activeClient` is the counter, `connections` the table of `stats.go`. A request
is the unit it names, or a member of `Malformed`. Identities in `Conns` are reused after a
close, so the number of connections over time is not bounded.

`WriteResponse` is the local `conn.Write`: it hands the reply to the kernel, and
whether the client ever gets it is not known to the program. So nothing is said of
what a client knows; `AnsweredOrCutOff` says what the handler owes it.

### ServerTraffic

The methods of the collector hold its mutex. The four that handlers call are one
step each and go together with the handler's step: `Open` with `ConnectionOpened`,
`CountRead` with `RecordRead`, and so on. A snapshot is two steps, the copy of the
window and the beginning of a new one, with the mutex held between them
(`copied`). `counts[a]` is the part of the row of address `a` that counts; a row
that is opened or deleted starts from zero, whoever had it before. `own` and
`reported` are history variables: what the handler of a connection has recorded,
and what the windows that have ended have counted. Whatever does not touch the
collector is `OtherStep`.

### ModbusPDU

One action per way a request can end: unknown function, bad value, bad address,
read, write. Blocks may go on beyond address 65535, as `Config.Validate` lets them;
`Rows` numbers their rows in `uint16`, as `registermap.go` does, while requests are
looked up in the integers. `WellFormed` collects the checks of the handlers in front of the
store call; all of them give the same exception, so their order does not show.
The byte count is computed `% 256`, as `byte(...)` does. `written` is a history
of the last accepted write to each block. The device has no drive model, so a
write derives nothing.

### DataStore

A call goes `lock`, `drain`, `check`, `store`, `derive` or `rlock`, `wait`,
`check`, `read`. `Announce` and `Enter` are the two halves of
`RWMutex.Lock`: the announcement keeps new readers out, the entry waits for the
old ones. `Unlock` lets waiting readers in first, as the library does.
`committed` is the content at the last unlock, which is what `RegisterBank` sees;
`overridden` remembers which reports were set by hand since the last derivation.

### DriveModels, Drive

The models are translated register by register with the widths of the code
(`Uint16` where it converts). The MS300 reports 53 registers: `ComputedMS300` is what
is computed or taken from the constants, `ListedMS300` the list of reports, all of which
the default map has. What a model sets is a list of
pairs, a key and a value, in the order of the code; `SetMapped` and `SetInputs` say
what the registers hold after the whole list: at each address the value of the last
pair whose key is mapped to it, and elsewhere what was there before. The eight echoes
of process data are different, because each reads the bank that the echo before it has
left: `EchoWord` is one of them. `Merged` is the union of two register maps, and
`Registers` a block of a shipped configuration, of which only the registers that are not
zero are written down.
`Drive` writes one or two registers at a time, and the status word too (a client may).
The operator sets any input register that the drive reports something in
(`SetInputRegister`); `overridden` is the history of those that he has set since the last
write, and a property of the reports speaks of the others: what he has set stays until
the next write, by design, and must then be gone.

### Runtime, Hmi

`server` stands for the runtime's `server`, `cancel` and `done`, which are always
set and cleared together. `own = Shared` means that `selectedCfg` still has the
slice of its catalog entry; a new scan separates them until the next selection.
`Alive`, `AsyncErr` and `Received` are what `syncServerLocked` leaves behind, and
every method that syncs is written with them. `run[g]` is the g-th server that was
started: the phase of its goroutine, its listener, its `done` channel, whether a
handler of it is at work, and its store.

`todo` in `Hmi` is what the running callback has still to call. Nothing else of the
user interface happens until it is empty, while servers and clients take steps at
any time. The edit dialog is modal, but the ticker goes on behind it; bits are
toggled in the table itself (`BitRows`), and `ValuesOf` a row are two bits or any of
`Values`. A scan finds any non-empty set of configurations, in the order of their names
(`Scans`). Closing the window calls `Stop` and ends
the program (`Gone`). `shown` and `edited` are history variables.

`ServersTakeTurns` maps this to `ServerControl`: the current server is the one that
the runtime holds or that `Stop` waits for, an error is untold while it is in the
`done` channel of its server or in `lastAsyncErr`, and it has been told when the
dashboard has shown it. Only the closing of the window may drop one.

### ConfigFiles, Cli

A configuration is a function over its fields. `network` and `connection` are
flattened, the behaviour is named by the profile whose default it is, and the four
blocks are reduced to the one thing that is checked about them, whether their
descriptions fit (`"descriptions"`). A file is absent, empty, garbage, or holds a
configuration as it was written. `ApplyDefaults`, `Valid`, `Loads` are
`applyDefaults`, `Validate`, `LoadConfig`.

`step[p]` in `Cli` is where a process is: in its scan or in the loading of the file
that `-config` names, at a menu, between the truncation and the writing of a file,
at the check or the prompt of the runtime menu, or waiting for the server. `cfg[p]`
is the configuration in hand, `valid[p]` what the scan found, which goes stale when
a file is written. `server[p]` is the server together with the one value of
`serverErr`. `author` and `late` are history variables: who wrote a file last and
whether to the end, and how many choices a process has carried out after it should
have ended. A process that has ended has no state, so launches are not bounded.

## 3. What the runs show

| Run | Instance | Shows |
|---|---|---|
| `server_table` | 2 connections, 2 places, 2 addresses, foreign units, malformed frames, resets and early redials, permanent accept errors, snapshots at any time, 2 messages | `TypeOK`, `NoStaleEntry`, `OwnCounts`, `WindowsAddUp` |
| `server_liveness` | 2 connections, 1 place, foreign units, permanent accept errors, no early address reuse, fairness | `LimitHolds`, `ServedIsListed`, the refinement `KeepsPromise`, `CancelStops`, `QueueIsServed`, `AnsweredOrCutOff`, `SilentPlaceIsFreed` |
| `requests` | coils of one byte and a half, holding registers that end at 65535, discrete inputs of more than one request, input registers from 65530 on that go on beyond 65535; reads, writes, unknown and cut-off requests, quantities at and beyond each limit, and those that would wrap the byte count | `TypeOK`, `RepliesFit`, `RefusedIffOutside`, `ReadBack`, `MapShowsWhatIsRead`, `ChangesAreNamed` |
| `store_atomic` | 2 handlers, 1 operator, a command and one report that repeats it, fairness | `TypeOK`, `ReportsAgree`, the refinement `IsAtomicBank`, `EveryCallReturns` |
| `drive_reports` | all six models with their default (Danfoss: shipped) maps and shipped blocks, four values, any one input register set by the operator between two writes | `TypeOK`, `CommandsKept`, `StatusFollowsCommand`, `EchoesAgree`, `StoppedIsStill`, `NumbersFit` |
| `drive_danfoss_default` | the default Danfoss map | **violated** `StatusFollowsCommand` |
| `hmi_safety` | 2 configurations, one with a register and one with a bit, 2 starts on one port, listen failures | `TypeOK`, `RestartFindsPortFree`, `StartIsClean`, `EditsAreKept`, `RefusedEditsChangeNothing` |
| `hmi_liveness` | 2 starts, listen and accept failures, a window that may be closed, fairness | `ErrorsAreShownOnce`, `StopReturns`, and the refinement `ServersTakeTurns` |
| `hmi_restart` | 2 starts, accept failures | **violated** `RestartFindsPortFree` |
| `hmi_stopped` | 1 start, a polling client, fairness | **violated** `StoppedServesNobody` |
| `cli` | 2 processes launched any number of times, killed at any time, on one file that is absent, sparse or refused at first; edits of the port, one of them refused; failing and interrupted writes; fairness | `TypeOK`, `WrittenLoadsBack`, `ServedIsValid`, `NoticedAtNextLine`, `ExitEnds` |
| `cli_choose_another` | the same | **violated** `ServedWasChosen` |

Deadlock is checked in all of them; `ModbusServer` has an explicit `Finished` step
for the state in which everything has ended.

### What the violations say

* With `DefaultDanfossFC302Behavior` the echo of process data word 3 overwrites the
  status word with the control word (`config.go:467`). The shipped file has a map
  that stops before it.
* After a permanent `Accept` error the listener is never closed
  (`server.go:112`), because the runtime drops the cancel function
  (`runtime.go:312-314`). A restart on the same port fails until the process ends.
* A stopped server goes on serving clients that keep polling: handlers do not look
  at the context between requests (`server.go:141`).
* With `-config`, the answer "Choose another config" serves a configuration that
  nobody chose: `resolveConfig` (`cmd/mockserver/main.go:72`) drops the result that
  says so and goes on with the empty `Config` that comes with it.

`ServedIsListed` is checked and proved for clients that do not dial again from the
address of a connection that they have reset before its handler has ended. With
such a redial it does not hold: the old handler's `connectionClosed(remoteAddr)`
deletes the new entry (`server.go:130`). What holds with redials too is
`NoStaleEntry`, and that a row counts what its own handler counted once the other
one has gone (`OwnCounts`).

### Bounds, and why they are enough

* `MaxInbox` is 1: the frames that a client has sent and the handler has not read. The
  handler takes a frame out before it works on it, so this gives "one being worked on,
  another waiting".
* Connections: the races are between the accept loop and a handler that ends. 2
  connections on 1 place give a full house, a connection that is turned away, and
  one that knocks between a handler's `Decrement` and its `CloseConn`, which is where
  `LimitHolds` and `KeepsPromise` are checked. `server_table` has 2 places, so that two
  handlers can share a row; identities
  return, so the number of connections over time is not bounded. With one place,
  the counter's check is wrong as soon as it is off by one. The proofs hold for any
  number of connections and places.
* `MaxMessages` is 2 in `server_table`: two handlers at work under one address, with a
  request each, is what can mix up a row, and a snapshot between the two is what can
  lose one from the windows. `OwnCounts` and `WindowsAddUp` are proved without it.
* `CommandValues` of the drives are `0, 34, 18103, 18104`: stop; reverse for the MS300,
  run for the others; the largest `lfr` for which the ATV320's power fits in 16 bits (for
  the MS300 a command to run forward), and the first for which the code's `uint16(...)`
  loses the upper bits (for the MS300 one to stop). No document of the repository says
  what should be reported there, so `NumbersFit` says what is: the exact value up to
  18103 and another one from 18104 on. The theorems have every value.
* `MaxOverrides` is 1 in the runs: any one of the reported input registers, between any
  two writes. That one override does not touch another register is all that a second one
  could show; the theorems have any number.
* `Requests` of the store is one set, the command, and `Reports` one report: a write is
  two steps in two registers then, and a reader that reads both can see half of it if the
  lock lets it. `DataStoreProofs` has any set of places.
* The requests of `MCModbusPDU` name addresses on both sides of both ends of the
  blocks, on both sides of the address 65535 and where the rows beyond it are
  numbered, and quantities on both sides of the limits. All six properties are proved for
  all requests.
* Two processes of `Cli` on one file: all that they share are the folder and the
  ports, and one process can be launched again and again, so that it meets the files
  of its predecessors. The port is typed because it is the field with both an upper
  and a lower end; the theorems hold for every field of the edit menu and any number
  of files and processes.
* `MaxStarts` is 2: a server, and its successor while the first may still be closing
  or has failed. The two configurations have a row each, so that the running server
  may or may not have the row that is edited, and the selection too.

### Fairness

Every goroutine that can take a step takes one: the Go scheduler. A handler that
reads always can, because the connection has a deadline (`SetDeadline`,
`server.go:142`). `Announce` of the store is strongly fair: the mutex inside
`RWMutex` hands itself to a caller that has waited for a millisecond. The ticker
is strongly fair because `fyne.Do` queues it with the operator's callbacks.
In `Hmi` all of it is up to the closing of the window: the goroutines of a program
that has ended owe nothing. In `Cli` the goroutine of the menu is fair where it does
not wait for a line, and the server's is fair in listening and in returning after a
signal. Clients, the operator, the owner of the context, snapshots, kills and the
calls that fail (`Failures`, `AcceptErrors`) are not fair.

## 4. What is proved

Eight modules hold the proofs. None assumes more than the named `ASSUME` of the
module it is about, except where a theorem says so.

**ModbusServerProofs.** `StateTypeOK` (everything but the counter) is inductive by
itself. Three more parts make the counter's invariant inductive: `QueueInv` (what
is in the queue has `pc = "queued"`, once), `HandInv` (at most one connection is in
the hand of the accept loop, and exactly while `serve` is `check` or `admit`), and
`CountInv` (the counter equals `Cardinality(Counted)`, and is *below* the limit
while the loop is about to add). The last one is the reason the two steps are safe:
only the loop raises the counter, handlers can only lower it in between. From them
follow `Typing` and `Limit`. `Table` strengthens nothing: an entry is written with
the address of its connection and deleted before the connection is given up.
`Listing` assumes `~AddressReuse` and needs `OwnAddress` (two live connections have
different addresses). `Implements` is the refinement: each
step is mapped to a step of `ClientLimit` or a stutter.

In the same module, for `ServerTraffic`: a step of the server beside its collector is a step of the
server, so `TrafficTable` has `NoStaleEntry` from `Table`. `Windows`
(`WindowsAddUp`) needs that the window which a snapshot has copied is still the
window when it begins a new one; the mutex that it holds in between is the reason.
`Rows` (`OwnCounts`) rests on two facts about the server: a connection that is known
to the kernel has an address and keeps it, and a handler that has no row yet has
recorded nothing. Then, whichever handler opens, counts into or deletes a row, the
row of a connection that is alone under its address is right or is not there.

**DataStoreProofs.** `IInv` is `TypeOK` with `LockOK` (a writer inside is alone, and
readers and writer are where the lock says), `CallOK` and `WorkOK` (what a caller has
read so far agrees with `committed`, what it has written so far is overlaid on
`committed`, what it has derived so far agrees with the commands), and `SettledOK`
(outside of a write, `mem` equals `committed` and the reports that are not
overridden follow). `Typing`, `Agreement` and the refinement `Atomic` follow for any
set of callers, any places and values and any function `Derive`.

**ModbusPDUProofs.** Lemmas about `InRange`, `Store` and `Fetch` (`InRangeIsExact`,
`StoreIsLocal`, `FetchOfStore`) and about the shape of requests lead to `Refusals`
and `Changes` for every data model, with blocks anywhere in the address space, and
every set of requests of any length. `Typing`, `Fits` and `WrittenIsRead` (`ReadBack`)
come from the invariant `Remembers`: what the last accepted write to a block named is
what the block holds there, and every answer has the length that its byte count tells.
They need that packing undoes unpacking, byte by byte, the unused bits of the last byte
being dropped. `MapIsTrue` (`MapShowsWhatIsRead`) has no hypothesis about the
blocks. `Config.Validate` (`config.go:191-227`) lets a block go on beyond address 65535, and
there the rows of the map are numbered from 0 again. `NoMeeting` says that numbers less than 65536 apart
are not numbered alike, so that `RowsOfRequest` holds: the rows with the numbers that a
request in range names show what it reads, and in a block of at most 65536 values there are
no other such rows. `RowsBeyond` says that a row with the number of a request that is
refused belongs to a register beyond the last address, and `NoWrap`, that rows up to there
have the number of their address, is why.

**DriveProofs.** The difficulty is the frame: a model sets up to fifty-three registers one
after the other, in two blocks, some of which may share an address. `Reports` says what
is read at *any* address after *any* list of reports; it is applied to each of the six
models with the register map of its configuration, where only the addresses have to be
compared. `Echoes` does the same for the chain of process data words. `EveryDrive`
collects this per drive: `Layout` (commands, status, echoes and computed reports lie at
registers of the configured blocks, and none of them on the status word) and `Tells`
(after a derivation commands are what they were, echoes repeat them, a stopped drive is
still, the status is that of the control word). `Derivation` compares two banks of the
same drive: the derived registers (`DerivedRegisters`) are a function of the other ones,
and those stay as they are. This is what `DataStore` takes the drive model for, its
`Derive`: what is proved there for any function holds for the seven that the code has.
The inductive invariant `DriveInv` is
`Tells` over time, restricted to the registers that are not in `overridden`, with the shape
of the bank, which no step changes. An override touches one register of the input block,
which joins `overridden`; commands lie in the holding block; and a write derives from the
commands alone, whatever was set by hand before. From it follow `Typing`, `KeptCommands`,
`AgreeingEchoes` and `Stillness` for all seven entries of the table, any values and any
number of overrides, `TruthfulStatus` for all but the Danfoss drive with the default map,
where it is false (`drive_danfoss_default`), and `FittingNumbers`, whose last part is that
the power of the ATV320 is exact precisely up to a reference of 18103.

**HmiProofs.** Two independent arguments, for any number of configurations, starts
and servers. `Pressable` (`StartIsClean`): `Queue` says that in the calls a callback
has left, `Start` can only be the first and has been pressed, and `SelectFirst`,
which enables the button unseen, is followed by `SyncState`; `Buttons` says that an
enabled button means that nothing is left of a server, or that `SyncState` is the
next call. `PortFreed` (`RestartFindsPortFree`): `Waits` says that what waits for a
server is a callback that can do nothing else; so at most one server has not
returned, the one that the runtime holds or the one that `Stop` waits for
(`RunInv`), and a server that has returned does not listen. It assumes that
`Accept` does not fail for good; `hmi_restart` shows what happens otherwise.

**ServerControlProofs.** `TakesTurns` is the refinement `ServersTakeTurns`, with every
failure allowed. On the invariants of `HmiProofs` it puts `ErrInv`: only the current
server has a result in its `done` channel, an error in `lastAsyncErr` means that no
server is left, and an error that was shown is in neither place. `Leaving` says that a
callback which closes the window stands at `Stop`, at its wait or at the end, so that
nothing else ever drops an error. Each step is then a step of `ServerControl` or a
stutter (`StepGood`).

**HmiEditProofs.** `HmiTyping` (`TypeOK`) goes by parts, the catalog, the servers and
the display, each with what the steps can do to it. `KeepsEdits` (`EditsAreKept`) rests
on `EditsInv`: every configuration of the catalog holds what its file held with the
edits that were made through the dashboard since the scan, and the runtime has a block
of its own only between a scan and the selection that the same callback makes next.
That there is such a selection is what `Queue` of `HmiProofs` says of a list of calls:
a scan is followed by `UpdateSelected` or `SelectFirst` (`Led`, `MayFollow`), and until
then nothing is edited. `Refused` (`RefusedEditsChangeNothing`) rests on `RowsInv` (the table
has the rows of the server, if there is one, or is about to be drawn) and `DialogInv`
(while the dialog is open nothing is called that scans, selects or starts, and a server
that is left has the row of the dialog). So whatever the selection takes, the server
takes too.

**CliProofs.** A `Good` configuration is valid and `Filled`: nothing is missing from
it, so `ApplyDefaults` leaves it alone. What is loaded and validated is good, the
default configuration is, and an edit that passes stays so, because no field that may
be typed can be emptied (`EditedIsGood`). `HandInv` carries that through the menus:
what is listed, in hand, written or served is good, or is the empty configuration.
`DiskInv` says that a file which the program wrote last holds a good configuration,
or is truncated while a process is at its writing; two processes at one file make it
"torn". `LateInv` says that a process which has carried out a choice too late is at
the check or at its end. From them follow `Typing`, `LoadsBack`, `Served` and
`Noticed`, for any number of processes, files and launches and every field.

Model-checked only: liveness under fairness (`CancelStops`, `QueueIsServed`,
`AnsweredOrCutOff`, `SilentPlaceIsFreed`, `EveryCallReturns`, `ErrorsAreShownOnce`, `StopReturns`,
`ExitEnds`), which is out of the prover's
reach, and the four properties that the code violates. Every invariant of a passing run
is proved.

## 5. What is not modelled, and why

* The log sink: one mutex around a slice that only grows, and copies of it. The paths
  of the project: a search in a fixed list. The build scripts.
* Formatting, the layout of the dashboard and its tables, the export of logs and
  tables: no state that another component reads.
* The dashboard's preferences: the folder that is stored before it is scanned, and
  read again at the next launch. A launch begins in `Hmi` with a folder that was
  scanned.
* What a reader of the standard input has read ahead when the next menu of the command
  line makes one of its own: the menus of `Cli` take one line at a time.
* The bytes and times of the traffic collector: bytes are counted with their messages,
  and whether the window is a second old is left open.
* The contents of the blocks in a configuration file, which are in `DriveDefaults` and
  `Blocks`, and the text of JSON.
* `parseRequest` beyond well-formed or not: it reads a header and a length, and any
  failure ends the connection.
* The drive model and the locking in one state space: `DataStore` has the locking with
  an arbitrary derivation, `Drive` the derivations with atomic calls. That each of them
  is a derivation as `DataStore` assumes it is proved (`Derivation`).
* The handlers of a server in `Hmi` and in `Cli`: one stands for all, or none;
  `ModbusServer` has them.

## 6. Plan

1. Done: server with its traffic, requests and register map, store, drives, runtime
   and dashboard, configuration files and command line; proofs of all their invariants
   and refinements.
2. The dashboard's restart with its stored folder, on the files of `ConfigFiles`.
