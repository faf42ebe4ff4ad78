# TLA+ models of speed (PCP MMV instrumentation for Go)

This directory holds TLA+ models of the Go sources in `src/`, checked with TLC.
All implementation code lives in `src/unnamed/part_000`, which contains:

- package `bytewriter`: `MemoryMappedWriter`;
- package `mmvdump`: the reader;
- package `speed`: `MetricType` and `PCPMetric`, with their tests.

`src/examples/` holds two example programs: `http_counter`, an HTTP server
that counts requests in an Int32 metric, and `runtime`, which publishes Go
runtime statistics every 500 ms. They are modelled by `HttpCounter` and
`RuntimeExample`. `spec.md` describes the whole
library. Much of that library (the client, registry, layout planner, string
table and hashing) is not under `src/`.

## The system

A process that publishes metrics, the **writer**, creates a file with
`NewMemoryMappedWriter` (lines 22-83). Creating the file takes three steps:

1. remove a stale file and create the new one with O_EXCL;
2. zero-fill it;
3. map it.

Each step can fail and return. Start then writes the following (spec.md 4.H,
code not under src/):

1. the header, with generation words G1 = G2 = 0;
2. the TOC entries and the sections;
3. G1, then G2, both set to a nonzero generation.

Stop zeroes the generation words, and `Unmap` (lines 86-104) removes the file.

Another process, the **reader**, maps the same file and calls `Dump` (lines
435-474) with no lock against the writer. `Dump` works in three stages:

- `readHeader` rejects a short region, a bad magic, and G1 ≠ G2.
- `readTocs` reads the TOC entries.
- `readComponents` starts one goroutine per TOC entry of a known type, and
  waits on a WaitGroup sized to *all* entries.

Each section reader (`readInstances`, `readMetrics` and the others) starts one
goroutine per record. Those goroutines share an `err` variable without a lock,
and add to a map under a mutex.

In the application, `PCPMetric.Set` (765-776) checks the type with
`MetricType.IsCompatible` (527-560). It then compares the new value with
`m.val` *without* the lock, and only if they differ takes the write lock and
stores. `Val` takes the read lock. The value cell of the file holds
`WriteVal`'s little-endian encoding (563-592). `FixedVal` (476-493) is how a
reader decodes it.

## Inventory

| Component | State | Operations | Hard behaviour |
|---|---|---|---|
| MemoryMappedWriter | file exists, length, mapping | create, zero-fill, map (each may fail), Unmap | partial failure leaves a file on disk |
| Writer/Stop (spec only) | header fields, TOC, sections, G1/G2 | write header, TOC, sections, publish G1 then G2, zero on Stop | ordering against a lock-free reader; crash mid-Start |
| mmvdump Dump | stage, WaitGroups, per-section err and map, named results | readHeader, readTocs, readComponents, section and record goroutines | goroutine interleaving, unlocked shared writes, uint64 wrap, negative counts, hang |
| MetricType | type enum | IsCompatible, WriteVal, FixedVal | integer width and sign at boundaries, 32- versus 64-bit builds |
| PCPMetric | val, RWMutex | NewPCPMetric, Set, Val | unlocked compare, lock fairness |
| Units, semantics, descriptors | constants | getters | none (not modelled) |
| http_counter example | metric, client file, handler goroutines | main's steps, handleIncrement (Val, v++, MustSet) | lost update, int32 wrap, type-assertion panic, exit without MustStop |
| runtime example | cells of two instance metrics, ticker channel, client file | main's steps, the tick loop, deferred ticker.Stop and MustStop, kill | torn snapshot, set after Stop, stale file without Process flag |

## Modules

| Module | Models | Lines |
|---|---|---|
| `MMVDump` | `Dump` with every goroutine. `stage` is the Dump goroutine. `wg` is readComponents' WaitGroup. `sec[i]` is TOC entry i's goroutine (pc, shared `err`, record map, its own WaitGroup). `rec[<<i,j>>]` is record goroutine j. `resMap` and `resErr` are readComponents' named results. `panicked` ends the process. Records are abstracted to their offsets. uint64 arithmetic is mod `UintWord`. | 118-474 |
| `MMVDumpSequential` | The abstract spec, from spec.md 4.J and 5: one sequential decode as a RECURSIVE operator `DecodeTocs`, in one step. | — |
| `MC_MMVDump` | Region layouts for TLC, built from real record lengths (40, 16, 32, 80, 104, 16, 256) with a 16-bit `UintWord`. | |
| `MMVFile` | Writer and reader composed over one region. Writer: create, zero-fill, map, the spec-modelled Start and Stop stores, Unmap, crash. Reader: Dump at the granularity of its loads from the live region, with one step per section. Restart: after a failure, crash or Stop, `wRestart` starts a new writer. Its `wCreate` removes the old file (lines 23-28, `Unlink`), and a reader that maps the removed file keeps reading its bytes (`rstale`, `rold`, `RView`). | 22-104, 128-474 |
| `MC_MMVFile` | A layout of three sections. | |
| `MetricValue` | IsCompatible, WriteVal and FixedVal over Go values `[kind, v]`, at scaled widths (W32 = 4, W64 = 8 bits). `IntBits` picks a 32- or 64-bit build. Actions are NewPCPMetric, Set and the client's cell write. | 476-592, 746-776 |
| `MC_MetricValue` | The boundary inputs of each Go kind, and the TestIsCompatible table. | 823-890 |
| `MetricRegister` | The abstract spec: a linearizable register with invoke, apply and return per goroutine. | — |
| `PCPMetric` | Set and Val on one metric, one action per code step. The RWMutex is modelled by its contract. A refinement mapping `OpOf` maps it to `MetricRegister`. With `WeakMemory` TRUE, `seen[g]` holds the values Set's unlocked read may return under the Go memory model: the value at g's last Lock or RLock, and every later store. | 738-776 |
| `PCPMetricRealTime` | PCPMetric with a history variable `overlapped`: for each call, the other goroutines that were in a call during it. | — |
| `HttpCounter` | `server.go`. Main is `mpc` (newMetric, newClient, register, start, listen, then wait), plus `listenFail` and `exit`. Each handler goroutine is `hpc[h]`: accept, then `assertPanic` or `handleVal` (Val and v++ into `hv[h]`), then `handleSet` (MustSet and the reply). `val` is the metric's `[kind, v]`. int32 is scaled to `W32` bits. Set is one step, as PCPMetric shows it linearizable. | 13-56 |
| `RuntimeExample`, `MC_RuntimeExample` | `runtime/main.go`. Main is `mpc`, through setup, client, start, ticker, then wait; on enter, the deferred `tickerStop` and then `stop`, then `exit`. `kill` is a signal. The loop goroutine is `lpc` and `k`: it receives a tick, then sets `UpdateOrder[1..K]` one per step. `cell[c]` is the number of the tick whose sample cell c holds. `ticker.C` holds at most one tick (`pending`). `PauseIndex` is the PauseNs/PauseEnd index of lines 108-109, with uint32 arithmetic at width `GCWidth`. | 12-118 |

Definitions follow the code's names. `PROJECT.json` "map" gives the lines of
each definition. The Start/Stop stores, the cell write and the TOC constants
are marked spec_modelled because their code is not under `src/`.

## Runs

| Run | Result | What it shows |
|---|---|---|
| `MC_MMVDump.cfg` | pass, 12,239 states | On 10 regions, concurrent Dump refines the sequential decode under every goroutine interleaving. The regions are well formed, truncated by one byte, short, bad magic, G1 ≠ G2, or declare ten TOC entries, whose array ends past the region, so readTocs returns Truncated. `DumpRefinesSequential` covers the result and termination, under WF. |
| `MC_MMVDump_duplicate_type.cfg` | violation of `DumpRefinesSequential` | Two entries of one type race on the named results. Dump returns success with the section nil, where the sequential decode returns Truncated. |
| `MC_MMVFile.cfg` | pass, 97,685 states | Under every interleaving of writer and reader, a Dump that returns a nonzero generation saw all TOC entries and every section written. The writer's steps may fail or crash. This holds across one writer restart: because the restart removes the file and creates a new one, a reader mid-Dump keeps the old file's bytes. The mutant `wCreateInPlace` reuses the file in place, and the reader then accepts a generation from the old file with the new file's empty TOC. |
| `MC_MMVFile_hang.cfg` | violation of `DumpTerminates` | A Dump during Start reads type-0 entries and hangs. This is the unknown-type hang, reached with the real writer. |
| `MC_MetricValue.cfg` | pass, 52,900 states | On a 32-bit build, every accepted value round-trips through WriteVal and FixedVal. |
| `MC_MetricValue_int64.cfg` | violation of `CellRoundTrip` | On a 64-bit build, IsCompatible admits ints that Int32 and Uint32 cannot hold (`uint32(v) <= MaxUint32` is always true). |
| `MC_PCPMetric.cfg` | pass, 84,022 states, about 2 min | With three goroutines and two values, Set (with its unlocked compare) and Val are linearizable under sequential consistency, and every call returns. |
| `MC_PCPMetric_weak_memory.cfg` (PCPMetricRealTime) | violation of `SetNotLost` | g1's Set(b) completes. Then g2, which has not synchronized with g1, calls Set(a). Its unlocked read sees the old a, so it returns nil without storing, and m.val stays b. The race at line 770 breaks linearizability. |
| `MC_HttpCounter.cfg` | pass, 4,895 states | `CounterNeverOvercounts`: whatever the interleaving of the two handlers, the counter is the int32 of a count no larger than the replies sent. Lost updates make it count fewer, never more. With `W32 = 4` and nine requests, eight increments wrap v++ to −8 = Int32(8), so the wrap of line 53 is inside the checked states. |
| `MC_HttpCounter_lost_update.cfg` | violation of `CounterMonotonic` | Both handlers read 0 and compute 1. One sets 1; the other's set is delayed. The first then serves a second request, reading 1 and setting 2. The delayed set of 1 lands and the counter goes from 2 back to 1. |
| `MC_RuntimeExample.cfg` | pass, 436 states | A reader sees the cells that lines 81-111 set from at most two consecutive ticks. `Lookups` is set by no line and stays outside this property; `EveryInstanceSet` below is about it. The earlier cells in the update order hold the newer tick. `PauseIndexIsLatest`: for every NumGC, including 0 and the uint32 wrap, the index `(NumGC+255)%256` at lines 108-109 is the slot of the latest collection. The runtime fills slot `NumGC%256` before incrementing NumGC. |
| `MC_RuntimeExample_shutdown_panic.cfg` | violation of `NoPanicAtShutdown` | A tick is buffered, then enter, then ticker.Stop. The loop receives the tick, MustStop runs, and MustSetInstance panics. |

### Further counterexamples

These configurations are on disk but are not among the runs in `PROJECT.json`.
Each checks one property and finds it violated. They show the same kind of
defect in other places, or defects in the example programs that have a simple
cause.

| Configuration | Result | What it shows |
|---|---|---|
| `MC_MMVDump_unknown_type.cfg` | violation of `DumpTerminates` | Dump hangs on a TOC entry of unknown type. |
| `MC_MMVDump_negative_count.cfg` | violation of `NoPanic` | A negative count panics. |
| `MC_MMVDump_wrapping_offset.cfg` | violation of `NoPanic` | An offset near 2^64 wraps past the bound check, and the slice index panics. |
| `MC_MMVFile_zero_generation.cfg` | violation of `DumpAcceptsOnlyPublished` | Dump accepts generation 0, against spec.md 3 and 8.2. |
| `MC_MetricValue_test_table.cfg` | violation of `IsCompatibleMatchesTest` | IsCompatible refuses floats and strings, which TestIsCompatible expects to be accepted. |
| `MC_HttpCounter_handler_panic.cfg` | violation of `NoHandlerPanic` | If the singleton metric stores the untyped 0 as an `int`, `Val().(int32)` panics on the first request. |
| `MC_HttpCounter_wrap.cfg` | violation of `CounterMonotonic` | After 2^(W32-1) - 1 requests, v++ wraps to the minimum. |
| `MC_RuntimeExample_stale_file.cfg` | violation of `StaleFileDetectable` | After a kill, the file stays published with no Process flag. |
| `MC_RuntimeExample_lookups.cfg` | violation of `EveryInstanceSet` | `Lookups` (line 39) is never set by lines 81-111 and reads 0. |

Each property of a pass run has a mutant in `PROJECT.json`: a plausible bug in
the mapped definition that TLC catches.

## Bounds

- **MMVDump.** TOCs hold up to two entries, and sections up to three records.
  That is enough for two record goroutines to race on `err`, and for two
  sections to race on the named results. Record lengths are the real ones.
  A 16-bit `UintWord` keeps wrapped offsets within TLC's integers, while the
  wrap still happens.
- **MMVFile.** Three sections, so a reader can stop between any two of them. `MaxRestarts = 1`: one new writer is enough for a reader to hold the old file while the new one is written.
  There are two Dumps, so one Dump can run before publication and one after.
  Partial zero-fill lengths are 0 and 39, one byte short of a header.
- **MetricValue.** The inputs of each Go kind are the values at the edges of
  every type's range (0, ±1, MaxInt32, MaxInt32+1, MaxUint32, MaxUint32+1,
  the minima), at scaled widths. Two metrics of any of the four integer types
  are chosen at Init.
- **PCPMetric.** Three goroutines are the fewest that let a Set wait for the
  lock while two Vals keep the read lock taken. Two values are the fewest for
  the unlocked compare to matter. Three values, including an incompatible
  one, take TLC more than 15 minutes. So the type-error branch of Set is
  checked only in MetricValue, not here.

- **PCPMetricRealTime.** Two goroutines and two values: the fewest for one Set to follow another with no synchronization between them.
- **HttpCounter.** Two handler goroutines, for the lost update. `W32 = 4`, so 7 sequential requests reach MaxInt32 and the eighth wraps; `MaxRequests = 9`. `InitialKinds = {"int", "int32"}`. NewPCPSingletonMetric is not under `src/`: it may keep the untyped 0 as an `int`, as NewPCPMetric does, or convert it as TestResolve expects. Both are checked.
- **RuntimeExample.** Four of the 27 `MustSetInstance` calls, in code order: the two cpu cells and two mem cells. The in-between calls differ only in the data. `Lookups` is an instance of the domain with no set. `MaxTicks = 3`, so a tick can be received, a second can be buffered, and a third dropped. `GCWidth = 12` stands for NumGC's 32 bits. Like 2^32, 2^12 is a multiple of the 256-entry ring, so the wrap behaves the same. All 4,096 values are checked.

## Fairness

- `MMVDump`: WF on `Next`. The Go scheduler eventually runs every runnable
  goroutine.
- `MMVFile`: WF on the writer's Start steps and on the reader's steps. There is
  none on Stop or on a restart, which are the application's choice, and none on crash.
- `PCPMetric`: WF on every step, plus SF on `Lock` and `RLock`. Go's
  `sync.RWMutex` blocks new readers once a writer is pending, and its
  starvation mode hands the mutex to a waiter after 1 ms. So a goroutine that
  is enabled infinitely often gets the lock. Lock is called and acquired in
  one step (`setLock`), so RLocks wait from Set's unlocked compare on, not
  from its Lock call. That drops only the orders where a Val takes the read
  lock between the two, and such a Val reads the value from before that Set,
  as it would if it ran before the compare.

- `HttpCounter`, `RuntimeExample`: none. Their properties are safety properties, and main waits on stdin for as long as the user likes.

## Not modelled, and why

- **Float and string values in WriteVal and FixedVal.** These are IEEE
  conversions, outside TLC's integers. IsCompatible refuses them anyway.
- **Units, semantics, descriptors and getters (595-735, 779-820).** These are
  constants and bit packing, with no state change.
- **The registry, hashing, string table and layout planner (spec.md 4.C-4.G).**
  They are not under `src/`.
- **Weak-memory effects of the unsynchronized read of `err` at 221.** MMVDump
  takes memory as sequentially consistent there. The read of `m.val` at 770 is
  modelled by `WeakMemory`. Torn reads of the two-word interface value are
  not modelled.
- **The client the examples call** (NewPCPClient, MustRegister, MustStart,
  MustStop, MustSetInstance, NewPCPSingletonMetric). It is not under `src/`.
  Its effects on the file follow spec.md 3 and 6.
- **TestMemoryMappedWriter** (lines 119-180 of `src/examples/runtime/main.go`,
  a bytewriter test). It runs NewMemoryMappedWriter, WriteString, a read and
  Unmap in one goroutine. MMVFile models the same writer steps against a
  concurrent reader.
- **TestResolve.** It calls a `resolve()` that does not exist.

## Plan for later work

- The spec.md 3 ordering variant (G1 written before content), to set against
  4.H.
- A registry module, with concurrent registration against Start.
- A cheaper PCPMetric configuration that includes an incompatible value.
- A pass run for the bytewriter test (`runtime/main.go` 119-180). It would
  check that a test run with no failing system call passes, even after an
  earlier run was killed and left its temporary file.
- A weak-memory variant of the unlocked `err` read in MMVDump (line 221), on
  the model of `WeakMemory` in PCPMetric.
