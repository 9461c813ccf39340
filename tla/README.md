# TLA+ models of the PQoS Go bindings

This directory holds TLA+ models of the Go bindings for Intel RDT PQoS
(`src/lib/go/pqos`), the TLC configurations that check them, and
`PROJECT.json`, which lists the components, the runs, the mutants, the
map from each definition to the lines it models, the findings and the
hazards.

## 1. Inventory

### The system

The bindings wrap `libpqos`, a C library. They live outside this repository's
`src/` tree, and the spec (spec.md section 6) describes them. Every
hardware-touching method of the Go type `PQoS` follows the same pattern:

1. `p.mu.Lock(); defer p.mu.Unlock()`.
2. Return `ErrNotInitialized` unless `p.initialized` is set.
3. Check the Go arguments, for example an empty slice.
4. Make one C call.
5. Copy the C result into Go values.

The methods never call each other, and each holds the lock for its whole
body. So the bodies of the methods are serialised. The interesting
behaviour comes from three sources:

- sequences of calls: `Init` → `Fini` → `Init`, stop then poll, remove every PID;
- state that outlives the lock: `MonData` and `Capability` values that callers
  keep and read without the lock;
- what `libpqos` does on failure.

| Component | Source | State it keeps | Operations |
|---|---|---|---|
| PQoS handle lifecycle | `pqos.go` | `instance`, `instanceOnce`; `p.initialized`; `initOnce`, `initErr` (package-wide) | `GetInstance`, `Init`, `Fini`, `IsInitialized`, `GetInterface` |
| Monitoring groups | `monitoring.go` | per group: the C `pqos_mon_data` (owned by libpqos) and its Go mirror `MonData` (`Valid`, `Event`, `Values`, `Cores`, `PIDs`, `group` pointer) | `MonStartCores`, `MonStartPIDs`, `MonAddPIDs`, `MonRemovePIDs`, `MonStop`, `MonPoll`, `MonReset`, `MonAssocGet`; unlocked readers `GetIPC`, `GetLLCMissRate`, `Get*Bandwidth` |
| Capability discovery | `capability.go` | `Capability{cap, cpu}`: pointers into memory that libpqos owns | `GetCapability` (locked); `GetL3CA`, `GetL2CA`, `GetMBA`, `GetMon`, `Has*` (not locked) |
| CPU topology queries | `cpuinfo.go` | `CPUInfo`: a Go copy of the core list | `GetCPUInfo`; pure queries `GetNumSockets`, `GetCoresBy*`, `Get*IDs`, `FindCore`, `GetL2/L3CacheSize` |
| Allocation | `allocation.go` | none in Go: COS tables and core/PID→COS association live in libpqos | `L3CASet/Get`, `L2CASet/Get`, `MBASet/Get`, `AllocAssocSet/Get(PID)`, `AllocAssign/Release(PID)`, `AllocReset`, `*GetMinCBMBits` |
| libpqos (collaborator) | outside `src/` (spec.md 4, 6) | init state; groups; COS tables | `pqos_init`, `pqos_fini`, `pqos_mon_*`, `pqos_cap_get`, `pqos_alloc_*`, ... |
| Examples, tests | `examples/*`, `pqos_test.go` | none | display programs; unit tests |

### How the components interact

- All components share the one `PQoS` value, its mutex and `p.initialized`.
- A `MonData` or `Capability` is handed to the caller and used later,
  possibly by other goroutines, with no lock and no initialization check.
  A `MonData` keeps a pointer into libpqos until `MonStop` clears it. A
  `Capability` keeps its pointers for ever.
- `Fini` ends the process-wide library.

### What is hard

- **Lifecycle sequences.** `initOnce` makes `pqos_init` run once per process.
  But `Fini` only clears `p.initialized`, so after `Fini` a second `Init`
  marks the instance initialized without initializing the library.
- **Objects that outlive their owner.** A `MonData` survives `Fini`,
  `MonReset` and a `MonStop` made by another caller. A `Capability`
  survives `Fini`.
- **Partial failure.** `pqos_mon_poll` reads a batch of groups, and one
  read may fail while the others succeed.
- **Copies that skip empty lists.** `updateMonDataFromC` copies the PID and
  core lists only when they are not empty.
- **Data races.** The `MonData` getters read `Values` without the lock while
  `MonPoll` rewrites it. `GetIPC` tests the denominator and then reads it
  again.
- **Order of results.** The `Get*IDs` queries return IDs in Go map
  iteration order.

### What makes each component correct

- **Lifecycle.**
  - Every `Init` reports the result of the one `pqos_init`.
  - The bindings never say "initialized" while libpqos is not.
- **Monitoring.**
  - libpqos is never handed a freed group.
  - After a successful poll, each `MonData` equals its C group.
  - A `MonData` is valid only while its library is initialized.
  - The PID list mirrors the C list.
  - One failed read in a batch does not hide the others.
  - Readers see a consistent snapshot (spec.md 5).
- **Capability.** No accessor reads library memory after `Fini`.
- **CPU topology.** Each query equals its set-theoretic definition, and the
  ID lists hold no duplicates.
- **Allocation.** A `Get` after a `Set` returns the masks that were set,
  with the CDP union read through the same discriminant. Assign and release
  keep the association consistent.

## 2. Plan

Most important first:

1. `PQoSLifecycle` *(done)*: `Init`, `Fini`, `IsInitialized` and
   `GetInterface` by several goroutines, with libpqos init and fini.
2. `PQoSMon` *(done)*: extends `PQoSLifecycle` with the group methods and
   the C-to-Go copies.
3. `MonReader` *(done)*: one `MonPoll` writer against unlocked `GetIPC` and
   `GetLLCMissRate` readers, the struct copy and the reads split into steps.
   The spec's promise ("readers see a consistent, possibly-stale snapshot",
   spec.md 5) is stated directly as `SnapshotConsistent` over the window of
   snapshots published during the call. A refinement of an atomic-publish
   specification would need a prophecy of which snapshot a reader will
   return, and says no more than this invariant.
4. `PQoSCapability` *(done)*: extends `PQoSLifecycle` with `GetCapability`
   and the unlocked accessors, and makes `p.mu` explicit. Properties: no
   access to library-owned memory after `pqos_fini`; every call returns
   under Go's mutex fairness.
5. `CPUInfo` *(done)*: the pure queries as operators over bounded core
   lists, checked against reference definitions.
6. `PQoSAlloc` *(done)*: CAT with the CDP union round trip, the
   minimum CBM queries, core association (`AllocAssocSet/Get`,
   `AllocAssign`, `AllocRelease`, `AllocReset`) and the Go-to-C integer
   narrowing; the PID variants *(done)* with the signed `pid_t`
   narrowing; `MBASet`/`MBAGet` *(done)* with the applied levels libpqos
   reports.
   `MonReset` and `MonAssocGet` *(done)* are in `PQoSMon`, with libpqos's
   core-to-RMID binding.
7. Overflow *(settled)*: `PQoSMon` models it as a per-group read outcome
   of `pqos_mon_poll`. `PolledMirror` requires the Go copy on
   PQOS_RETVAL_OVERFLOW as on OK; a copy skipped on overflow, like on the
   other errors, is caught at once. The Go `MonData` has no per-event
   overflow flag, so spec.md 4.1's flagging of a wrapped delta has nothing
   in the code to correspond to, and the bindings return one batch-wide
   error.

## 3. Modules and how they correspond to the code

### `PQoSLifecycle` (pqos.go)

Variables:

| Variable | Models |
|---|---|
| `instance` | `instanceOnce` has run |
| `initialized` | `p.initialized` |
| `initOnceDone` | `initOnce` has run |
| `initErr` | the package variable `initErr` |
| `native` | whether libpqos is initialized |
| `ret[g]` | the method goroutine `g` returned from last, and its result (the error kinds of `retvalToError`, without text) |

Actions:

- `GetInstance(g)`, `PQoSInit(g)`, `PQoSFini(g)`, `IsInitialized(g)` and
  `GetInterface(g)` are one atomic step each, because each method holds
  `p.mu` for its whole body.
- `InitOnceDo` is the body of `initOnce.Do`.

`PqosInit`, `PqosFiniOK` and `PqosInterGetOK` are the libpqos side, taken
from spec.md 6:

- init fails when hardware or privileges are missing, and when the library
  is already initialized;
- teardown may fail, and then leaves the library as it was;
- other calls fail when the library is not initialized.

### `PQoSCapability` (capability.go, `GetCPUInfo` of cpuinfo.go), extends `PQoSLifecycle`

This module composes the lifecycle methods with capability discovery. It
splits every locked method into its two real steps: `p.mu.Lock()`
(`Acquire`), then the body with the deferred `Unlock` (`Body`). The body of
a lifecycle method is the `PQoSLifecycle` action itself (`LifeBody`).

| Variable | Code |
|---|---|
| `holder` | the goroutine holding `p.mu` |
| `pc[g]`, `call[g]` | where goroutine `g` is (idle, blocked in `Lock`, in a body, or at an accessor's next read of libpqos memory) and in which method |
| `capOf[g]` | the `Capability` `g` holds: none, a zero `Capability{}`, or one returned by `GetCapability` |
| `freedRead` | history: an accessor has read libpqos memory after `pqos_fini` |

The accessors have no lock and no initialization check:

- `CallAccessor` is the `c.cap == nil` (or `c.cpu == nil`) check. It reads
  only the Go value, so it is part of the call step.
- `CapGetType` is `pqos_cap_get_type`. A `Has*` method returns here, and a
  `Get*` method returns here on an error.
- `CopyOut` is the `get_*_cap` helper with its nil check, and the copy of
  the fields, events or cores.

Each of these reads of libpqos memory is its own step, so `Fini` of
another goroutine can fall between them. The values an accessor returns
are not recorded: only which memory it reads matters to the properties.
On freed memory a read's outcome is any of the possible ones, because the
build does not define it.

libpqos side (`CapTablesLive`, `PqosCapGetOK`, `CapGetTypeOK`, marked
spec_modelled): `pqos_cap_get` hands out pointers to the library's own
tables. Those tables live from a successful `pqos_init` to a successful
`pqos_fini`. This is libpqos's ownership rule; spec.md 6 only names
`queryCapabilities`.

### `PQoSMon` (monitoring.go), extends `PQoSLifecycle`

`Groups` are model values. Each one is a C group and the `MonData` made
from it, since a MonData is made from exactly one C group.

`cgrp[m]` is the C struct:

| Field | Meaning |
|---|---|
| `state` | `"unused"`, `"live"` (the valid marker is set) or `"freed"` (after `pqos_mon_stop`) |
| `kind` | the target kind |
| `cores`, `pids` | the target sets |
| `reads` | the event values, abstracted to the number of counter reads |

`mon[m]` is the Go `MonData`: `made`, `bound` (`group != nil`), `Valid`,
`Cores`, `PIDs`, `values`.

`Cores` are the core IDs libpqos knows, as C uints. `GoCores` are the Go
`uint` IDs a caller may pass. `ToCUint` is `C.uint(...)` at the scaled width
`CUintMod`, and `CCores` is the loop of `MonStartCores` that builds the C
core array with it (monitoring.go:108-112). libpqos counts the narrowed
cores, while `cMonDataToGo` copies them back into `MonData.Cores`.

`rmid[c]` is libpqos's binding of core `c`: a group, or `RMID0`. It is
spec_modelled as follows:

- starting a core group binds its cores, and is refused for a core
  another group monitors;
- stopping a group binds its cores back to `RMID0`;
- `pqos_mon_reset` binds every core to `RMID0` and leaves the group structs
  alone.

Actions:

- `MonStart` (cores or PIDs), `MonAddPIDs`, `MonRemovePIDs`, `MonStop` and
  `MonPoll` follow the code's order: init check, Go argument checks (for
  `MonPoll`, every group of the batch before any C call), the libpqos call,
  then `cMonDataToGo` / `updateMonDataFromC`.
- Every error path is a disjunct that returns before the C call, or after
  it with nothing changed.
- `MonPoll` takes its batch as a Go slice `B` of up to `MaxBatch` groups.
  The code does not reject a repeat, and libpqos reads an entry once per
  time the slice names it (`Entries`). `Batch(B)` is the set of groups the
  slice names. A poll that would take a group past `MaxPolls` reads is
  not taken (`PollBounded`).
- `MonPoll` takes a per-entry outcome (`ok`, `ovf`, `err`), following
  spec.md 4.2. It returns an error if any read failed, else OVERFLOW if
  one overflowed.
- `MonReset` (init check, then `pqos_mon_reset`) and `MonAssocGet` (init
  check, then `pqos_mon_assoc_get`) touch no `MonData`.
- The lifecycle steps leave the groups alone. `pqos_fini` does not free C
  groups, and `Fini` does not touch any `MonData`.

There are two history variables:

- `freedUse` records that libpqos was handed a freed group while
  initialized.
- `polled` records the batch, the groups read and the result of the step,
  if that step was a `MonPoll`.

### `MonReader` (monitoring.go: `updateMonDataFromC`, `GetIPC`, `GetLLCMissRate`)

Only the four delta fields the getters read are kept, as a function
`values` from field name to a value of `Vals`.

| Variable | Models |
|---|---|
| `values` | `MonData.Values` as stored in memory |
| `hist` | history: the snapshots `MonPoll` has begun to publish |
| `pending` | the fields of the newest snapshot not yet stored |
| `pc[r]`, `get[r]` | where reader `r` is, in which getter |
| `den1[r]`, `num[r]` | the loads the getter made |
| `res[r]` | the `float64` it returned: 0.0, a ratio, +Inf or NaN |
| `lo[r]` | history: the newest complete snapshot when `r` called |

Actions:

- `MonPollBegin` is a poll under `p.mu`: libpqos produces any snapshot.
- `StoreField` is one store of the `group.Values = EventValues{...}`
  assignment, in any order. The reader holds no lock, so nothing orders its
  loads against these stores.
- `Call`, `LoadDen` (the zero check), `LoadNum` and `Divide2` are the
  getter. Under the race the compiler may reload the denominator for the
  division or reuse the first load, so `Divide2` takes either.

### `CPUInfo` (cpuinfo.go)

`cpu` is the C `pqos_cpuinfo` a `Capability` points to (or nil), `info` the
Go `CPUInfo` the caller holds, `answer` the last call and its result.

- `Init` takes every topology of up to `MaxCores` cores with distinct
  logical IDs, in any order. Each core has a socket and an L2 cluster, and
  the L3, CAT and MBA domains and the NUMA node follow the socket.
- `GetCPUInfo` is the whole method: the nil check, then the copy, with the
  core loop as the RECURSIVE `CopyCores`.
- Each query is an action over `info`. `CoresWith`, `IDMap` and
  `FindIndex` are the loops of the code. The `Get*IDs` queries return the
  map's keys in any order (`SetToSeqs`), since Go's map iteration order is
  unspecified.
- The properties compare each answer with a definition over the C list:
  `SelectSeq`, `SelectInSeq`, `ToSet`, `IsInjective`.

### `PQoSAlloc` (allocation.go), extends `PQoSLifecycle`

| Variable | Models |
|---|---|
| `cdpOn[lv]` | whether CDP is enabled at level `lv` (fixed by `pqos_init`) |
| `cat[lv][k]` | libpqos's entry for class `k`: `cdp` and the two union words `u` |
| `assoc[c]` | the class core `c` is associated with |
| `taskAssoc[t]` | the class task `t` (a C `pid_t`) is associated with |
| `mba[k]` | the bandwidth level libpqos applies to class `k` |
| `want`, `wantAssoc`, `wantPid` | history: what the caller last asked for, keyed by the Go ID or PID it passed |
| `wantMba` | history: the `MBMax` the last `MBASet` returned for each class |
| `allocRet` | the last allocation call, its error and its value |

- `ToC` and `FromC` are the conversion loops of `L3CASet` and `L3CAGet`.
  The union is two words: `ways_mask` overlays `code_mask`, and
  `data_mask` is the second word.
- `ToCUint` is `C.uint(x)`. It keeps the low bits, with `CUintMod`
  standing for 2^32.
- `ToCPid` is `C.pid_t(pid)`. It keeps the same low bits, read as a signed
  value.
- The libpqos side is taken from spec.md 6 and 8:
  - it stores accepted entries, turning a unified mask into equal
    code/data masks when CDP is on;
  - it rejects unknown classes, and a code/data pair when CDP is off;
  - `pqos_alloc_assign` and `pqos_alloc_assign_pid` pick a class other
    than 0 that no core and no task uses;
  - the `_pid` calls fail for a PID that no task has;
  - `pqos_mba_set` accepts percentages 1..100 for known classes, but no
    `Ctrl` entry, because the Go `Config` has no field to enable the MBA
    controller. It rejects `SMBA` entries too, because the modelled
    platform has no SMBA. It applies some level the hardware supports
    (`MBLevels`), which spec.md does not fix, and reports that level as
    actual;
  - `pqos_alloc_reset` with `PQOS_MBA_ANY` brings every class back to
    100 percent.
- `ToCMBA` and `FromCMBA` are `MBASet`'s conversion loop and the loops
  that read `pqos_mba` records back. `MBAResult` is `MBASet`'s result,
  built from `cActual`.
- One goroutine: the methods are serialised by `p.mu`.

## 4. Runs

| Run | Module / cfg | Expect | What it shows |
|---|---|---|---|
| `lifecycle_safety` | `MC_PQoSCapability` / `PQoSCapability.cfg` | pass | Two goroutines make any interleaving of the lifecycle methods, `GetCapability` and the accessors, with `p.mu` explicit. Every `Init` reports the outcome of the one `pqos_init`, including after `Fini` and after a failed first init (`InitAgreement`). Under the fairness below, every call returns: a goroutine blocked in `Lock` gets the mutex (`CallsReturn`). About 465k distinct states, 2 min. |
| `capability_after_fini` | `MC_PQoSCapability` / `PQoSCapabilityAfterFini.cfg` | violation | `Init`, `GetCapability`, `Fini`, then `GetL3CA` on the same `Capability` reads the tables `pqos_fini` released (`NoFreedCapRead`). |
| `reinit_after_fini` | `MC_PQoSLifecycle` / `PQoSLifecycleReinit.cfg` | violation | `GetInstance`, `Init`, `Fini`, `Init`: the second `Init` returns nil and `IsInitialized` is true, while libpqos is finalized (`NativeInitWhenInitialized`). |
| `monitoring_safety` | `MC_PQoSMon` / `PQoSMon.cfg` | pass | Every sequence of group calls (including `MonReset` and `MonAssocGet`) mixed with `Init`/`Fini`: no freed group reaches libpqos (`NoFreedGroupUse`). After `MonPoll` returns nil or the overflow error, every group of the batch mirrors its C group (`PolledMirror`). Every core libpqos counts for a group, whatever `C.uint` made of the caller's core IDs, is listed in the bound `MonData.Cores` (`CountedCoresReported`). About 159k distinct states (under the view below), 1 min. |
| `valid_after_teardown` | `MC_PQoSMon` / `PQoSMonFiniValid.cfg` | violation | Start a group, then `Fini`, and the `MonData` is still `Valid`. Start a core group, then `MonReset`, and the same happens: its cores are unbound, yet the `MonData` is still `Valid` (`ValidOnlyWhileCounting`). TLC reports the first path, the shorter one; no run isolates the second. |
| `remove_all_pids_stale` | `MC_PQoSMon` / `PQoSMonRemoveAllPids.cfg` | violation | Start a PID group, then remove all its PIDs: `MonData.PIDs` keeps them. |
| `partial_poll_discarded` | `MC_PQoSMon` / `PQoSMonPartialPoll.cfg` | violation | Poll the slice `[m1, m2]` where the read of `m1` fails: the new values of `m2` stay in C only. |
| `topology_queries` | `MC_CPUInfo` / `CPUInfo.cfg` | pass | For every topology of up to 3 cores, each query answers exactly for the C core list (`CoreQueriesExact`). Each `Get*IDs` call lists every ID once, in some order, and the counts match (`IDQueriesExact`). About 52k distinct states. |
| `alloc_round_trip` | `MC_PQoSAlloc` / `PQoSAlloc.cfg` | pass | IDs fit a C uint, and allocation calls are mixed with `Init`/`Fini`. `L3CAGet`/`L2CAGet` read back, through the CDP discriminant, the masks last set (`CATRoundTrip`). `AllocAssocGet` returns the class last given to the core, and `AllocAssocGetPID` the class last given to the PID (`AssocRoundTrip`). `MBAGet` returns, for each class, the level the last `MBASet` reported as applied, or 100 percent after `AllocReset` (`MBARoundTrip`). About 184k distinct states (under the view below), 2 min. |
| `alloc_narrowing` | `MC_PQoSAlloc` / `PQoSAllocNarrow.cfg` | violation | With an ID of 2^32+1 (5 at the scaled width 4), `AllocAssocGet` reads core 1's class. With the core IDs in range, PID 5 reads task 1's class. |
| `getter_quiescent` | `MC_MonReader` / `MonReader.cfg` | pass | A getter call that no poll overlaps returns the stored snapshot's ratio, or exactly 0.0 on a zero denominator (`QuiescentReadExact`). About 123k distinct states. |
| `getter_torn_read` | `MC_MonReader` / `MonReaderTorn.cfg` | violation | A getter racing a poll returns a value of no published snapshot, for example a new numerator over an old denominator, or +Inf after passing the zero check (`SnapshotConsistent`). |

Each property of a passing run has a mutant in `PROJECT.json`: a plausible
bug in the mapped definition that TLC must catch.

| Mutant | The plausible bug |
|---|---|
| `GetCapabilityLeakingLock` | `GetCapability` unlocks by hand and misses its error paths |
| `InitIgnoringErr` | the cached `initErr` is ignored |
| `FiniReturningInitErr` | `Fini` returns `initErr` |
| `FromCMBASwapped` | the MBA read-back loops fill `ClassID` and `MBMax` from each other's field |
| `MBASetEchoRequested` | `MBASet` builds its result from the request, not from `cActual` |
| `MonStopKeepsGroup` | `group.group` is not cleared |
| `MonPollUpdateFirst` | the Go copy is made before the poll |
| `MonStartReportsGoCores` | `MonStartCores` fills `MonData.Cores` from the Go argument instead of the C group |
| `CopyCoresShort` | the core copy loop stops one core early |
| `CacheSizeIgnoringDetected` | the cache size is returned for an undetected cache |
| `IDsPerCore` | the IDs are appended per core, with no map |
| `ToCSwapped` | code and data are passed to `set_l3ca_cdp_masks` swapped |
| `AllocAssocSetSwapped` | core and class are passed to `pqos_alloc_assoc_set` swapped |
| `LoadDenNoCheck` | the getter drops the zero check |

### Bounds and why they are enough

- **Lifecycle and capability.** Two goroutines, and no other bound: the
  state space is finite. Two goroutines are enough for one to race an
  accessor or a blocked `Lock` against the other's `Fini`. A third adds no
  new interleaving of the single mutex, but does multiply the liveness
  graph. Capability types `{L3CA, MBA}`, with only L3CA reported, give both
  outcomes of `pqos_cap_get_type`.
  `reinit_after_fini` uses `MC_PQoSLifecycle`: three goroutines, atomic
  methods and symmetry.
- **Monitoring.**
  - One goroutine: the methods are serialised by `p.mu`, so more callers add
    no interleavings of the method bodies.
  - Two groups, so a batch can mix a stopped and a live group, or a failed
    and a read group.
  - Two cores, so core groups can overlap (and be refused), and `MonReset`
    unbinds several. The Go core IDs are {0, 1, 4}, and `CUintMod = 4`
    scales 2^32, so 4 is narrowed to core 0. Cores are not symmetric,
    since the narrowing tells 0 apart.
  - `MaxBatch = 2`, so a slice can name one group twice, or two groups.
  - Two PIDs, so removing some PIDs differs from removing all.
  - `MaxPolls = 2` reads per group, so a failed poll can follow a successful
    one. A poll that would exceed it is not modelled.
- Groups and PIDs are symmetric model values.
- **Readers.** One reader goroutine: readers share nothing but the
  `MonData`, so one shows every interleaving of a getter with the poller.
  `Vals = {0, 1}` gives a zero and a non-zero delta, enough for a
  denominator to turn zero between the check and the division, and
  `MaxPolls = 2` lets a call span two polls.

- **Topology.** Up to 3 cores with logical IDs from {0, 1, 2} and
  socket/L2 IDs from {0, 1}. A query can then match none, some or all
  cores, and a socket can hold two L2 clusters.
- **Allocation.**
  - Two classes, two cores, and Go IDs {0, 1, 2}. The ID 2 is an unknown
    class, and an unknown core, to libpqos.
  - Masks {1, 3} with full mask 3, so a code/data pair can differ.
  - One entry per Set call: the entries of a batch go through the same
    loop body.
  - CDP may be on only at L3 (`CDPLevels`). L2 uses the same conversion
    operators, and allowing both multiplies the state space by 16.
  - `CUintMod = 4` scales 2^32, and `PQoSAllocNarrow.cfg` adds the ID 5.
  - One task (PID 1). The Go PIDs are {-1, 1}: -1 belongs to no task, so
    the `_pid` error paths occur. The narrowing run adds PID 5.
  - `MBMax` values {0, 3} with levels {2, 3} and 100 percent scaled to 3.
    0 is rejected by libpqos. 3 may be applied as 2, so the applied level
    can differ from the request. `Ctrl` and `SMBA` take both values.

### Views

`monitoring_safety` and `alloc_round_trip` fingerprint states by a `VIEW`
(`MonView`, `AllocView`). The view keeps everything a guard or a property
of the run reads, and drops the rest:

- **`MonView`** drops `monRet`. `monRet` is the result of the last group
  call, and nothing reads it.
- **`AllocView`** drops `ret`, the lifecycle result, because no guard and
  no property of the run reads it. Its type is checked in
  `lifecycle_safety`.
- **`AllocView`** keeps `allocRet` whole only after a getter, since the
  round-trip properties read it only then. After any other call it keeps
  only the error, which `TypeOK` reads.

States equal under the view therefore have the same successors and satisfy
the same properties. The view cuts `monitoring_safety` from 779k to 110k
states. This made room for a second core, the
Go core IDs that narrow, and batches as slices (159k states with all of
them).

### Fairness

`PQoSCapability.Spec` assumes, for each goroutine:

- **Strong fairness on `Acquire`.** The mutex is only intermittently free.
  Go's `sync.Mutex` switches to starvation mode, handing the lock over in
  FIFO order, once a waiter has been blocked for more than 1 ms. So a
  goroutine blocked in `Lock` is not overtaken forever.
- **Weak fairness on `Body` and on the accessor steps.** A running
  goroutine is not descheduled forever: the Go scheduler preempts, it does
  not starve.

Making a call is left to the caller and is not fair. The other modules
check safety only: their methods are atomic steps, and the getters never
wait.

## 5. Findings

1. **Re-initialization after `Fini` is silently accepted**
   (`pqos.go:142-174`, run `reinit_after_fini`). It contradicts the `Fini`
   comment and spec.md 9. `pqos_test.go` runs this very sequence, since each
   test calls `Fini` and the next one calls `Init`.
2. **`Fini` and `MonReset` leave `MonData` valid** (`pqos.go:196`,
   `monitoring.go:326`, run `valid_after_teardown`). spec.md 5 says
   teardown invalidates all groups. spec.md 4.2 says reset wipes the
   registry, and callers must re-create their groups. Yet after
   `MonReset`, a core group's `MonData` stays `Valid` and can still be
   polled, while its cores count for RMID0.
3. **`MonData.PIDs` is stale after removing every PID**
   (`monitoring.go:457`, run `remove_all_pids_stale`). This assumes libpqos
   accepts removing the last PID; spec.md does not forbid it.
4. **A partly failed `MonPoll` discards the groups that were read**
   (`monitoring.go:309`, run `partial_poll_discarded`). spec.md 4.2 expects
   per-group results.
5. **The unlocked getters read a half-written snapshot**
   (`monitoring.go:487`, run `getter_torn_read`). spec.md 5 allows
   lock-free readers only through immutable snapshot replacement, and
   spec.md 7 says the rates are exactly 0.0 on a zero denominator.
6. **IDs are narrowed to C types without a check** (`allocation.go:423`,
   run `alloc_narrowing`). Every allocation method converts Go `uint`/`int`
   arguments with `C.uint(...)` or `C.pid_t(...)`. An ID of 2^32 or more
   silently acts on another core, class, cluster or PID, and the call
   returns nil.
7. **A `Capability` is read after `Fini`** (`capability.go:206`, run
   `capability_after_fini`). The accessors dereference libpqos's own tables
   without the lock or an initialization check. A `Capability` kept across
   `Fini` reads freed memory, whether `Fini` runs in the same goroutine or
   races an accessor in another. spec.md 5 allows lock-free readers only
   through immutable snapshots, and a `Capability` is a view of library
   memory, not a copy.

## 6. Not modelled, and why

- **Formatting and conversion helpers** carry no state:
  - `retvalToError`, `InterfaceToString`, `VerbosityToString`,
    `CapTypeToString`, `MonEventToString`, `VendorToString`;
  - `safeCString`, `freeCString`;
  - the cgo helpers.

  Errors are modelled as kinds.
- **`Event` and the individual `EventValues` fields** are abstracted to one
  read count in `PQoSMon`. No property there tells the fields apart.
  `MonReader` keeps the four fields the getters read.
- **The example programs** are sequential display code.
- **libpqos internals**: MSR/resctrl I/O, mask validation and topology
  detection. spec.md 1 puts them out of scope.
- **`VendorToString`** is formatting only.
- **The MBA controller and SMBA**: `Ctrl` requests are modelled as
  rejected, since the bindings never enable the controller. SMBA, a second
  table on platforms that have it, is left out. Its Go code is the same
  conversion as for MBA, and `SMBA` requests are rejected.
- **The MBA, L3 cluster and L2 cluster IDs** (`mbaID`, `l3CatID`, `l2ID`):
  one cluster of each is modelled. The IDs pass through `C.uint` like the
  class IDs.
- **PID narrowing in the monitoring calls**: PIDs are model values in
  `PQoSMon`. The same `C.pid_t` conversion is modelled and checked in
  `PQoSAlloc` (`alloc_narrowing`). Core narrowing is modelled in both.
- **The single-field getters** `GetLLCOccupancy`, `GetMBMLocalBandwidth`,
  `GetMBMTotalBandwidth`, `GetMBMRemoteBandwidth` (monitoring.go:464-482):
  each is one unlocked load of one field, so it cannot mix two snapshots.
  Adding their fields to `MonReader`'s snapshots would multiply its state
  space for no new interleaving; `GetIPC` and `GetLLCMissRate` stand for
  the unlocked reads.
- **An abstract group lifecycle with a refinement.** The only state below
  the bindings' group calls is libpqos, which lies outside `src/` and is
  modelled from spec.md. A refinement of libpqos's group table to a
  lifecycle written from the same spec would hold by construction, and
  spec.md 5 and 4.2 (teardown and reset invalidate every group) are what
  the code breaks, shown by `valid_after_teardown`. The stale-pointer
  case such a refinement would catch is `NoFreedGroupUse`.
- **A count of `pqos_init` calls.** That `initOnce` runs its function once
  is Go's `sync.Once`, not code of the bindings. What the bindings make of
  it is checked: every `Init` reports the one result (`InitAgreement`), and
  `Init` after `Fini` does not run `pqos_init` again (`reinit_after_fini`).
- **The interval a delta covers.** Values are a read count, so a slice
  that names a group twice is read twice, but the short delta the second
  read leaves in the `MonData` is not told apart.
- **A type invariant for `MonReader`.** Every variable there ranges over
  a fixed finite set by construction, and no change to the getters' code
  can take one outside it; the run checks `QuiescentReadExact` only.
