----------------------------- MODULE PQoSAlloc ------------------------------
(***************************************************************************)
(* The allocation methods of the Go bindings                               *)
(* (src/lib/go/pqos/allocation.go): L3/L2 cache allocation with the CDP    *)
(* union, the minimum CBM queries, memory bandwidth allocation, and the    *)
(* association of cores and PIDs with classes of service, composed with    *)
(* the handle lifecycle.                                                   *)
(*                                                                         *)
(* Each method holds p.mu for its whole body, so each call is one step.    *)
(* The Go integers are narrowed by plain conversions (C.uint(x),           *)
(* C.pid_t(pid)) that keep the low bits: ToCUint and ToCPid model them     *)
(* with a scaled width, CUintMod standing for 2^32.                        *)
(*                                                                         *)
(* libpqos keeps the COS tables and the associations; it lives outside     *)
(* src/ and is modelled from spec.md (sections 6 and 8) as a collaborator  *)
(* that stores what it accepts and rejects what it does not support.       *)
(***************************************************************************)
EXTENDS PQoSLifecycle, Integers, Sequences, FiniteSets

CONSTANTS
  NumClasses,   \* classes of service libpqos reports
  GoUints,      \* uint arguments callers pass: class IDs, core IDs
  CUintMod,     \* 2^32, scaled: the range of C.uint
  Cores,        \* logical cores libpqos knows
  Masks,        \* way masks callers pass
  FullMask,     \* the all-ways mask a class has after reset
  MaxCos,       \* bound: entries in one L3CASet/L2CASet call
  CDPLevels,    \* the levels whose hardware may run with CDP enabled
  GoPids,       \* int PIDs callers pass
  Tasks,        \* the tasks that exist, as C pid_t values
  MBMaxes,      \* MBMax percentages callers pass to MBASet
  MBLevels,     \* the bandwidth levels the hardware can apply (percent)
  MBFull        \* 100 percent, the level after reset

Classes == 0..(NumClasses - 1)
Levels == {"L3", "L2"}

ASSUME Classes \subseteq GoUints /\ Cores \subseteq GoUints

\* C.uint(x): the low bits of a Go uint.
ToCUint(x) == x % CUintMod

\* C.pid_t(pid): the low bits of a Go int, read as a signed C int.
ToCPid(x) ==
  LET low == x % CUintMod
  IN  IF low >= CUintMod \div 2 THEN low - CUintMod ELSE low

(***************************************************************************)
(* The Go L3CA / L2CA record and the C pqos_l3ca / pqos_l2ca struct.       *)
(* The C union u is two words: ways_mask overlays code_mask (u[1]), and    *)
(* data_mask is u[2].                                                      *)
(***************************************************************************)
GoCA(id, cdp, ways, code, data) ==
  [ClassID |-> id, CDP |-> cdp, WaysMask |-> ways, CodeMask |-> code, DataMask |-> data]

\* What callers pass: a unified mask, or a code/data pair.
Requests ==
  { GoCA(id, FALSE, m, 0, 0) : id \in GoUints, m \in Masks }
    \union { GoCA(id, TRUE, 0, c, d) : id \in GoUints, c, d \in Masks }

\* Mutant: code and data passed to set_l3ca_cdp_masks in swapped order.
ToCSwapped(ca) ==
  [class_id |-> ToCUint(ca.ClassID),
   cdp |-> IF ca.CDP THEN 1 ELSE 0,
   u |-> IF ca.CDP THEN <<ca.DataMask, ca.CodeMask>> ELSE <<ca.WaysMask, 0>>]

\* L3CASet's conversion loop body (allocation.go:125-132): cCos is fresh
\* from make, so the word the unified case leaves alone is 0.
ToC(ca) ==
  [class_id |-> ToCUint(ca.ClassID),
   cdp |-> IF ca.CDP THEN 1 ELSE 0,
   u |-> IF ca.CDP THEN <<ca.CodeMask, ca.DataMask>> ELSE <<ca.WaysMask, 0>>]

\* L3CAGet's conversion loop body (allocation.go:175-185): the union is
\* read through the cdp discriminant.
FromC(c) ==
  IF c.cdp # 0 THEN GoCA(c.class_id, TRUE, 0, c.u[1], c.u[2])
  ELSE GoCA(c.class_id, FALSE, c.u[1], 0, 0)

\* The code and data masks a Go record asks for.
Effective(ca) ==
  IF ca.CDP THEN <<ca.CodeMask, ca.DataMask>> ELSE <<ca.WaysMask, ca.WaysMask>>

VARIABLES
  cdpOn,      \* cdpOn[lv]: CDP is enabled for the level (fixed by pqos_init)
  cat,        \* cat[lv][k]: libpqos's table entry of class k, [cdp, u]
  assoc,      \* assoc[c]: the class core c is associated with
  want,       \* history: want[lv][id], the masks the last accepted Set gave Go class id
  wantAssoc,  \* history: wantAssoc[l], the class the caller last gave Go core l
  taskAssoc,  \* taskAssoc[t]: the class task t is associated with
  wantPid,    \* history: wantPid[pid], the class the caller last gave Go PID pid
  mba,        \* mba[k]: the bandwidth level libpqos applies to class k
  wantMba,    \* history: wantMba[id], the MBMax the last MBASet returned for class id
  allocRet    \* the allocation method last called: argument, error and value

allocVars == <<cdpOn, cat, assoc, want, wantAssoc, taskAssoc, wantPid, mba, wantMba, allocRet>>
vars == <<lifeVars, allocVars>>

\* How libpqos stores an accepted entry: with CDP enabled a unified mask
\* becomes equal code and data masks.
Stored(on, c) ==
  IF on THEN [cdp |-> 1, u |-> IF c.cdp = 1 THEN c.u ELSE <<c.u[1], c.u[1]>>]
  ELSE [cdp |-> 0, u |-> <<c.u[1], 0>>]

Default(on) == Stored(on, [class_id |-> 0, cdp |-> 0, u |-> <<FullMask, 0>>])

Init ==
  /\ LifeInit
  /\ cdpOn \in [Levels -> BOOLEAN]
  /\ \A lv \in Levels : cdpOn[lv] => lv \in CDPLevels
  /\ cat = [lv \in Levels |-> [k \in Classes |-> Default(cdpOn[lv])]]
  /\ assoc = [c \in Cores |-> 0]
  /\ want = [lv \in Levels |-> [id \in GoUints |-> <<FullMask, FullMask>>]]
  /\ wantAssoc = [l \in GoUints |-> 0]
  /\ taskAssoc = [t \in Tasks |-> 0]
  /\ wantPid = [pid \in GoPids |-> 0]
  /\ mba = [k \in Classes |-> MBFull]
  /\ wantMba = [id \in GoUints |-> MBFull]
  /\ allocRet = [op |-> "None", arg |-> 0, err |-> NoErr, val |-> 0]

\* Only the argument of AllocAssocGet and AllocAssocGetPID is kept: no
\* property reads the others.
AllocReturn(op, arg, err, val) ==
  allocRet' = [op |-> op, arg |-> IF op \in {"AllocAssocGet", "AllocAssocGetPID"} THEN arg ELSE 0,
               err |-> err, val |-> val]

\* A return that changes nothing but the result.
Answer(op, arg, err, val) ==
  AllocReturn(op, arg, err, val)
  /\ UNCHANGED <<cdpOn, cat, assoc, want, wantAssoc, taskAssoc, wantPid, mba, wantMba>>

Fails(op, arg, err) == Answer(op, arg, err, 0)

\* Every method begins with `if !p.initialized { return ErrNotInitialized }`.
NotInit(op, arg) == ~initialized /\ Fails(op, arg, "ErrNotInitialized")

(***************************************************************************)
(* libpqos, from spec.md 6: every call fails while it is not initialized.  *)
(* pqos_l3ca_set / pqos_l2ca_set accept a batch when every class exists    *)
(* and a code/data pair is only given with CDP enabled, and then write the *)
(* entries in order; they change nothing otherwise.                        *)
(***************************************************************************)
PqosCAAccepts(lv, cs) ==
  /\ native = "init"
  /\ \A i \in DOMAIN cs : cs[i].class_id \in Classes /\ (cs[i].cdp = 1 => cdpOn[lv])

RECURSIVE PqosCAWrite(_, _, _)
PqosCAWrite(tbl, on, cs) ==
  IF cs = <<>> THEN tbl
  ELSE PqosCAWrite([tbl EXCEPT ![Head(cs).class_id] = Stored(on, Head(cs))], on, Tail(cs))

\* pqos_l3ca_get / pqos_l2ca_get: every class, when max_num_cos holds them.
PqosCAGet(lv) ==
  [i \in 1..NumClasses |-> [class_id |-> i - 1, cdp |-> cat[lv][i - 1].cdp, u |-> cat[lv][i - 1].u]]

(***************************************************************************)
(* L3CASet / L2CASet (allocation.go:110-141, 216-247)                      *)
(***************************************************************************)
RECURSIVE WantWrite(_, _)
WantWrite(w, cos) ==
  IF cos = <<>> THEN w
  ELSE WantWrite([w EXCEPT ![Head(cos).ClassID] = Effective(Head(cos))], Tail(cos))

CASet(lv, cos) ==
  LET op == lv \o "CASet"
      cCos == [i \in DOMAIN cos |-> ToC(cos[i])]
  IN
  \/ NotInit(op, cos)
  \/ /\ initialized
     /\ cos = <<>>
     /\ Fails(op, cos, "ErrParam")
  \/ /\ initialized
     /\ cos # <<>>
     /\ IF PqosCAAccepts(lv, cCos)
          THEN /\ cat' = [cat EXCEPT ![lv] = PqosCAWrite(cat[lv], cdpOn[lv], cCos)]
               /\ want' = [want EXCEPT ![lv] = WantWrite(want[lv], cos)]
               /\ AllocReturn(op, cos, NoErr, 0)
               /\ UNCHANGED <<cdpOn, assoc, wantAssoc, taskAssoc, wantPid, mba, wantMba>>
          ELSE Fails(op, cos, "ErrLib")

L3CASet(cos) == CASet("L3", cos)
L2CASet(cos) == CASet("L2", cos)

(***************************************************************************)
(* L3CAGet / L2CAGet (allocation.go:150-189, 256-295)                      *)
(***************************************************************************)
CAGet(lv, maxNumCOS) ==
  LET op == lv \o "CAGet" IN
  \/ NotInit(op, maxNumCOS)
  \/ /\ initialized
     /\ maxNumCOS = 0
     /\ Fails(op, maxNumCOS, "ErrParam")
  \/ /\ initialized
     /\ maxNumCOS > 0
     /\ IF native = "init" /\ maxNumCOS >= NumClasses
          THEN LET cCos == PqosCAGet(lv)
               IN Answer(op, maxNumCOS, NoErr, [i \in DOMAIN cCos |-> FromC(cCos[i])])
          ELSE Fails(op, maxNumCOS, "ErrLib")

L3CAGet(maxNumCOS) == CAGet("L3", maxNumCOS)
L2CAGet(maxNumCOS) == CAGet("L2", maxNumCOS)

\* L3CAGetMinCBMBits / L2CAGetMinCBMBits (allocation.go:192-207, 298-313).
MinCBMBits(lv) ==
  LET op == lv \o "CAGetMinCBMBits" IN
  \/ NotInit(op, 0)
  \/ initialized /\ native = "init" /\ \E bits \in 1..2 : Answer(op, 0, NoErr, bits)
  \/ initialized /\ native = "uninit" /\ Fails(op, 0, "ErrLib")

L3CAGetMinCBMBits == MinCBMBits("L3")
L2CAGetMinCBMBits == MinCBMBits("L2")

(***************************************************************************)
(* Memory bandwidth allocation.  pqos_mba_set accepts a batch when every   *)
(* class exists, every mb_max is a percentage (1..100) and no entry asks   *)
(* for the MBA controller (ctrl) or SMBA: pqos_init runs with the          *)
(* controller off, as the Go Config has no field for it, and the platform  *)
(* modelled has no SMBA.  It applies each entry at a level the hardware    *)
(* supports, which spec.md does not fix, and reports it as actual.         *)
(* pqos_mba_get reports every class when max_num_cos holds them.           *)
(***************************************************************************)
GoMBA(id, mb, ctrl, smba) == [ClassID |-> id, MBMax |-> mb, Ctrl |-> ctrl, SMBA |-> smba]

MBARequests == {GoMBA(id, mb, c, s) : id \in GoUints, mb \in MBMaxes, c, s \in BOOLEAN}

\* MBASet's conversion loop body (allocation.go:338-349).
ToCMBA(m) ==
  [class_id |-> ToCUint(m.ClassID), mb_max |-> ToCUint(m.MBMax),
   ctrl |-> IF m.Ctrl THEN 1 ELSE 0, smba |-> IF m.SMBA THEN 1 ELSE 0]

\* Mutant: class_id and mb_max read into each other's field.
FromCMBASwapped(c) == GoMBA(c.mb_max, c.class_id, c.ctrl # 0, c.smba # 0)

\* The loops that read pqos_mba records back (allocation.go:357-362, 397-402).
FromCMBA(c) == GoMBA(c.class_id, c.mb_max, c.ctrl # 0, c.smba # 0)

PqosMBAAccepts(cs) ==
  /\ native = "init"
  /\ \A i \in DOMAIN cs : /\ cs[i].class_id \in Classes /\ cs[i].mb_max \in 1..MBFull
                          /\ cs[i].ctrl = 0 /\ cs[i].smba = 0

\* The batches pqos_mba_set may report as actual for cs: the same entries
\* with applied levels; the table is then written in order.
PqosMBAActuals(cs) ==
  {a \in [DOMAIN cs -> [class_id : Classes, mb_max : MBLevels, ctrl : {0}, smba : {0}]] :
     \A i \in DOMAIN cs : a[i].class_id = cs[i].class_id}

RECURSIVE PqosMBAWrite(_, _)
PqosMBAWrite(tbl, as) ==
  IF as = <<>> THEN tbl
  ELSE PqosMBAWrite([tbl EXCEPT ![Head(as).class_id] = Head(as).mb_max], Tail(as))

RECURSIVE WantMBAWrite(_, _)
WantMBAWrite(w, rs) ==
  IF rs = <<>> THEN w
  ELSE WantMBAWrite([w EXCEPT ![Head(rs).ClassID] = Head(rs).MBMax], Tail(rs))

\* Mutant: the result built from the request instead of from cActual.
MBASetEchoRequested(requested, actual) == [i \in DOMAIN requested |-> requested[i]]

\* MBASet's result (allocation.go:356-362): the actual entries, in Go.
MBAResult(requested, actual) == [i \in DOMAIN actual |-> FromCMBA(actual[i])]

\* MBASet (allocation.go:322-365); the returned slice is kept in wantMba.
MBASet(requested) ==
  LET cRequested == [i \in DOMAIN requested |-> ToCMBA(requested[i])] IN
  \/ NotInit("MBASet", 0)
  \/ initialized /\ requested = <<>> /\ Fails("MBASet", 0, "ErrParam")
  \/ /\ initialized
     /\ requested # <<>>
     /\ IF PqosMBAAccepts(cRequested)
          THEN \E cActual \in PqosMBAActuals(cRequested) :
                 /\ mba' = PqosMBAWrite(mba, cActual)
                 /\ wantMba' = WantMBAWrite(wantMba, MBAResult(requested, cActual))
                 /\ AllocReturn("MBASet", 0, NoErr, 0)
                 /\ UNCHANGED <<cdpOn, cat, assoc, want, wantAssoc, taskAssoc, wantPid>>
          ELSE Fails("MBASet", 0, "ErrLib")

\* MBAGet (allocation.go:375-405)
MBAGet(maxNumCOS) ==
  \/ NotInit("MBAGet", maxNumCOS)
  \/ initialized /\ maxNumCOS = 0 /\ Fails("MBAGet", maxNumCOS, "ErrParam")
  \/ /\ initialized
     /\ maxNumCOS > 0
     /\ IF native = "init" /\ maxNumCOS >= NumClasses
          THEN Answer("MBAGet", maxNumCOS, NoErr,
                      [i \in 1..NumClasses |->
                         FromCMBA([class_id |-> i - 1, mb_max |-> mba[i - 1], ctrl |-> 0, smba |-> 0])])
          ELSE Fails("MBAGet", maxNumCOS, "ErrLib")

(***************************************************************************)
(* libpqos association, from spec.md 8 (a class of service applies to a    *)
(* set of cores): pqos_alloc_assoc_set/get need a known core and class;    *)
(* pqos_alloc_assign picks a class other than 0 that no core and no task   *)
(* uses, and fails when there is none; pqos_alloc_release moves cores      *)
(* back to 0; pqos_alloc_reset moves every core and task to 0 and          *)
(* restores every table.  The _pid variants do the same for tasks and      *)
(* fail for a PID no task has.                                             *)
(***************************************************************************)
PqosAssocOK(c, k) == native = "init" /\ c \in Cores /\ k \in Classes

FreeClasses ==
  {k \in Classes \ {0} : (\A c \in Cores : assoc[c] # k) /\ (\A t \in Tasks : taskAssoc[t] # k)}

CPids(pids) == {ToCPid(pid) : pid \in pids}

CCores(ls) == {ToCUint(l) : l \in ls}

\* Mutant: pqos_alloc_assoc_set called with core and class swapped.
AllocAssocSetSwapped(lcore, classID) ==
  \/ NotInit("AllocAssocSet", <<lcore, classID>>)
  \/ /\ initialized
     /\ IF PqosAssocOK(ToCUint(classID), ToCUint(lcore))
          THEN /\ assoc' = [assoc EXCEPT ![ToCUint(classID)] = ToCUint(lcore)]
               /\ wantAssoc' = [wantAssoc EXCEPT ![lcore] = classID]
               /\ AllocReturn("AllocAssocSet", <<lcore, classID>>, NoErr, 0)
               /\ UNCHANGED <<cdpOn, cat, want, taskAssoc, wantPid, mba, wantMba>>
          ELSE Fails("AllocAssocSet", <<lcore, classID>>, "ErrLib")

\* AllocAssocSet (allocation.go:415-429)
AllocAssocSet(lcore, classID) ==
  \/ NotInit("AllocAssocSet", <<lcore, classID>>)
  \/ /\ initialized
     /\ IF PqosAssocOK(ToCUint(lcore), ToCUint(classID))
          THEN /\ assoc' = [assoc EXCEPT ![ToCUint(lcore)] = ToCUint(classID)]
               /\ wantAssoc' = [wantAssoc EXCEPT ![lcore] = classID]
               /\ AllocReturn("AllocAssocSet", <<lcore, classID>>, NoErr, 0)
               /\ UNCHANGED <<cdpOn, cat, want, taskAssoc, wantPid, mba, wantMba>>
          ELSE Fails("AllocAssocSet", <<lcore, classID>>, "ErrLib")

\* AllocAssocGet (allocation.go:437-452)
AllocAssocGet(lcore) ==
  \/ NotInit("AllocAssocGet", lcore)
  \/ /\ initialized
     /\ IF native = "init" /\ ToCUint(lcore) \in Cores
          THEN Answer("AllocAssocGet", lcore, NoErr, assoc[ToCUint(lcore)])
          ELSE Fails("AllocAssocGet", lcore, "ErrLib")

\* AllocAssign (allocation.go:507-532); technology is L3CA.
AllocAssign(cores) ==
  \/ NotInit("AllocAssign", cores)
  \/ initialized /\ cores = {} /\ Fails("AllocAssign", cores, "ErrParam")
  \/ /\ initialized
     /\ cores # {}
     /\ IF native = "init" /\ CCores(cores) \subseteq Cores /\ FreeClasses # {}
          THEN \E k \in FreeClasses :
                 /\ assoc' = [c \in Cores |-> IF c \in CCores(cores) THEN k ELSE assoc[c]]
                 /\ wantAssoc' = [l \in GoUints |-> IF l \in cores THEN k ELSE wantAssoc[l]]
                 /\ AllocReturn("AllocAssign", cores, NoErr, k)
                 /\ UNCHANGED <<cdpOn, cat, want, taskAssoc, wantPid, mba, wantMba>>
          ELSE Fails("AllocAssign", cores, "ErrLib")

\* AllocRelease (allocation.go:540-564)
AllocRelease(cores) ==
  \/ NotInit("AllocRelease", cores)
  \/ initialized /\ cores = {} /\ Fails("AllocRelease", cores, "ErrParam")
  \/ /\ initialized
     /\ cores # {}
     /\ IF native = "init" /\ CCores(cores) \subseteq Cores
          THEN /\ assoc' = [c \in Cores |-> IF c \in CCores(cores) THEN 0 ELSE assoc[c]]
               /\ wantAssoc' = [l \in GoUints |-> IF l \in cores THEN 0 ELSE wantAssoc[l]]
               /\ AllocReturn("AllocRelease", cores, NoErr, 0)
               /\ UNCHANGED <<cdpOn, cat, want, taskAssoc, wantPid, mba, wantMba>>
          ELSE Fails("AllocRelease", cores, "ErrLib")

\* AllocReset (allocation.go:633-648): PQOS_REQUIRE_CDP_ANY keeps each
\* level's CDP setting.
AllocReset ==
  \/ NotInit("AllocReset", 0)
  \/ /\ initialized
     /\ IF native = "init"
          THEN /\ cat' = [lv \in Levels |-> [k \in Classes |-> Default(cdpOn[lv])]]
               /\ assoc' = [c \in Cores |-> 0]
               /\ want' = [lv \in Levels |-> [id \in GoUints |-> <<FullMask, FullMask>>]]
               /\ wantAssoc' = [l \in GoUints |-> 0]
               /\ taskAssoc' = [t \in Tasks |-> 0]
               /\ wantPid' = [pid \in GoPids |-> 0]
               /\ mba' = [k \in Classes |-> MBFull]
               /\ wantMba' = [id \in GoUints |-> MBFull]
               /\ AllocReturn("AllocReset", 0, NoErr, 0)
               /\ UNCHANGED cdpOn
          ELSE Fails("AllocReset", 0, "ErrLib")

\* AllocAssocSetPID (allocation.go:461-476)
AllocAssocSetPID(pid, classID) ==
  \/ NotInit("AllocAssocSetPID", <<pid, classID>>)
  \/ /\ initialized
     /\ IF native = "init" /\ ToCPid(pid) \in Tasks /\ ToCUint(classID) \in Classes
          THEN /\ taskAssoc' = [taskAssoc EXCEPT ![ToCPid(pid)] = ToCUint(classID)]
               /\ wantPid' = [wantPid EXCEPT ![pid] = classID]
               /\ AllocReturn("AllocAssocSetPID", <<pid, classID>>, NoErr, 0)
               /\ UNCHANGED <<cdpOn, cat, assoc, want, wantAssoc, mba, wantMba>>
          ELSE Fails("AllocAssocSetPID", <<pid, classID>>, "ErrLib")

\* AllocAssocGetPID (allocation.go:483-498)
AllocAssocGetPID(pid) ==
  \/ NotInit("AllocAssocGetPID", pid)
  \/ /\ initialized
     /\ IF native = "init" /\ ToCPid(pid) \in Tasks
          THEN Answer("AllocAssocGetPID", pid, NoErr, taskAssoc[ToCPid(pid)])
          ELSE Fails("AllocAssocGetPID", pid, "ErrLib")

\* AllocAssignPID (allocation.go:573-598); technology is L3CA.
AllocAssignPID(pids) ==
  \/ NotInit("AllocAssignPID", pids)
  \/ initialized /\ pids = {} /\ Fails("AllocAssignPID", pids, "ErrParam")
  \/ /\ initialized
     /\ pids # {}
     /\ IF native = "init" /\ CPids(pids) \subseteq Tasks /\ FreeClasses # {}
          THEN \E k \in FreeClasses :
                 /\ taskAssoc' = [t \in Tasks |-> IF t \in CPids(pids) THEN k ELSE taskAssoc[t]]
                 /\ wantPid' = [pid \in GoPids |-> IF pid \in pids THEN k ELSE wantPid[pid]]
                 /\ AllocReturn("AllocAssignPID", pids, NoErr, k)
                 /\ UNCHANGED <<cdpOn, cat, assoc, want, wantAssoc, mba, wantMba>>
          ELSE Fails("AllocAssignPID", pids, "ErrLib")

\* AllocReleasePID (allocation.go:606-630)
AllocReleasePID(pids) ==
  \/ NotInit("AllocReleasePID", pids)
  \/ initialized /\ pids = {} /\ Fails("AllocReleasePID", pids, "ErrParam")
  \/ /\ initialized
     /\ pids # {}
     /\ IF native = "init" /\ CPids(pids) \subseteq Tasks
          THEN /\ taskAssoc' = [t \in Tasks |-> IF t \in CPids(pids) THEN 0 ELSE taskAssoc[t]]
               /\ wantPid' = [pid \in GoPids |-> IF pid \in pids THEN 0 ELSE wantPid[pid]]
               /\ AllocReturn("AllocReleasePID", pids, NoErr, 0)
               /\ UNCHANGED <<cdpOn, cat, assoc, want, wantAssoc, mba, wantMba>>
          ELSE Fails("AllocReleasePID", pids, "ErrLib")

(***************************************************************************)
(* The composition: lifecycle steps leave the allocation state alone; the  *)
(* allocation methods leave the lifecycle alone.                           *)
(***************************************************************************)
Batches == UNION {[1..n -> Requests] : n \in 0..MaxCos}
MBABatches == UNION {[1..n -> MBARequests] : n \in 0..MaxCos}

LifeStep(g) ==
  /\ \/ GetInstance(g) \/ PQoSInit(g) \/ PQoSFini(g)
     \/ IsInitialized(g) \/ GetInterface(g)
  /\ UNCHANGED allocVars

AllocStep ==
  /\ \/ \E cos \in Batches : L3CASet(cos) \/ L2CASet(cos)
     \/ \E n \in 0..NumClasses : L3CAGet(n) \/ L2CAGet(n)
     \/ L3CAGetMinCBMBits \/ L2CAGetMinCBMBits
     \/ \E ms \in MBABatches : MBASet(ms)
     \/ \E n \in 0..NumClasses : MBAGet(n)
     \/ \E l, k \in GoUints : AllocAssocSet(l, k)
     \/ \E l \in GoUints : AllocAssocGet(l)
     \/ \E ls \in SUBSET GoUints : AllocAssign(ls) \/ AllocRelease(ls)
     \/ AllocReset
     \/ \E pid \in GoPids, k \in GoUints : AllocAssocSetPID(pid, k)
     \/ \E pid \in GoPids : AllocAssocGetPID(pid)
     \/ \E pids \in SUBSET GoPids : AllocAssignPID(pids) \/ AllocReleasePID(pids)
  /\ UNCHANGED lifeVars

Next ==
  \/ \E g \in Goroutines : LifeStep(g)
  \/ AllocStep

Spec == Init /\ [][Next]_vars

(***************************************************************************)
(* Properties                                                              *)
(***************************************************************************)

TypeOK ==
  /\ LifeTypeOK
  /\ cdpOn \in [Levels -> BOOLEAN]
  /\ cat \in [Levels -> [Classes -> [cdp : {0, 1}, u : (Masks \union {0, FullMask}) \X (Masks \union {0, FullMask})]]]
  /\ assoc \in [Cores -> Classes]
  /\ taskAssoc \in [Tasks -> Classes]
  /\ mba \in [Classes -> MBLevels]
  /\ wantMba \in [GoUints -> MBLevels]
  /\ allocRet.err \in {NoErr, "ErrNotInitialized", "ErrParam", "ErrLib"}

\* Every entry an L3CAGet / L2CAGet returns, read back through the CDP
\* discriminant of the C union, asks for the code and data masks the last
\* accepted L3CASet / L2CASet gave that class (or the reset masks): the
\* tagged variant of spec.md 8 survives the round trip through libpqos.
CATRoundTrip ==
  (allocRet.op \in {"L3CAGet", "L2CAGet"} /\ allocRet.err = NoErr) =>
    LET lv == IF allocRet.op = "L3CAGet" THEN "L3" ELSE "L2"
        got == allocRet.val
    IN \A i \in DOMAIN got : Effective(got[i]) = want[lv][got[i].ClassID]

\* AllocAssocGet(lcore) returns the class the caller last gave that core
\* through AllocAssocSet, AllocAssign, AllocRelease or AllocReset, and
\* AllocAssocGetPID(pid) the class last given to that PID through the _PID
\* variants or AllocReset.
AssocRoundTrip ==
  /\ (allocRet.op = "AllocAssocGet" /\ allocRet.err = NoErr) =>
       allocRet.val = wantAssoc[allocRet.arg]
  /\ (allocRet.op = "AllocAssocGetPID" /\ allocRet.err = NoErr) =>
       allocRet.val = wantPid[allocRet.arg]

\* Every entry an MBAGet returns has the bandwidth the last accepted
\* MBASet returned as applied to that class (100 percent after a reset):
\* what MBASet hands back is what libpqos applied, whatever level the
\* hardware chose for the request.
MBARoundTrip ==
  (allocRet.op = "MBAGet" /\ allocRet.err = NoErr) =>
    \A i \in DOMAIN allocRet.val :
      LET got == allocRet.val[i]
      IN  got.MBMax = wantMba[got.ClassID]
=============================================================================
