------------------------------ MODULE PQoSMon ------------------------------
(***************************************************************************)
(* Monitoring groups of the Go bindings (src/lib/go/pqos/monitoring.go)    *)
(* composed with the lifecycle of PQoSLifecycle.  A MonData is the Go      *)
(* mirror of a libpqos group (struct pqos_mon_data, allocated by libpqos   *)
(* and freed by pqos_mon_stop); the Go methods copy the C struct into the  *)
(* MonData after each call (cMonDataToGo, updateMonDataFromC).             *)
(*                                                                         *)
(* Each MonData is identified with the C group it was made from: Groups is *)
(* the set of both, and a group is started at most once.  EventValues is   *)
(* abstracted to the number of counter reads libpqos has made of a group.  *)
(* All methods hold p.mu for their whole body, so each is one atomic step; *)
(* the caller's identity is irrelevant to them and is left out.            *)
(***************************************************************************)
EXTENDS PQoSLifecycle, FiniteSets, Sequences

CONSTANTS
  Groups,     \* the C groups libpqos can allocate, and their Go MonData
  Cores,      \* the logical cores libpqos knows, as C uints
  GoCores,    \* the uint core IDs callers pass
  CUintMod,   \* 2^32, scaled: the range of C.uint
  Pids,       \* process ids that can be monitored
  MaxPolls,   \* bound: reads of one group's counters
  MaxBatch    \* bound: entries of one MonPoll slice

ASSUME MaxPolls \in Nat /\ MaxBatch \in Nat /\ Cores \subseteq GoCores

\* C.uint(core) in MonStartCores and MonAssocGet: the low bits of a Go uint.
ToCUint(x) == x % CUintMod

\* MonStartCores's conversion loop (cCores[i] = C.uint(core)).
CCores(cs) == {ToCUint(c) : c \in cs}

VARIABLES
  cgrp,       \* cgrp[m]: the C struct pqos_mon_data of group m
  mon,        \* mon[m]: the Go MonData of group m
  freedUse,   \* history: libpqos was handed a group pqos_mon_stop had freed
  polled,     \* history: the batch and outcome of the step, if it was MonPoll
  monRet,     \* what the last monitoring method returned
  rmid        \* rmid[c]: the group libpqos has bound core c to, or RMID0

monVars == <<cgrp, mon, freedUse, polled, monRet, rmid>>
vars == <<lifeVars, monVars>>

\* C group: "unused" (never allocated), "live" or "freed"; kind of target;
\* its target sets; reads = the event values, as a read count.
CGroup == [state : {"unused", "live", "freed"}, kind : {"none", "cores", "pids"},
           cores : SUBSET Cores, pids : SUBSET Pids, reads : 0..MaxPolls]

\* Go MonData: made = returned to a caller; bound = group.group != nil.
MonData == [made : BOOLEAN, bound : BOOLEAN, Valid : BOOLEAN,
            Cores : SUBSET Cores, PIDs : SUBSET Pids, values : 0..MaxPolls]

NoCGroup == [state |-> "unused", kind |-> "none", cores |-> {}, pids |-> {}, reads |-> 0]
NoMonData == [made |-> FALSE, bound |-> FALSE, Valid |-> FALSE,
              Cores |-> {}, PIDs |-> {}, values |-> 0]

NoPoll == [batch |-> {}, fresh |-> {}, ret |-> "none"]
PollRets == {"none", "ok", "overflow", "err"}

MonOps == {"None", "MonStartCores", "MonStartPIDs", "MonAddPIDs", "MonRemovePIDs",
           "MonStop", "MonPoll", "MonReset", "MonAssocGet"}

\* The default RMID every core is bound to when no group monitors it.
RMID0 == "RMID0"
\* nil, ErrNotInitialized, a Go-side argument error, "invalid monitoring
\* group", a libpqos error, and MonPoll's "MBM counter overflow detected".
MonResults == {"ok", "ErrNotInitialized", "ErrParam", "ErrInvalidGroup", "ErrLib",
               "ErrOverflow"}

TypeOK ==
  /\ LifeTypeOK
  /\ cgrp \in [Groups -> CGroup]
  /\ mon \in [Groups -> MonData]
  /\ freedUse \in BOOLEAN
  /\ polled \in [batch : SUBSET Groups, fresh : SUBSET Groups, ret : PollRets]
  /\ monRet \in [op : MonOps, val : MonResults]
  /\ rmid \in [Cores -> Groups \cup {RMID0}]

Init ==
  /\ LifeInit
  /\ cgrp = [m \in Groups |-> NoCGroup]
  /\ mon = [m \in Groups |-> NoMonData]
  /\ freedUse = FALSE
  /\ polled = NoPoll
  /\ monRet = [op |-> "None", val |-> "ok"]
  /\ rmid = [c \in Cores |-> RMID0]

Made == {m \in Groups : mon[m].made}

(***************************************************************************)
(* Copies from the C struct into the Go MonData.  The valid marker of a C  *)
(* group is set while it is live.  Cores and PIDs are copied only when the *)
(* C lists are not empty (numCores > 0, numPIDs > 0).                      *)
(***************************************************************************)
CValid(c) == c.state = "live"

cMonDataToGo(c) ==
  [made |-> TRUE, bound |-> TRUE, Valid |-> CValid(c),
   Cores |-> c.cores, PIDs |-> c.pids, values |-> c.reads]

updateMonDataFromC(md, c) ==
  IF ~md.bound THEN md
  ELSE [md EXCEPT !.Valid = CValid(c),
                  !.values = c.reads,
                  !.Cores = IF c.cores # {} THEN c.cores ELSE @,
                  !.PIDs = IF c.pids # {} THEN c.pids ELSE @]

\* A call that hands group m to libpqos: libpqos dereferences it first.
Touch(ms) == freedUse' = (freedUse \/ (native = "init" /\ \E m \in ms : cgrp[m].state = "freed"))

\* Steps that are not MonPoll clear the poll record.
NotPoll == polled' = NoPoll

MonReturn(op, val) == monRet' = [op |-> op, val |-> val]

\* A method that returned an error before calling libpqos.
Rejected(op, val) == MonReturn(op, val) /\ UNCHANGED <<cgrp, mon, freedUse, rmid>> /\ NotPoll

(***************************************************************************)
(* libpqos group calls, from spec.md sections 4 and 6.  Each may fail      *)
(* (no RMID left, Busy, Transport) and then leaves the group unchanged;    *)
(* a call on an uninitialized library fails.                               *)
(***************************************************************************)
\* A core group binds its cores to the group's RMID; a core another group
\* monitors is refused.
PqosMonStartOK(m, kind, cs, ps) ==
  /\ native = "init"
  /\ cgrp[m].state = "unused"
  /\ cs \subseteq Cores
  /\ \A c \in cs : rmid[c] = RMID0
  /\ cgrp' = [cgrp EXCEPT ![m] = [state |-> "live", kind |-> kind,
                                   cores |-> cs, pids |-> ps, reads |-> 0]]
  /\ rmid' = [c \in Cores |-> IF c \in cs THEN m ELSE rmid[c]]

PqosMonAddPidsOK(m, ps) ==
  /\ native = "init" /\ cgrp[m].state = "live" /\ cgrp[m].kind = "pids"
  /\ cgrp' = [cgrp EXCEPT ![m].pids = @ \union ps]
  /\ UNCHANGED rmid

\* Removing every PID of a group is not refused by spec.md.
PqosMonRemovePidsOK(m, ps) ==
  /\ native = "init" /\ cgrp[m].state = "live" /\ cgrp[m].kind = "pids"
  /\ ps \subseteq cgrp[m].pids
  /\ cgrp' = [cgrp EXCEPT ![m].pids = @ \ ps]
  /\ UNCHANGED rmid

\* Stopping a group binds the cores still bound to it back to RMID0.
PqosMonStopOK(m) ==
  /\ native = "init" /\ cgrp[m].state = "live"
  /\ cgrp' = [cgrp EXCEPT ![m].state = "freed"]
  /\ rmid' = [c \in Cores |-> IF rmid[c] = m THEN RMID0 ELSE rmid[c]]

\* pqos_mon_reset: binds every core to RMID0 (spec.md 4.2 reset: clears all
\* groups' hardware bindings); the group structs are not touched.
PqosMonReset ==
  /\ native = "init"
  /\ rmid' = [c \in Cores |-> RMID0]

\* The groups of a MonPoll slice, and the entries of it naming group m.
Batch(B) == {B[i] : i \in DOMAIN B}
Entries(B, m) == {i \in DOMAIN B : B[i] = m}

\* The entries whose read succeeded (or overflowed).
ReadEntries(B, outcome) == {i \in DOMAIN B : outcome[i] # "err"}

\* pqos_mon_poll over the C array B, spec.md 4.2 (pollAll: for each id a
\* read): every entry is read on its own, so a group given twice is read
\* twice; a read that fails (Busy) leaves its group unchanged, the others
\* complete; an overflowing read still stores its values. outcome[i] is the
\* result of entry i; the call returns an error if a read failed, else
\* OVERFLOW if one overflowed. A read past MaxPolls is not modelled.
PqosMonPoll(B, outcome) ==
  /\ cgrp' = [m \in Groups |->
                [cgrp[m] EXCEPT !.reads = @ + Cardinality(Entries(B, m) \cap ReadEntries(B, outcome))]]
  /\ UNCHANGED rmid

PollRet(B, outcome) ==
  IF \E i \in DOMAIN B : outcome[i] = "err" THEN "err"
  ELSE IF \E i \in DOMAIN B : outcome[i] = "ovf" THEN "overflow" ELSE "ok"

(***************************************************************************)
(* The monitoring methods of PQoS.                                         *)
(***************************************************************************)

\* Mutant: the new MonData lists the cores the caller passed, not the C
\* group's cores.
MonStartReportsGoCores(op, kind, cs, ps) ==
  LET target == IF kind = "cores" THEN cs ELSE ps
  IN  \/ /\ ~initialized
         /\ Rejected(op, "ErrNotInitialized")
      \/ /\ initialized /\ target = {}
         /\ Rejected(op, "ErrParam")
      \/ /\ initialized /\ target # {}
         /\ \E m \in Groups :
              /\ PqosMonStartOK(m, kind, CCores(cs), ps)
              /\ mon' = [mon EXCEPT ![m] = [cMonDataToGo(cgrp'[m]) EXCEPT !.Cores = cs]]
         /\ MonReturn(op, "ok")
         /\ UNCHANGED freedUse /\ NotPoll
      \/ /\ initialized /\ target # {}
         /\ Rejected(op, "ErrLib")

\* MonStartCores / MonStartPIDs: ErrNotInitialized, an empty list, or
\* pqos_mon_start_cores / pqos_mon_start_pids2; on success the new C group
\* is copied into a new MonData by cMonDataToGo.
MonStart(op, kind, cs, ps) ==
  LET target == IF kind = "cores" THEN cs ELSE ps
  IN  \/ /\ ~initialized
         /\ Rejected(op, "ErrNotInitialized")
      \/ /\ initialized /\ target = {}
         /\ Rejected(op, "ErrParam")
      \/ /\ initialized /\ target # {}
         /\ \E m \in Groups :
              /\ PqosMonStartOK(m, kind, CCores(cs), ps)
              /\ mon' = [mon EXCEPT ![m] = cMonDataToGo(cgrp'[m])]
         /\ MonReturn(op, "ok")
         /\ UNCHANGED freedUse /\ NotPoll
      \/ /\ initialized /\ target # {}
         /\ Rejected(op, "ErrLib")

MonStartCores(cs) == MonStart("MonStartCores", "cores", cs, {})

MonStartPIDs(ps) == MonStart("MonStartPIDs", "pids", {}, ps)

\* The checks every method on an existing group makes before calling libpqos:
\* initialized, group.group != nil, and (for the PID methods) a non-empty list.
GroupChecks(op, m, ps, needPids) ==
  \/ /\ ~initialized
     /\ Rejected(op, "ErrNotInitialized")
  \/ /\ initialized /\ ~mon[m].bound
     /\ Rejected(op, "ErrInvalidGroup")
  \/ /\ initialized /\ mon[m].bound /\ needPids /\ ps = {}
     /\ Rejected(op, "ErrParam")

GroupCallable(m, ps, needPids) ==
  initialized /\ mon[m].bound /\ (needPids => ps # {})

\* MonAddPIDs / MonRemovePIDs: the checks, then pqos_mon_add_pids /
\* pqos_mon_remove_pids; on success updateMonDataFromC(group).
MonChangePIDs(op, m, ps) ==
  \/ GroupChecks(op, m, ps, TRUE)
  \/ /\ GroupCallable(m, ps, TRUE)
     /\ Touch({m})
     /\ \/ /\ IF op = "MonAddPIDs" THEN PqosMonAddPidsOK(m, ps)
                                   ELSE PqosMonRemovePidsOK(m, ps)
           /\ mon' = [mon EXCEPT ![m] = updateMonDataFromC(@, cgrp'[m])]
           /\ MonReturn(op, "ok")
        \/ /\ MonReturn(op, "ErrLib")
           /\ UNCHANGED <<cgrp, mon, rmid>>
     /\ NotPoll

MonAddPIDs(m, ps) == MonChangePIDs("MonAddPIDs", m, ps)

MonRemovePIDs(m, ps) == MonChangePIDs("MonRemovePIDs", m, ps)

\* Mutant: MonStop clears Valid but keeps the pointer to the freed C group.
MonStopKeepsGroup(m) ==
  \/ GroupChecks("MonStop", m, {}, FALSE)
  \/ /\ GroupCallable(m, {}, FALSE)
     /\ Touch({m})
     /\ PqosMonStopOK(m)
     /\ mon' = [mon EXCEPT ![m].Valid = FALSE]
     /\ MonReturn("MonStop", "ok")
     /\ NotPoll

\* MonStop: the checks, pqos_mon_stop (which frees the C group), then
\* group.Valid = false and group.group = nil.
MonStop(m) ==
  \/ GroupChecks("MonStop", m, {}, FALSE)
  \/ /\ GroupCallable(m, {}, FALSE)
     /\ Touch({m})
     /\ \/ /\ PqosMonStopOK(m)
           /\ mon' = [mon EXCEPT ![m].Valid = FALSE, ![m].bound = FALSE]
           /\ MonReturn("MonStop", "ok")
        \/ /\ MonReturn("MonStop", "ErrLib")
           /\ UNCHANGED <<cgrp, mon, rmid>>
     /\ NotPoll

PollChecks(B) ==
  \/ /\ ~initialized
     /\ Rejected("MonPoll", "ErrNotInitialized")
  \/ /\ initialized /\ B = <<>>
     /\ Rejected("MonPoll", "ErrParam")
  \/ /\ initialized /\ B # <<>> /\ \E m \in Batch(B) : ~mon[m].bound
     /\ Rejected("MonPoll", "ErrInvalidGroup")

PollCallable(B) == initialized /\ B # <<>> /\ \A m \in Batch(B) : mon[m].bound

\* No group of B is read past MaxPolls, however often B names it.
PollBounded(B) == \A m \in Batch(B) : cgrp[m].reads + Cardinality(Entries(B, m)) <= MaxPolls

\* Mutant: the Go structs are refreshed from the C structs before the poll.
MonPollUpdateFirst(B) ==
  \/ PollChecks(B)
  \/ /\ PollCallable(B)
     /\ Touch(Batch(B))
     /\ native = "init" /\ PollBounded(B)
     /\ \E outcome \in [DOMAIN B -> {"ok", "ovf", "err"}] :
          LET r == PollRet(B, outcome) IN
          /\ PqosMonPoll(B, outcome)
          /\ polled' = [batch |-> Batch(B), fresh |-> {B[i] : i \in ReadEntries(B, outcome)}, ret |-> r]
          /\ IF r = "err"
               THEN MonReturn("MonPoll", "ErrLib") /\ UNCHANGED mon
               ELSE /\ mon' = [m \in Groups |-> IF m \in Batch(B)
                                 THEN updateMonDataFromC(mon[m], cgrp[m]) ELSE mon[m]]
                    /\ MonReturn("MonPoll", IF r = "ok" THEN "ok" ELSE "ErrOverflow")

\* MonPoll: the checks (every group before any C call), pqos_mon_poll, and on
\* PQOS_RETVAL_OK or PQOS_RETVAL_OVERFLOW updateMonDataFromC of every group
\* of the batch; any other return value is returned before any update.
MonPoll(B) ==
  \/ PollChecks(B)
  \/ /\ PollCallable(B)
     /\ Touch(Batch(B))
     /\ \/ /\ native = "uninit"
           /\ polled' = [batch |-> Batch(B), fresh |-> {}, ret |-> "err"]
           /\ MonReturn("MonPoll", "ErrLib")
           /\ UNCHANGED <<cgrp, mon, rmid>>
        \/ /\ native = "init" /\ PollBounded(B)
           /\ \E outcome \in [DOMAIN B -> {"ok", "ovf", "err"}] :
                LET r == PollRet(B, outcome) IN
                /\ PqosMonPoll(B, outcome)
                /\ polled' = [batch |-> Batch(B), fresh |-> {B[i] : i \in ReadEntries(B, outcome)},
                              ret |-> r]
                /\ IF r = "err"
                     THEN MonReturn("MonPoll", "ErrLib") /\ UNCHANGED mon
                     ELSE /\ mon' = [m \in Groups |-> IF m \in Batch(B)
                                       THEN updateMonDataFromC(mon[m], cgrp'[m])
                                       ELSE mon[m]]
                          /\ MonReturn("MonPoll", IF r = "ok" THEN "ok" ELSE "ErrOverflow")

\* MonReset: ErrNotInitialized, or pqos_mon_reset and its error.  No MonData
\* is touched.
MonReset ==
  \/ /\ ~initialized
     /\ Rejected("MonReset", "ErrNotInitialized")
  \/ /\ initialized
     /\ \/ PqosMonReset /\ MonReturn("MonReset", "ok")
        \/ native = "uninit" /\ MonReturn("MonReset", "ErrLib") /\ UNCHANGED rmid
     /\ UNCHANGED <<cgrp, mon, freedUse>>
     /\ NotPoll

\* MonAssocGet(lcore): ErrNotInitialized, or pqos_mon_assoc_get on
\* C.uint(lcore), which fails on a finalized library and for a core it
\* does not know.  It changes nothing but its result.
MonAssocGet(c) ==
  \/ /\ ~initialized
     /\ Rejected("MonAssocGet", "ErrNotInitialized")
  \/ /\ initialized
     /\ MonReturn("MonAssocGet", IF native = "init" /\ ToCUint(c) \in Cores THEN "ok" ELSE "ErrLib")
     /\ UNCHANGED <<cgrp, mon, freedUse, rmid>>
     /\ NotPoll

(***************************************************************************)
(* The lifecycle methods leave the groups alone: pqos_fini does not free   *)
(* the C groups (they stay allocated until pqos_mon_stop) and Fini does    *)
(* not touch any MonData.                                                  *)
(***************************************************************************)
LifeStep(g) ==
  /\ \/ GetInstance(g)
     \/ PQoSInit(g)
     \/ PQoSFini(g)
     \/ IsInitialized(g)
     \/ GetInterface(g)
  /\ UNCHANGED <<cgrp, mon, freedUse, monRet, rmid>>
  /\ NotPoll

\* The monitoring methods leave the lifecycle state alone.
MonStep ==
  /\ \/ \E cs \in SUBSET GoCores : MonStartCores(cs)
     \/ \E ps \in SUBSET Pids : MonStartPIDs(ps)
     \/ \E m \in Made, ps \in SUBSET Pids : MonAddPIDs(m, ps)
     \/ \E m \in Made, ps \in SUBSET Pids : MonRemovePIDs(m, ps)
     \/ \E m \in Made : MonStop(m)
     \/ \E B \in UNION {[1..n -> Made] : n \in 0..MaxBatch} : MonPoll(B)
     \/ MonReset
     \/ \E c \in GoCores : MonAssocGet(c)
  /\ UNCHANGED lifeVars

Next ==
  \/ \E g \in Goroutines : LifeStep(g)
  \/ MonStep

Spec == Init /\ [][Next]_vars

(***************************************************************************)
(* Properties.                                                             *)
(***************************************************************************)

\* libpqos is never handed a C group that pqos_mon_stop has freed, whatever
\* order of MonStop, MonPoll, MonAddPIDs, Fini and Init the callers use: a
\* stopped MonData is refused by the group.group == nil checks.
NoFreedGroupUse == ~freedUse

\* Every core libpqos counts for a group, however the caller's core IDs
\* were narrowed by C.uint in MonStartCores, is listed in the group's
\* MonData.Cores while the MonData is bound: a caller learns from
\* MonData.Cores which cores are really monitored, even for an ID beyond
\* 32 bits that landed on another core.
CountedCoresReported ==
  \A m \in Groups :
    mon[m].bound => {c \in Cores : rmid[c] = m} \subseteq mon[m].Cores

\* When MonPoll returns nil or the overflow error, every MonData of the batch
\* shows exactly the counters and validity its C group now holds.
PolledMirror ==
  polled.ret \in {"ok", "overflow"} =>
    \A m \in polled.batch : mon[m].values = cgrp[m].reads /\ mon[m].Valid = CValid(cgrp[m])

\* A MonData reports Valid only while its group is counting: the library
\* owning it is initialized (spec.md 5: teardown invalidates all groups)
\* and, for a core group, its cores are still bound to its RMID (spec.md
\* 4.2: reset clears the groups' bindings and wipes the registry).
ValidOnlyWhileCounting ==
  \A m \in Groups :
    mon[m].Valid =>
      /\ native = "init"
      /\ cgrp[m].kind = "cores" => \A c \in cgrp[m].cores : rmid[c] = m

\* The PIDs of a live process group's MonData are those of its C group after
\* every successful MonAddPIDs / MonRemovePIDs.
MirrorPIDs ==
  \A m \in Groups :
    (mon[m].bound /\ cgrp[m].kind = "pids") => mon[m].PIDs = cgrp[m].pids

\* After MonPoll returns, every group whose counters libpqos read in this
\* poll shows them in its MonData (spec.md 4.2: one group's failed read does
\* not keep the other groups of the batch from completing).
PollFailureKeepsOthers == \A m \in polled.fresh : mon[m].values = cgrp[m].reads
=============================================================================
