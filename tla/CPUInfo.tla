------------------------------ MODULE CPUInfo ------------------------------
(***************************************************************************)
(* The CPU topology view of src/lib/go/pqos/cpuinfo.go.  GetCPUInfo copies *)
(* libpqos's pqos_cpuinfo (reached through a Capability) into a Go         *)
(* CPUInfo; the queries then work on that Go copy alone.  The loops of the *)
(* code are RECURSIVE operators; the properties compare their results      *)
(* with set-theoretic definitions over the C core list.  The Get*IDs       *)
(* queries collect IDs in a Go map and return them in map iteration order, *)
(* which Go leaves unspecified: any order is possible on every call.       *)
(***************************************************************************)
EXTENDS Naturals, Sequences, SequencesExt, FiniteSets

CONSTANTS
  LCores,     \* logical core IDs libpqos can report
  Ids,        \* socket / cluster IDs
  MaxCores    \* bound: cores in the topology

ASSUME MaxCores \in Nat

\* The C struct pqos_coreinfo, the fields GetCPUInfo copies.  One L3, CAT
\* and MBA domain and NUMA node per socket, as on a part without sub-NUMA
\* clustering; L2 clusters vary independently.
CCore(lcore, socket, l2) ==
  [lcore |-> lcore, socket |-> socket, l3_id |-> socket, l2_id |-> l2,
   l3cat_id |-> socket, mba_id |-> socket, numa |-> socket]

\* The C struct pqos_cacheinfo, reduced to what GetL2/L3CacheSize read.
CCaches == [detected : {0, 1}, total_size : {64}]

\* Topologies libpqos can report: distinct logical cores, any order.
Topologies ==
  { s \in SetToAllKPermutations(LCores) : Len(s) <= MaxCores }

\* The Go CoreInfo made of one C core (cpuinfo.go:118-127).
CoreInfo(core) ==
  [LCore |-> core.lcore, Socket |-> core.socket, L3ID |-> core.l3_id,
   L2ID |-> core.l2_id, L3CATID |-> core.l3cat_id, MBAID |-> core.mba_id,
   NUMA |-> core.numa]

\* CacheInfo: Detected is int(detected) != 0.
CacheInfo(cache) == [Detected |-> cache.detected # 0, TotalSize |-> cache.total_size]

NoInfo == [none |-> TRUE]
Nil == [nil |-> TRUE]   \* a nil pointer

VARIABLES
  cpu,        \* the C pqos_cpuinfo the Capability points to, or Nil
  info,       \* the Go CPUInfo the caller holds, or NoInfo
  answer      \* the last call and what it returned

vars == <<cpu, info, answer>>

Queries == {"GetNumCores", "GetNumSockets", "GetCoresBySocket",
            "GetCoresByL3ID", "GetCoresByL2ID", "GetCoresByNUMA",
            "GetSocketIDs", "GetL3IDs", "GetL2IDs", "GetL3CATIDs",
            "GetMBAIDs", "GetNumL2Domains", "FindCore",
            "GetL3CacheSize", "GetL2CacheSize"}

\* The CoreInfo field each By/IDs query looks at.
FieldOf(q) ==
  CASE q \in {"GetCoresBySocket", "GetSocketIDs", "GetNumSockets"} -> "Socket"
    [] q \in {"GetCoresByL3ID", "GetL3IDs"} -> "L3ID"
    [] q \in {"GetCoresByL2ID", "GetL2IDs", "GetNumL2Domains"} -> "L2ID"
    [] q = "GetCoresByNUMA" -> "NUMA"
    [] q = "GetL3CATIDs" -> "L3CATID"
    [] q = "GetMBAIDs" -> "MBAID"
    [] OTHER -> "LCore"

Init ==
  /\ \/ cpu = Nil
     \/ \E order \in Topologies, l2, l3 \in CCaches :
          \E sock, l2id \in [1..Len(order) -> Ids] :
            cpu = [num_cores |-> Len(order), l2 |-> l2, l3 |-> l3,
                   cores |-> [i \in 1..Len(order) |-> CCore(order[i], sock[i], l2id[i])]]
  /\ info = NoInfo
  /\ answer = [op |-> "none", arg |-> 0, val |-> 0]

Answer(op, arg, val) ==
  /\ answer' = [op |-> op, arg |-> arg, val |-> val]
  /\ UNCHANGED <<cpu, info>>

(***************************************************************************)
(* GetCPUInfo (cpuinfo.go:84-132)                                          *)
(***************************************************************************)

\* Mutant: the copy loop stops one core short.
RECURSIVE CopyCoresShort(_, _)
CopyCoresShort(c, i) ==
  IF i + 1 < c.num_cores THEN <<CoreInfo(c.cores[i + 1])>> \o CopyCoresShort(c, i + 1)
  ELSE <<>>

\* for i := 0; i < num_cores; i++ { append(CoreInfo{...get_core_info(i)}) }
RECURSIVE CopyCores(_, _)
CopyCores(c, i) ==
  IF i < c.num_cores THEN <<CoreInfo(c.cores[i + 1])>> \o CopyCores(c, i + 1)
  ELSE <<>>

GetCPUInfo ==
  \/ /\ cpu = Nil
     /\ Answer("GetCPUInfo", 0, "ErrNoCPUInfo")
  \/ /\ cpu # Nil
     /\ info' = [NumCores |-> cpu.num_cores, L2 |-> CacheInfo(cpu.l2),
                 L3 |-> CacheInfo(cpu.l3), Cores |-> CopyCores(cpu, 0)]
     /\ answer' = [op |-> "GetCPUInfo", arg |-> 0, val |-> "ok"]
     /\ UNCHANGED cpu

(***************************************************************************)
(* The queries on a CPUInfo.  The caller holds one only after GetCPUInfo.  *)
(***************************************************************************)
Holding == info # NoInfo

\* The range loop with `if core.<field> == v { cores = append(cores, core) }`.
RECURSIVE CoresWith(_, _, _)
CoresWith(cores, f, v) ==
  IF cores = <<>> THEN <<>>
  ELSE (IF Head(cores)[f] = v THEN <<Head(cores)>> ELSE <<>>)
         \o CoresWith(Tail(cores), f, v)

\* The range loop `ids[core.<field>] = true`: the key set of the map.
RECURSIVE IDMap(_, _)
IDMap(cores, f) ==
  IF cores = <<>> THEN {} ELSE {Head(cores)[f]} \union IDMap(Tail(cores), f)

\* FindCore's loop: the index of the first core with that LCore, 0 if none.
RECURSIVE FindIndex(_, _, _)
FindIndex(cores, lcore, i) ==
  IF i > Len(cores) THEN 0
  ELSE IF cores[i].LCore = lcore THEN i
  ELSE FindIndex(cores, lcore, i + 1)

GetNumCores ==
  Holding /\ Answer("GetNumCores", 0, info.NumCores)

\* GetNumSockets is len(map); GetNumL2Domains is len(GetL2IDs()).
CountQuery(q) ==
  Holding /\ Answer(q, 0, Cardinality(IDMap(info.Cores, FieldOf(q))))

CoresByQuery(q, v) ==
  Holding /\ Answer(q, v, CoresWith(info.Cores, FieldOf(q), v))

\* Mutant: one ID appended per core, without the map.
IDsPerCore(q) ==
  Holding /\ Answer(q, 0, [k \in 1..Len(info.Cores) |-> info.Cores[k][FieldOf(q)]])

\* `for id := range ids { append }`: the map's keys in an unspecified order.
IDsQuery(q) ==
  /\ Holding
  /\ \E ids \in SetToSeqs(IDMap(info.Cores, FieldOf(q))) : Answer(q, 0, ids)

FindCore(lcore) ==
  /\ Holding
  /\ LET i == FindIndex(info.Cores, lcore, 1)
     IN Answer("FindCore", lcore, IF i = 0 THEN Nil ELSE info.Cores[i])

\* Mutant: the size returned whether or not the cache was detected.
CacheSizeIgnoringDetected(q) ==
  /\ Holding
  /\ LET cache == IF q = "GetL3CacheSize" THEN info.L3 ELSE info.L2
     IN Answer(q, 0, cache.TotalSize)

CacheSize(q) ==
  /\ Holding
  /\ LET cache == IF q = "GetL3CacheSize" THEN info.L3 ELSE info.L2
     IN Answer(q, 0, IF cache.Detected THEN cache.TotalSize ELSE 0)

ByQueries == {"GetCoresBySocket", "GetCoresByL3ID", "GetCoresByL2ID", "GetCoresByNUMA"}
IDQueries == {"GetSocketIDs", "GetL3IDs", "GetL2IDs", "GetL3CATIDs", "GetMBAIDs"}

Next ==
  \/ GetCPUInfo
  \/ GetNumCores
  \/ \E q \in {"GetNumSockets", "GetNumL2Domains"} : CountQuery(q)
  \/ \E q \in ByQueries, v \in Ids : CoresByQuery(q, v)
  \/ \E q \in IDQueries : IDsQuery(q)
  \/ \E l \in LCores : FindCore(l)
  \/ \E q \in {"GetL3CacheSize", "GetL2CacheSize"} : CacheSize(q)

Spec == Init /\ [][Next]_vars

(***************************************************************************)
(* Properties: each answer against the C topology it was copied from.      *)
(***************************************************************************)

\* The pqos_coreinfo field behind each CoreInfo field.
CField(f) ==
  CASE f = "Socket" -> "socket"  [] f = "L3ID" -> "l3_id"
    [] f = "L2ID" -> "l2_id"     [] f = "L3CATID" -> "l3cat_id"
    [] f = "MBAID" -> "mba_id"   [] f = "NUMA" -> "numa"
    [] OTHER -> "lcore"

\* The IDs the C topology has in the field of query q.
CIDs(q) == { cpu.cores[k][CField(FieldOf(q))] : k \in DOMAIN cpu.cores }

\* Every core query answers for the whole C core list that GetCPUInfo
\* copied: GetCoresBy* returns exactly the cores with that ID, in
\* libpqos's order; FindCore the first core with that logical ID, nil when
\* there is none; GetNumCores the number of cores; the cache sizes 0 for an
\* undetected cache.
CoreQueriesExact ==
  LET a == answer IN
  /\ a.op = "GetNumCores" => a.val = Len(cpu.cores)
  /\ a.op \in ByQueries =>
       LET sel == SelectSeq(cpu.cores, LAMBDA c : c[CField(FieldOf(a.op))] = a.arg)
       IN a.val = [k \in DOMAIN sel |-> CoreInfo(sel[k])]
  /\ a.op = "FindCore" =>
       LET k == SelectInSeq(cpu.cores, LAMBDA c : c.lcore = a.arg)
       IN a.val = IF k = 0 THEN Nil ELSE CoreInfo(cpu.cores[k])
  /\ a.op \in {"GetL3CacheSize", "GetL2CacheSize"} =>
       LET c == IF a.op = "GetL3CacheSize" THEN cpu.l3 ELSE cpu.l2
       IN a.val = c.detected * c.total_size

\* Every Get*IDs call lists each ID of the topology exactly once (in some
\* order), and GetNumSockets / GetNumL2Domains count those IDs.
IDQueriesExact ==
  LET a == answer IN
  /\ a.op \in IDQueries => IsInjective(a.val) /\ ToSet(a.val) = CIDs(a.op)
  /\ a.op \in {"GetNumSockets", "GetNumL2Domains"} => a.val = Cardinality(CIDs(a.op))

TypeOK ==
  /\ cpu = Nil \/ cpu.num_cores = Len(cpu.cores)
  /\ info = NoInfo \/ /\ DOMAIN info = {"NumCores", "L2", "L3", "Cores"}
                      /\ info.NumCores = Len(info.Cores)
  /\ answer.op \in Queries \union {"none", "GetCPUInfo"}
=============================================================================
