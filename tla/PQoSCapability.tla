--------------------------- MODULE PQoSCapability ---------------------------
(***************************************************************************)
(* Capability discovery (src/lib/go/pqos/capability.go, and GetCPUInfo of  *)
(* cpuinfo.go) composed with the lifecycle of PQoSLifecycle, with p.mu     *)
(* made explicit.                                                          *)
(*                                                                         *)
(* A locked method is two steps of its goroutine: p.mu.Lock(), then the    *)
(* body together with the deferred Unlock.  GetCapability is locked and    *)
(* returns a Capability holding the pointers pqos_cap_get hands out; the   *)
(* accessors of Capability (GetL3CA .. GetMon, HasL3CA .. HasMon,          *)
(* GetCPUInfo) take no lock and dereference those pointers, one step per   *)
(* read of libpqos memory, so they interleave with any locked method.      *)
(*                                                                         *)
(* libpqos (outside src/): pqos_cap_get returns pointers to the library's  *)
(* own capability and CPU tables, which exist while the library is         *)
(* initialized and are released by a successful pqos_fini.                 *)
(***************************************************************************)
EXTENDS PQoSLifecycle, FiniteSets

CONSTANTS
  CapTypes,     \* the capability types an accessor asks for (PQOS_CAP_TYPE_*)
  HwTypes       \* those the platform reports

ASSUME HwTypes \subseteq CapTypes

VARIABLES
  holder,      \* the goroutine holding p.mu: {} or {g}
  pc,          \* pc[g]: "idle", "lock" (waiting in Lock), "body", or the
               \* accessor step that reads libpqos memory next: "type", "copy"
  call,        \* call[g]: the method goroutine g is in, [m, type]
  capOf,       \* capOf[g]: the Capability goroutine g holds: "none", "zero"
               \* (a Capability{} with nil pointers) or "lib" (from pqos_cap_get)
  freedRead    \* history: an accessor has read libpqos memory after pqos_fini

capVars == <<holder, pc, call, capOf, freedRead>>
vars == <<lifeVars, capVars>>

LockedMethods == {"Init", "Fini", "IsInitialized", "GetInterface", "GetCapability"}
Getters == {"Get", "Has"}
Calls ==
  [m : LockedMethods, type : {"-"}] \cup [m : Getters, type : CapTypes]
    \cup [m : {"GetCPUInfo"}, type : {"-"}]
NoCall == [m |-> "none", type |-> "-"]

TypeOK ==
  /\ LifeTypeOK
  /\ holder \subseteq Goroutines /\ Cardinality(holder) <= 1
  /\ pc \in [Goroutines -> {"idle", "lock", "body", "type", "copy"}]
  /\ call \in [Goroutines -> Calls \cup {NoCall}]
  /\ capOf \in [Goroutines -> {"none", "zero", "lib"}]
  /\ freedRead \in BOOLEAN

\* A goroutine may start out holding a zero Capability{} value: the type is
\* exported and its pointer fields are nil.
Init ==
  /\ LifeInit
  /\ holder = {}
  /\ pc = [g \in Goroutines |-> "idle"]
  /\ call = [g \in Goroutines |-> NoCall]
  /\ capOf \in [Goroutines -> {"none", "zero"}]
  /\ freedRead = FALSE

(***************************************************************************)
(* libpqos: the tables pqos_cap_get points to are live while the library  *)
(* is initialized.  Reading them after pqos_fini reads freed memory, whose *)
(* contents the build does not define: any outcome of the read is possible.*)
(***************************************************************************)
CapTablesLive == native = "init"

PqosCapGetOK == native = "init"

\* Reads libpqos memory through the pointers g holds.
ReadTables(g) == freedRead' = (freedRead \/ ~CapTablesLive)

\* pqos_cap_get_type(c.cap, type, &p) = OK: the type is reported.  On freed
\* tables the answer is arbitrary.
CapGetTypeOK(t) == IF CapTablesLive THEN {t \in HwTypes} ELSE BOOLEAN

\* The end of a call of g (the value an accessor returns is not recorded: no
\* property tells the answers apart, only which memory they read).
Done(g) ==
  /\ pc' = [pc EXCEPT ![g] = "idle"]
  /\ call' = [call EXCEPT ![g] = NoCall]

(***************************************************************************)
(* Locked methods.                                                         *)
(***************************************************************************)

\* A goroutine that holds the instance calls a locked method and blocks in
\* p.mu.Lock().
CallLocked(g) ==
  /\ instance
  /\ pc[g] = "idle"
  /\ \E m \in LockedMethods : call' = [call EXCEPT ![g] = [m |-> m, type |-> "-"]]
  /\ pc' = [pc EXCEPT ![g] = "lock"]
  /\ UNCHANGED <<lifeVars, holder, capOf, freedRead>>

\* p.mu.Lock() returns once no other goroutine holds the mutex.
Acquire(g) ==
  /\ pc[g] = "lock"
  /\ holder = {}
  /\ holder' = {g}
  /\ pc' = [pc EXCEPT ![g] = "body"]
  /\ UNCHANGED <<lifeVars, call, capOf, freedRead>>

\* Mutant: GetCapability unlocks by hand and forgets to on its error paths.
GetCapabilityLeakingLock(g) ==
  /\ \/ ~initialized /\ UNCHANGED <<holder, capOf>>
     \/ initialized /\ ~PqosCapGetOK /\ UNCHANGED <<holder, capOf>>
     \/ /\ initialized /\ PqosCapGetOK
        /\ capOf' = [capOf EXCEPT ![g] = "lib"]
        /\ holder' = {}
  /\ Done(g)
  /\ UNCHANGED <<lifeVars, freedRead>>

\* GetCapability, under the lock: "PQoS not initialized", the error of
\* pqos_cap_get, or a Capability holding the pointers it returned; then the
\* deferred Unlock.
GetCapability(g) ==
  /\ \/ ~initialized /\ UNCHANGED capOf
     \/ initialized /\ ~PqosCapGetOK /\ UNCHANGED capOf
     \/ /\ initialized /\ PqosCapGetOK
        /\ capOf' = [capOf EXCEPT ![g] = "lib"]
  /\ holder' = {}
  /\ Done(g)
  /\ UNCHANGED <<lifeVars, freedRead>>

\* The body of a lifecycle method (PQoSLifecycle) and the deferred Unlock.
LifeBody(g) ==
  /\ \/ call[g].m = "Init" /\ PQoSInit(g)
     \/ call[g].m = "Fini" /\ PQoSFini(g)
     \/ call[g].m = "IsInitialized" /\ IsInitialized(g)
     \/ call[g].m = "GetInterface" /\ GetInterface(g)
  /\ holder' = {}
  /\ Done(g)
  /\ UNCHANGED <<capOf, freedRead>>

Body(g) ==
  /\ pc[g] = "body"
  /\ \/ call[g].m = "GetCapability" /\ GetCapability(g)
     \/ call[g].m # "GetCapability" /\ LifeBody(g)

(***************************************************************************)
(* The accessors of Capability: no lock, no initialization check.         *)
(***************************************************************************)

\* A goroutine holding a Capability calls an accessor.  Its first statement,
\* if c.cap == nil (GetCPUInfo: if c.cpu == nil), reads only the Go value
\* and returns "capability not initialized" (false for a Has method) on a
\* zero Capability; otherwise the next step reads libpqos memory.
CallAccessor(g) ==
  /\ pc[g] = "idle"
  /\ capOf[g] # "none"
  /\ \E c \in Calls \ [m : LockedMethods, type : {"-"}] :
       IF capOf[g] = "zero"
         THEN UNCHANGED <<pc, call>>
         ELSE /\ call' = [call EXCEPT ![g] = c]
              /\ pc' = [pc EXCEPT ![g] = IF c.m = "GetCPUInfo" THEN "copy" ELSE "type"]
  /\ UNCHANGED <<lifeVars, holder, capOf, freedRead>>

\* pqos_cap_get_type(c.cap, type, &p): a Get method returns its error when it
\* fails and goes on otherwise; a Has method returns ret == OK && p != nil.
CapGetType(g) ==
  /\ pc[g] = "type"
  /\ ReadTables(g)
  /\ \E ok \in CapGetTypeOK(call[g].type) :
       IF call[g].m = "Get" /\ ok
         THEN /\ pc' = [pc EXCEPT ![g] = "copy"]
              /\ UNCHANGED call
         ELSE Done(g)
  /\ UNCHANGED <<lifeVars, holder, capOf>>

\* get_l3ca_cap(p) (get_l2ca_cap, get_mba_cap, get_mon_cap), its nil check
\* ("... capability not available") and the copy of its fields and events;
\* for GetCPUInfo, the copy of *c.cpu and its cores.
CopyOut(g) ==
  /\ pc[g] = "copy"
  /\ ReadTables(g)
  /\ Done(g)
  /\ UNCHANGED <<lifeVars, holder, capOf>>

Accessor(g) == CapGetType(g) \/ CopyOut(g)

\* GetInstance goes through instanceOnce, not p.mu.
Instance(g) ==
  /\ pc[g] = "idle"
  /\ GetInstance(g)
  /\ UNCHANGED capVars

Next ==
  \E g \in Goroutines :
    \/ Instance(g)
    \/ CallLocked(g)
    \/ Acquire(g)
    \/ Body(g)
    \/ CallAccessor(g)
    \/ Accessor(g)

(***************************************************************************)
(* Fairness.  A goroutine that runs keeps running (WF on the body and the *)
(* accessor steps).  Lock acquisition is only intermittently enabled; Go's *)
(* sync.Mutex hands the lock over in FIFO order once a waiter has been     *)
(* blocked for more than 1ms (starvation mode), so a waiter is not         *)
(* overtaken forever: SF on Acquire.  Making a call is up to the caller    *)
(* and is not fair.                                                        *)
(***************************************************************************)
Spec ==
  /\ Init /\ [][Next]_vars
  /\ \A g \in Goroutines :
       /\ SF_vars(Acquire(g))
       /\ WF_vars(Body(g))
       /\ WF_vars(Accessor(g))

(***************************************************************************)
(* Properties.                                                             *)
(***************************************************************************)

\* Every call into the bindings returns: a goroutine blocked in p.mu.Lock()
\* is eventually let in, because every locked method releases the mutex on
\* every path (defer p.mu.Unlock()), and every accessor finishes.
CallsReturn == \A g \in Goroutines : pc[g] # "idle" ~> pc[g] = "idle"

\* No accessor of a Capability reads libpqos memory after pqos_fini has
\* released it: a Capability obtained before Fini, by this goroutine or
\* another, is never read through afterwards.
NoFreedCapRead == ~freedRead
====
