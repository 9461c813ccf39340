--------------------------- MODULE PQoSLifecycle ---------------------------
(***************************************************************************)
(* Lifecycle of the process-wide PQoS handle of the Go bindings            *)
(* (src/lib/go/pqos/pqos.go): GetInstance, Init, Fini, IsInitialized and   *)
(* GetInterface, together with the part of libpqos they drive (pqos_init,  *)
(* pqos_fini, pqos_inter_get).  libpqos lives outside src/ and is modelled *)
(* from spec.md section 6.                                                 *)
(*                                                                         *)
(* Every method of PQoS holds p.mu for its whole body (Lock + defer        *)
(* Unlock) and none calls another, so each method call is one atomic step  *)
(* of the goroutine that makes it.                                         *)
(***************************************************************************)
EXTENDS Naturals

CONSTANTS
  Goroutines          \* the goroutines that call into the bindings

ASSUME Goroutines # {}

VARIABLES
  instance,      \* the singleton has been created by instanceOnce
  initialized,   \* p.initialized
  initOnceDone,  \* initOnce has run its function
  initErr,       \* package variable initErr: NoErr (nil) or "ErrInit"
  native,        \* state of libpqos: "uninit" or "init"
  ret            \* ret[g]: the method goroutine g last returned from, and its result

lifeVars == <<instance, initialized, initOnceDone, initErr, native, ret>>

NoErr == "nil"

\* What each method can return (nil is "ok").
ResultsOf(op) ==
  CASE op = "None"          -> {"ok"}
    [] op = "GetInstance"   -> {"ok"}
    [] op = "Init"          -> {"ok", "ErrInit"}
    [] op = "Fini"          -> {"ok", "ErrNotInitialized", "ErrLib"}
    [] op = "IsInitialized" -> {"true", "false"}
    [] op = "GetInterface"  -> {"ok", "ErrNotInitialized", "ErrLib"}

Ops == {"None", "GetInstance", "Init", "Fini", "IsInitialized", "GetInterface"}

Returns == UNION {[op : {o}, val : ResultsOf(o)] : o \in Ops}

Return(g, op, val) == ret' = [ret EXCEPT ![g] = [op |-> op, val |-> val]]

LifeTypeOK ==
  /\ instance \in BOOLEAN
  /\ initialized \in BOOLEAN
  /\ initOnceDone \in BOOLEAN
  /\ initErr \in {NoErr, "ErrInit"}
  /\ native \in {"uninit", "init"}
  /\ ret \in [Goroutines -> Returns]

\* The outcome every Init must report: that of the one pqos_init (pqos.go:169,
\* "Everyone sees the same init result").
InitOutcome == IF initErr = NoErr THEN "ok" ELSE initErr

LifeInit ==
  /\ instance = FALSE
  /\ initialized = FALSE
  /\ initOnceDone = FALSE
  /\ initErr = NoErr
  /\ native = "uninit"
  /\ ret = [g \in Goroutines |-> [op |-> "None", val |-> "ok"]]

(***************************************************************************)
(* libpqos, from spec.md section 6: init fails on missing hardware or      *)
(* privileges, and when the library is already initialized; teardown may  *)
(* fail and then leaves the library as it was; every other call fails     *)
(* with PQOS_RETVAL_INIT while the library is not initialized.            *)
(***************************************************************************)
PqosInit ==
  \/ /\ native = "uninit"
     /\ native' = "init"
     /\ initErr' = NoErr
  \/ /\ native' = native
     /\ initErr' = "ErrInit"

PqosFiniOK == native = "init" /\ native' = "uninit"

PqosInterGetOK == native = "init"

(***************************************************************************)
(* The methods of PQoS.                                                    *)
(***************************************************************************)

\* GetInstance: instanceOnce.Do creates the one PQoS value.
GetInstance(g) ==
  /\ instance' = TRUE
  /\ Return(g, "GetInstance", "ok")
  /\ UNCHANGED <<initialized, initOnceDone, initErr, native>>

\* initOnce.Do(func(){ ... pqos_init ... }): only the first call runs pqos_init
\* and stores its failure in initErr; later calls leave everything alone.
InitOnceDo ==
  IF initOnceDone
    THEN UNCHANGED <<initOnceDone, initErr, native>>
    ELSE /\ initOnceDone' = TRUE
         /\ PqosInit

\* Mutant: Init ignores the cached initErr and marks the instance initialized.
InitIgnoringErr(g) ==
  /\ instance
  /\ ~initialized
  /\ InitOnceDo
  /\ initialized' = TRUE
  /\ Return(g, "Init", "ok")
  /\ UNCHANGED instance

\* Init: the fast path returns nil on an initialized instance; otherwise the
\* once-only pqos_init, then everyone sees its cached result.
PQoSInit(g) ==
  /\ instance
  /\ \/ /\ initialized
        /\ Return(g, "Init", "ok")
        /\ UNCHANGED <<initialized, initOnceDone, initErr, native>>
     \/ /\ ~initialized
        /\ InitOnceDo
        /\ initialized' = (initErr' = NoErr)
        /\ Return(g, "Init", IF initErr' = NoErr THEN "ok" ELSE initErr')
  /\ UNCHANGED instance

\* Mutant: Fini answers an uninitialized instance with the cached initErr.
FiniReturningInitErr(g) ==
  /\ instance
  /\ \/ /\ ~initialized
        /\ Return(g, "Fini", InitOutcome)
        /\ UNCHANGED <<initialized, native>>
     \/ /\ initialized
        /\ PqosFiniOK
        /\ initialized' = FALSE
        /\ Return(g, "Fini", "ok")
  /\ UNCHANGED <<instance, initOnceDone, initErr>>

\* Fini: ErrNotInitialized on an uninitialized instance; otherwise pqos_fini,
\* and p.initialized is cleared only when it succeeded.
PQoSFini(g) ==
  /\ instance
  /\ \/ /\ ~initialized
        /\ Return(g, "Fini", "ErrNotInitialized")
        /\ UNCHANGED <<initialized, native>>
     \/ /\ initialized
        /\ PqosFiniOK
        /\ initialized' = FALSE
        /\ Return(g, "Fini", "ok")
     \/ /\ initialized
        /\ Return(g, "Fini", "ErrLib")
        /\ UNCHANGED <<initialized, native>>
  /\ UNCHANGED <<instance, initOnceDone, initErr>>

\* IsInitialized: reads p.initialized under the lock.
IsInitialized(g) ==
  /\ instance
  /\ Return(g, "IsInitialized", IF initialized THEN "true" ELSE "false")
  /\ UNCHANGED <<instance, initialized, initOnceDone, initErr, native>>

\* GetInterface: ErrNotInitialized, or the result of pqos_inter_get.
GetInterface(g) ==
  /\ instance
  /\ Return(g, "GetInterface",
            IF ~initialized THEN "ErrNotInitialized"
            ELSE IF PqosInterGetOK THEN "ok" ELSE "ErrLib")
  /\ UNCHANGED <<instance, initialized, initOnceDone, initErr, native>>

LifeNext ==
  \E g \in Goroutines :
    \/ GetInstance(g)
    \/ PQoSInit(g)
    \/ PQoSFini(g)
    \/ IsInitialized(g)
    \/ GetInterface(g)

LifeSpec == LifeInit /\ [][LifeNext]_lifeVars

(***************************************************************************)
(* Properties.                                                             *)
(***************************************************************************)

\* Every goroutine whose last call was Init got the same answer as the single
\* pqos_init, whatever Init, Fini and failures happened in between: a failed
\* first initialization is never reported as success later.
InitAgreement ==
  \A g \in Goroutines : ret[g].op = "Init" => ret[g].val = InitOutcome

\* Whenever the bindings report themselves initialized, libpqos is
\* initialized too, so the hardware calls Init enabled can succeed (the Fini
\* comment says Init cannot be called again after Fini).
NativeInitWhenInitialized == initialized => native = "init"
=============================================================================
