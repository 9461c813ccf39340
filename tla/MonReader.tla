----------------------------- MODULE MonReader -----------------------------
(***************************************************************************)
(* The unlocked MonData getters GetIPC and GetLLCMissRate                  *)
(* (src/lib/go/pqos/monitoring.go) running beside MonPoll, which rewrites  *)
(* MonData.Values under p.mu in updateMonDataFromC.  The getters take no   *)
(* lock, so a getter and a poll race on the struct: the struct copy is a   *)
(* sequence of word stores whose order a racing reader cannot rely on, and *)
(* each field the getter names is a separate load.  Under the data race    *)
(* the compiler may also reuse the first load of the denominator for the   *)
(* division instead of loading it again; both builds are modelled.         *)
(*                                                                         *)
(* Only the four delta fields the getters read are kept.  A poll publishes *)
(* a new snapshot of them, chosen by libpqos.                              *)
(***************************************************************************)
EXTENDS Naturals, Sequences

CONSTANTS
  Readers,    \* goroutines calling the getters
  Vals,       \* the delta values a poll can produce
  MaxPolls    \* bound: number of MonPoll calls

ASSUME 0 \in Vals /\ MaxPolls \in Nat

\* The fields of EventValues the getters read.
Fields == {"IPCRetiredDelta", "IPCUnhaltedDelta", "LLCMissDelta", "LLCRefDelta"}

\* Numerator and denominator field of each getter.
Num(get) == IF get = "GetIPC" THEN "IPCRetiredDelta" ELSE "LLCMissDelta"
Den(get) == IF get = "GetIPC" THEN "IPCUnhaltedDelta" ELSE "LLCRefDelta"

Getters == {"GetIPC", "GetLLCMissRate"}

Snapshot == [Fields -> Vals]

VARIABLES
  values,     \* MonData.Values as stored in memory
  hist,       \* the snapshots MonPoll has begun to publish, oldest first
  pending,    \* fields of the newest snapshot not yet stored
  pc,         \* pc[r]: where reader r is in its getter
  get,        \* get[r]: which getter reader r runs
  den1,       \* den1[r]: first load of the denominator
  num,        \* num[r]: load of the numerator
  res,        \* res[r]: the float64 the getter returned
  lo          \* lo[r]: index in hist of the last snapshot complete when r started

vars == <<values, hist, pending, pc, get, den1, num, res, lo>>

\* A float64 result: 0.0, a ratio n/d with d # 0, +Inf or NaN.
Results == [kind : {"none", "zero", "inf", "nan"}, n : {0}, d : {0}]
             \union [kind : {"ratio"}, n : Vals, d : Vals \ {0}]
NoResult == [kind |-> "none", n |-> 0, d |-> 0]

\* float64(n) / float64(d) in IEEE arithmetic.
Divide(n, d) ==
  IF d # 0 THEN [kind |-> "ratio", n |-> n, d |-> d]
  ELSE IF n # 0 THEN [kind |-> "inf", n |-> 0, d |-> 0]
  ELSE [kind |-> "nan", n |-> 0, d |-> 0]

ZeroSnapshot == [f \in Fields |-> 0]

\* cMonDataToGo has copied the zero deltas of a freshly started group.
Init ==
  /\ values = ZeroSnapshot
  /\ hist = <<ZeroSnapshot>>
  /\ pending = {}
  /\ pc = [r \in Readers |-> "idle"]
  /\ get = [r \in Readers |-> "GetIPC"]
  /\ den1 = [r \in Readers |-> 0]
  /\ num = [r \in Readers |-> 0]
  /\ res = [r \in Readers |-> NoResult]
  /\ lo = [r \in Readers |-> 1]

ReaderVars == <<pc, get, den1, num, res, lo>>

(***************************************************************************)
(* The writer: MonPoll with p.mu held.  pqos_mon_poll fills the C struct   *)
(* with a new snapshot, then updateMonDataFromC stores its fields.         *)
(***************************************************************************)
MonPollBegin ==
  /\ pending = {}
  /\ Len(hist) <= MaxPolls
  /\ \E s \in Snapshot :
       /\ hist' = Append(hist, s)
       /\ pending' = Fields
  /\ UNCHANGED <<values, ReaderVars>>

\* group.Values = EventValues{...}: one field store at a time.
StoreField ==
  \E f \in pending :
    /\ values' = [values EXCEPT ![f] = hist[Len(hist)][f]]
    /\ pending' = pending \ {f}
    /\ UNCHANGED <<hist, ReaderVars>>

\* Index of the newest snapshot that is completely stored.
Complete == IF pending = {} THEN Len(hist) ELSE Len(hist) - 1

(***************************************************************************)
(* The readers: GetIPC / GetLLCMissRate, no lock.                          *)
(*   if m.Values.<den> == 0 { return 0.0 }                                 *)
(*   return float64(m.Values.<num>) / float64(m.Values.<den>)              *)
(***************************************************************************)
Call(r) ==
  /\ pc[r] = "idle"
  /\ \E g \in Getters : get' = [get EXCEPT ![r] = g]
  /\ pc' = [pc EXCEPT ![r] = "den1"]
  /\ lo' = [lo EXCEPT ![r] = Complete]
  /\ res' = [res EXCEPT ![r] = NoResult]
  /\ UNCHANGED <<values, hist, pending, den1, num>>

\* Mutant: the getter divides without the zero check.
LoadDenNoCheck(r) ==
  /\ pc[r] = "den1"
  /\ den1' = [den1 EXCEPT ![r] = values[Den(get[r])]]
  /\ pc' = [pc EXCEPT ![r] = "num"]
  /\ UNCHANGED <<values, hist, pending, get, num, res, lo>>

\* The zero check: return 0.0 on a zero denominator.
LoadDen(r) ==
  /\ pc[r] = "den1"
  /\ LET d == values[Den(get[r])] IN
       /\ den1' = [den1 EXCEPT ![r] = d]
       /\ IF d = 0
            THEN /\ res' = [res EXCEPT ![r] = [kind |-> "zero", n |-> 0, d |-> 0]]
                 /\ pc' = [pc EXCEPT ![r] = "idle"]
            ELSE /\ pc' = [pc EXCEPT ![r] = "num"]
                 /\ UNCHANGED res
  /\ UNCHANGED <<values, hist, pending, get, num, lo>>

LoadNum(r) ==
  /\ pc[r] = "num"
  /\ num' = [num EXCEPT ![r] = values[Num(get[r])]]
  /\ pc' = [pc EXCEPT ![r] = "den2"]
  /\ UNCHANGED <<values, hist, pending, get, den1, res, lo>>

\* The division: the denominator is loaded again, or the first load reused.
Divide2(r) ==
  /\ pc[r] = "den2"
  /\ \E d \in {values[Den(get[r])], den1[r]} :
       res' = [res EXCEPT ![r] = Divide(num[r], d)]
  /\ pc' = [pc EXCEPT ![r] = "idle"]
  /\ UNCHANGED <<values, hist, pending, get, den1, num, lo>>

Next ==
  \/ MonPollBegin
  \/ StoreField
  \/ \E r \in Readers : Call(r) \/ LoadDen(r) \/ LoadNum(r) \/ Divide2(r)

Spec == Init /\ [][Next]_vars

(***************************************************************************)
(* Properties                                                              *)
(***************************************************************************)

\* What the getter promises of one snapshot s: 0.0 when the denominator
\* delta is 0, otherwise the ratio of s's numerator and denominator.
Describes(x, g, s) ==
  IF s[Den(g)] = 0 THEN x.kind = "zero"
  ELSE x.kind = "ratio" /\ x.n * s[Den(g)] = s[Num(g)] * x.d

Returned(r) == pc[r] = "idle" /\ res[r] # NoResult

\* A GetIPC / GetLLCMissRate call that no MonPoll overlapped returns
\* exactly the getter's value for the snapshot stored: 0.0 on a zero
\* denominator (the zero check of monitoring.go), never +Inf or NaN.
QuiescentReadExact ==
  \A r \in Readers :
    (Returned(r) /\ pending = {} /\ Len(hist) = lo[r])
      => Describes(res[r], get[r], hist[lo[r]])

\* Every getter call returns the value of one snapshot MonPoll published
\* between the call and its return (possibly a stale one), as a reader
\* of a MonData filled by MonPoll expects; never a mix of two snapshots,
\* +Inf or NaN.
SnapshotConsistent ==
  \A r \in Readers :
    Returned(r) => \E j \in lo[r]..Len(hist) : Describes(res[r], get[r], hist[j])
=============================================================================
