---------------------------- MODULE IntersectScan ----------------------------
(***************************************************************************)
(* CanonicalStore::scan_intersect on a store that `open` returned, as the   *)
(* loop the code runs: one step per key of the index, in key order, with    *)
(* the running total of records and the early stop.                         *)
(* CanonicalStore!ScanIntersect says in one expression what the loop has    *)
(* collected when it ends; this module shows they agree.  A scan borrows    *)
(* its store and changes nothing but its own locals.                        *)
(***************************************************************************)
EXTENDS StoreOpen

CONSTANTS CandidateBudgets, SupportBudgets  \* the bounds callers pass

ASSUME BudgetsArePositive == /\ CandidateBudgets \subseteq Nat \ {0}
                             /\ SupportBudgets \subseteq Nat \ {0}

VARIABLES call,     \* the arguments, or NoCall
          pending,  \* keys not visited yet
          support,  \* key -> evidence stored for it
          total,    \* records stored
          stopped   \* the bound met, or NoStop

scanLocals == <<pending, support, total, stopped>>
scanVars == <<call, scanLocals>>

NoCall == [store |-> "none"]

ScanInit == /\ Init
            /\ call = NoCall
            /\ pending = {} /\ support = << >> /\ total = 0 /\ stopped = NoStop

(* The call: an index the store has and sections it declares, at least one. *)
(* A scan reads nothing but its store, so it runs between calls of `open`   *)
(* and while one store is open (a bound: two add nothing).                  *)
BeginScan(st, name, wanted, maxCandidates, maxSupport) ==
  /\ call = NoCall
  /\ phase = "idle" /\ opened = {st}
  /\ name \in DOMAIN st.indexes
  /\ wanted # {} /\ wanted \subseteq st.sections
  /\ call' = [store |-> st, name |-> name, wanted |-> wanted,
              maxCandidates |-> maxCandidates, maxSupport |-> maxSupport]
  /\ pending' = DOMAIN st.indexes[name]
  /\ support' = << >> /\ total' = 0 /\ stopped' = NoStop
  /\ UNCHANGED vars

Scanned == call.store.indexes[call.name]

(* The key the iteration is at.                                             *)
At(k) == /\ call # NoCall
         /\ stopped = NoStop
         /\ k \in pending
         /\ \A q \in pending : k <= q

Qualifies(k) == k \in Qualifying(Scanned, call.wanted)
Cost(k) == Cardinality(Evidence(Scanned, call.wanted, k))
CandidatesFull == Cardinality(DOMAIN support) >= call.maxCandidates
(* Mutant: the budget refuses an exact fit.                                 *)
CostlyAtLimit(k) == total + Cost(k) >= call.maxSupport
TooCostly(k) == total + Cost(k) > call.maxSupport

(* Some wanted section has no record with this key: `continue`.             *)
Skip(k) == /\ At(k)
           /\ ~Qualifies(k)
           /\ pending' = pending \ {k}
           /\ UNCHANGED <<vars, call, support, total, stopped>>

(* A qualifying candidate beyond the candidate budget: `break`.             *)
BreakOnCandidates(k) ==
  /\ At(k)
  /\ Qualifies(k)
  /\ CandidatesFull
  /\ stopped' = StopCandidates(call.maxCandidates)
  /\ UNCHANGED <<vars, call, pending, support, total>>

(* Mutant: the key is passed over and the scan goes on.                     *)
PassOver(k) ==
  /\ At(k)
  /\ Qualifies(k)
  /\ ~CandidatesFull
  /\ TooCostly(k)
  /\ pending' = pending \ {k}
  /\ UNCHANGED <<vars, call, support, total, stopped>>

(* Its evidence does not fit whole, so none of it is stored: `break`.       *)
BreakOnSupport(k) ==
  /\ At(k)
  /\ Qualifies(k)
  /\ ~CandidatesFull
  /\ TooCostly(k)
  /\ stopped' = StopSupport(call.maxSupport)
  /\ UNCHANGED <<vars, call, pending, support, total>>

Keep(k) ==
  /\ At(k)
  /\ Qualifies(k)
  /\ ~CandidatesFull
  /\ ~TooCostly(k)
  /\ pending' = pending \ {k}
  /\ total' = total + Cost(k)
  /\ support' = [q \in DOMAIN support \cup {k} |->
                   IF q = k THEN Evidence(Scanned, call.wanted, k) ELSE support[q]]
  /\ UNCHANGED <<vars, call, stopped>>

Finished == call # NoCall /\ (pending = {} \/ stopped # NoStop)

(* The result is the caller's, and the locals are gone.                     *)
EndScan == /\ Finished
           /\ call' = NoCall
           /\ pending' = {} /\ support' = << >> /\ total' = 0 /\ stopped' = NoStop
           /\ UNCHANGED vars

ScanStep(k) == Skip(k) \/ BreakOnCandidates(k) \/ BreakOnSupport(k) \/ Keep(k)

ScanNext ==
  \/ call = NoCall /\ Next /\ UNCHANGED scanVars
  \/ \E st \in opened : \E name \in DOMAIN st.indexes, wanted \in SUBSET st.sections,
        c \in CandidateBudgets, s \in SupportBudgets : BeginScan(st, name, wanted, c, s)
  \/ \E k \in pending : ScanStep(k)
  \/ EndScan

ScanSpec == ScanInit /\ [][ScanNext]_<<vars, scanVars>>

-----------------------------------------------------------------------------
(* What the loop collects is what ScanIntersect says: every qualifying key  *)
(* up to the first that does not fit, whole, and the bound that one met     *)
(* (store.rs:414-443).                                                      *)
Reported == ScanIntersect(call.store, call.name, call.wanted,
                          call.maxCandidates, call.maxSupport)
LoopAgreesWithReport ==
  Finished => /\ stopped = Reported.stopped
              /\ DOMAIN support = DOMAIN Reported.support
              /\ \A k \in DOMAIN support :
                   Reported.support[k] = BindAll(call.store, support[k])

(* A scan that met no bound holds every qualifying key; one that met a      *)
(* bound left at least one out, so its result never passes for complete     *)
(* (store.rs:424-441).                                                      *)
CompleteExactlyWhenUnstopped ==
  Finished => (stopped = NoStop <=> DOMAIN support = Qualifying(Scanned, call.wanted))
=============================================================================
