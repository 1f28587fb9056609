-------------------------- MODULE CanaryCaseProofs --------------------------
(***************************************************************************)
(* What a verdict of run_canary_case says of the tree it was measured on,  *)
(* for any routes, variants, gold patches and number of repetitions.       *)
(*                                                                         *)
(* The argument follows the case.  While it is acquired, the tree without  *)
(* the edits of the install step is what the scenario has declared so far  *)
(* (Acquiring, Warm); from then on the tree, and every copy an arm read,   *)
(* lies between the locked tree and the locked tree with the edits of      *)
(* measured commands (Measured); and what a passing record needs of it     *)
(* stays as it was when the record was written (Passed).                   *)
(***************************************************************************)
EXTENDS CanaryCase, TLAPS

Edits == {"pre", "install", "gold", "patch", "run"}
Trees == [Files -> SUBSET Edits]
Label == {"base", "pre_install", "install_warm", "gold_patch", "test_files_reset", "test_patch"}
Entry == [label : Label, tree : Trees]
         \cup [label : Label, tree : Trees, applied : BOOLEAN]
         \cup [label : Label, tree : Trees, failed : SUBSET {"tests"}]
Acquisition == {"install", "gold", "reset", "patch"}
Phases == {"identity", "isolation", "acquire", "warmed", "measure", "measure-rtk", "cleanup", "ended"}
          \cup Acquisition

Typed ==
  /\ case \in CaseRecords
  /\ phase \in Phases
  /\ tree \in Trees /\ locked \in Trees
  /\ warm \in BOOLEAN
  /\ order \in Seq(Entry)
  /\ arms \in [Arms -> [done : Nat, seen : SUBSET Outcomes, read : SUBSET Trees]]

(* A record ends the case, and keeps the order as it is.                    *)
Recorded == record.status # "none" => /\ phase \in {"cleanup", "ended"}
                                      /\ record.order = order

(* Nothing was read and no measured command ran before the measurement.     *)
Unmeasured ==
  phase \notin {"measure", "measure-rtk", "cleanup", "ended"} =>
    /\ \A a \in Arms : arms[a].read = {}
    /\ \A f \in Files : "run" \notin tree[f]

Untouched == phase \in {"identity", "isolation", "acquire"} => tree = Pristine /\ order = << >>

(* What a publisher's case has declared before its gold patch, and after.   *)
PreEdits == [f \in Files |-> IF case.pre /\ f = "manifest" THEN {"pre"} ELSE {}]
GoldEdits == [f \in Files |-> IF case.variant = "fixed" /\ f \in case.gold THEN {"gold"} ELSE {}]

(* A boundary of the reset of the test files, and a reset that worked.      *)
IsReset(i) == i \in DOMAIN order /\ order[i].label = "test_files_reset"
ResetWorked == \E i \in DOMAIN order : IsReset(i) /\ order[i].failed = {}

(* The publisher's acquisition, phase by phase.                             *)
Acquiring ==
  /\ phase \in Acquisition => case.route = "publisher"
  /\ phase \in {"install", "gold", "reset"} => \A i \in DOMAIN order : ~IsReset(i)
  /\ phase = "install" => /\ Len(order) = 2 /\ order[2].tree = tree
                          /\ \A f \in Files : tree[f] = PreEdits[f]
  /\ phase = "gold" => /\ case.variant = "fixed"
                       /\ \A f \in Files : tree[f] \ {"install"} = PreEdits[f]
  /\ phase = "reset" /\ warm =>
       \A f \in Files : tree[f] \ {"install"} = PreEdits[f] \cup GoldEdits[f]
  /\ phase = "patch" =>
       /\ \E i \in DOMAIN order : IsReset(i)
       /\ ResetWorked => tree["tests"] = {}
       /\ warm => \A f \in Files \ {"tests"} :
                    tree[f] \ {"install"} = PreEdits[f] \cup GoldEdits[f]

(* The boundaries tell whether the install step touched a protected file.   *)
InstallShows ==
  (phase \in {"gold", "reset", "patch", "warmed"} /\ case.route = "publisher") =>
    /\ Len(order) >= 3
    /\ \A f \in Protected : /\ "install" \notin order[2].tree[f]
                            /\ order[3].tree[f] # order[2].tree[f] <=> "install" \in order[3].tree[f]
                            /\ "install" \in order[3].tree[f] <=> "install" \in tree[f]

(* What is locked: the declared edits, and some of the install step.        *)
LockedAsDeclared ==
  /\ case.route = "publisher" => \E i \in DOMAIN order : IsReset(i)
  /\ \A f \in Files :
       (case.route = "publisher" /\ f = "tests" => ResetWorked) =>
         locked[f] \ {"install"} = Declared(case)[f]

Warm ==
  phase = "warmed" =>
    /\ case.route \in Guarded
    /\ locked = tree /\ baseline = Tracked(locked)
    /\ warm => LockedAsDeclared

MeasuredOn ==
  /\ LockedAsDeclared
  /\ baseline = Tracked(locked)
  /\ \A f \in Files : /\ "run" \notin locked[f]
                      /\ locked[f] \subseteq tree[f] /\ tree[f] \subseteq locked[f] \cup {"run"}
                      /\ \A a \in Arms : \A t \in arms[a].read :
                           locked[f] \subseteq t[f] /\ t[f] \subseteq tree[f]
  /\ \A f \in Protected : "install" \notin locked[f]

Measured == (phase \in {"measure", "measure-rtk"} /\ case.route \in Guarded) => MeasuredOn

Passed == (record.status = "PASS" /\ case.route \in Guarded) =>
            MeasuredOn /\ PostMeasurementClean

(* The verifier reads a record, and accepts only a reset that worked.       *)
Audited == audit = "ok" => /\ record.status # "none"
                           /\ (case.route = "publisher" /\ \E i \in DOMAIN order : IsReset(i))
                                => ResetWorked

Inv == /\ Typed /\ Recorded /\ Unmeasured /\ Untouched /\ Acquiring /\ InstallShows
       /\ Warm /\ Measured /\ Passed /\ Audited /\ MutationVerdictsAreTrue

-----------------------------------------------------------------------------
LEMMA InvInit == Init => Inv
<1> SUFFICES ASSUME Init PROVE Inv
  OBVIOUS
<1>1. Typed
  BY DEF Init, Typed, Phases, Acquisition, Pristine, Trees, Edits, Arms, NoRuns
<1>2. Unmeasured /\ Untouched
  BY DEF Init, Unmeasured, Untouched, Pristine, Arms, NoRuns
<1>3. Recorded /\ Acquiring /\ InstallShows /\ Warm /\ Measured
  BY DEF Init, Recorded, Acquiring, Acquisition, InstallShows, Warm, Measured, NoRecord
<1>4. Passed /\ Audited /\ MutationVerdictsAreTrue
  BY DEF Init, Passed, Audited, MutationVerdictsAreTrue, NoRecord
<1> QED BY <1>1, <1>2, <1>3, <1>4 DEF Inv

-----------------------------------------------------------------------------
(* Steps that touch neither the tree nor what was read of it: gates that    *)
(* pass or reject, failures, the cleanup, and what others do meanwhile.     *)
data == <<case, tree, order, warm, baseline, locked, arms>>

Quiet ==
  /\ UNCHANGED data
  /\ \/ record' = record /\ phase' = phase
     \/ /\ record' = record
        /\ phase' \in {"cleanup", "ended"}
     \/ /\ record' = record
        /\ phase \in {"identity", "isolation"} /\ phase' \in {"isolation", "acquire"}
     \/ /\ record' = record
        /\ phase = "acquire" /\ phase' = "measure" /\ case.route \notin Guarded
     \/ /\ record' = record
        /\ phase = "measure" /\ phase' = "measure-rtk"
     \/ /\ phase \notin {"cleanup", "ended"} /\ phase' \in {"cleanup", "ended"}
        /\ record'.status \notin {"none", "PASS", "REJECTED_MUTATION"}
        /\ record'.order = order

(* Most steps leave the verifier's answer alone as well.                    *)
LEMMA QuietSteps ==
  ASSUME \/ IdentityGate \/ IsolationGate \/ AcquisitionFails \/ AcquirePlain
         \/ MeasurementFails \/ RawGate \/ Cleanup \/ ReplaceBinary \/ UNCHANGED vars
  PROVE  Quiet /\ audit' = audit
<1> USE DEF Quiet, data, Emit, Reject
<1>1. CASE IdentityGate
  BY <1>1 DEF IdentityGate
<1>2. CASE IsolationGate
  BY <1>2 DEF IsolationGate
<1>3. CASE AcquisitionFails
  BY <1>3 DEF AcquisitionFails
<1>4. CASE AcquirePlain
  BY <1>4 DEF AcquirePlain, Guarded, Patched
<1>5. CASE MeasurementFails
  BY <1>5 DEF MeasurementFails, Measuring
<1>6. CASE RawGate
  BY <1>6 DEF RawGate
<1>7. CASE Cleanup
  BY <1>7 DEF Cleanup
<1>8. CASE ReplaceBinary
  BY <1>8 DEF ReplaceBinary
<1>9. CASE UNCHANGED vars
  BY <1>9 DEF vars
<1> QED BY <1>1, <1>2, <1>3, <1>4, <1>5, <1>6, <1>7, <1>8, <1>9

LEMMA QuietKeepsDefinitions ==
  ASSUME UNCHANGED data
  PROVE  /\ ResetWorked' = ResetWorked
         /\ LockedAsDeclared' = LockedAsDeclared
         /\ MeasuredOn' = MeasuredOn
         /\ PostMeasurementClean' = PostMeasurementClean
<1>1. ResetWorked' = ResetWorked
  BY DEF data, ResetWorked, IsReset
<1>2. LockedAsDeclared' = LockedAsDeclared
  BY <1>1 DEF data, LockedAsDeclared, IsReset, Declared
<1>3. MeasuredOn' = MeasuredOn
  BY <1>2 DEF data, MeasuredOn, Tracked
<1>4. PostMeasurementClean' = PostMeasurementClean
  BY DEF data, PostMeasurementClean, Tracked
<1> QED BY <1>1, <1>2, <1>3, <1>4

(* What the verifier leaves to show is Audited.                             *)
LEMMA QuietKeepsInv ==
  ASSUME Inv, Quiet
  PROVE  /\ Typed' /\ Recorded' /\ Unmeasured' /\ Untouched' /\ Acquiring' /\ InstallShows'
         /\ Warm' /\ Measured' /\ Passed' /\ MutationVerdictsAreTrue'
<1> USE DEF Inv
<1>1. UNCHANGED data
  BY DEF Quiet
<1>2. Typed'
  BY <1>1 DEF Quiet, data, Typed, Phases
<1>3. Recorded'
  BY <1>1 DEF Quiet, data, Recorded
<1>4. Unmeasured' /\ Untouched'
  BY <1>1 DEF Quiet, data, Unmeasured, Untouched
<1>5. Acquiring'
  BY <1>1, QuietKeepsDefinitions DEF Quiet, data, Acquiring, Acquisition, IsReset, PreEdits, GoldEdits
<1>6. InstallShows'
  BY <1>1 DEF Quiet, data, InstallShows
<1>7. Warm'
  BY <1>1, QuietKeepsDefinitions DEF Quiet, data, Warm, Tracked
<1>8. Measured'
  BY <1>1, QuietKeepsDefinitions DEF Quiet, data, Measured
<1>9. Passed'
  BY <1>1, QuietKeepsDefinitions DEF Quiet, data, Passed
<1>10. MutationVerdictsAreTrue'
  BY <1>1 DEF Quiet, data, MutationVerdictsAreTrue
<1> QED BY <1>2, <1>3, <1>4, <1>5, <1>6, <1>7, <1>8, <1>9, <1>10

LEMMA QuietAudited ==
  ASSUME Inv, Quiet, audit' = audit
  PROVE  Audited'
<1>1. UNCHANGED data
  BY DEF Quiet
<1>2. record.status # "none" => record'.status # "none"
  BY DEF Quiet
<1> QED BY <1>1, <1>2, QuietKeepsDefinitions DEF Inv, Audited, data, IsReset

-----------------------------------------------------------------------------
(* The acquisition. *)

LEMMA EditedIsATree ==
  ASSUME NEW t \in Trees, NEW S, NEW e \in Edits
  PROVE  /\ Edited(t, S, e) \in Trees
         /\ \A f \in Files : Edited(t, S, e)[f] = IF f \in S THEN t[f] \cup {e} ELSE t[f]
BY DEF Edited, Trees

LEMMA BoundariesAreEntries ==
  ASSUME NEW label \in Label, NEW t \in Trees
  PROVE  /\ Boundary(label, t) \in Entry
         /\ \A ok \in BOOLEAN : Applied(ok, label, t) \in Entry
         /\ \A failed \in SUBSET {"tests"} :
              [label |-> label, tree |-> t, failed |-> failed] \in Entry
BY DEF Boundary, Applied, Entry

LEMMA AppendedBoundary ==
  ASSUME NEW o \in Seq(Entry), NEW b \in Entry
  PROVE  /\ Append(o, b) \in Seq(Entry)
         /\ Len(Append(o, b)) = Len(o) + 1
         /\ DOMAIN Append(o, b) = DOMAIN o \cup {Len(o) + 1}
         /\ \A i \in DOMAIN o : Append(o, b)[i] = o[i]
         /\ Append(o, b)[Len(o) + 1] = b
         /\ Len(o) \in Nat /\ DOMAIN o = 1..Len(o)
OBVIOUS

(* Until a record is written, a step of the acquisition has to show only    *)
(* this much.                                                               *)
LEMMA StillAcquiring ==
  ASSUME Inv, phase \in Acquisition \cup {"acquire"}, phase' \in Acquisition \cup {"warmed"},
         UNCHANGED <<case, arms, record, audit>>
  PROVE  Recorded' /\ Untouched' /\ Measured' /\ Passed' /\ Audited' /\ MutationVerdictsAreTrue'
<1>1. record.status = "none" /\ record'.status = "none"
  BY DEF Inv, Recorded, Acquisition
<1>2. audit # "ok" /\ audit' # "ok"
  BY <1>1 DEF Inv, Audited
<1>3. Recorded' /\ Passed' /\ MutationVerdictsAreTrue'
  BY <1>1 DEF Recorded, Passed, MutationVerdictsAreTrue
<1>4. Untouched' /\ Measured'
  BY DEF Untouched, Measured, Acquisition
<1>5. Audited'
  BY <1>2 DEF Audited
<1> QED BY <1>3, <1>4, <1>5

LEMMA PartsAreDeclared ==
  ASSUME NEW f \in Files
  PROVE  /\ PreEdits[f] \subseteq {"pre"} /\ GoldEdits[f] \subseteq {"gold"}
         /\ case.variant # "fixed" => GoldEdits[f] = {}
BY DEF PreEdits, GoldEdits

LEMMA PreInstallStep == Inv /\ PreInstall => Inv'
<1> SUFFICES ASSUME Inv, PreInstall PROVE Inv'
  OBVIOUS
<1>1. Typed /\ Untouched /\ Unmeasured
  BY DEF Inv
<1>2. PICK ok \in BOOLEAN :
        /\ tree' = IF case.pre THEN Edited(tree, {"manifest"}, "pre") ELSE tree
        /\ warm' = ok
        /\ order' = <<Boundary("base", tree), Boundary("pre_install", tree')>>
  BY DEF PreInstall
<1>3. /\ phase = "acquire" /\ phase' = "install" /\ case.route = "publisher"
      /\ UNCHANGED <<case, baseline, locked, binary, work, arms, record, audit>>
  BY DEF PreInstall
<1>4. tree = Pristine /\ tree \in Trees
  BY <1>1, <1>3 DEF Untouched, Typed
<1>5. /\ tree' \in Trees
      /\ \A f \in Files : tree'[f] = PreEdits[f]
  <2>1. CASE case.pre
    <3>1. tree' = Edited(tree, {"manifest"}, "pre") /\ "pre" \in Edits
      BY <1>2, <2>1 DEF Edits
    <3>2. /\ tree' \in Trees
          /\ \A f \in Files : tree'[f] = IF f \in {"manifest"} THEN tree[f] \cup {"pre"} ELSE tree[f]
      BY <1>4, <3>1, EditedIsATree
    <3> QED BY <1>4, <2>1, <3>2 DEF Pristine, PreEdits
  <2>2. CASE ~case.pre
    BY <1>2, <1>4, <2>2 DEF Pristine, PreEdits
  <2> QED BY <2>1, <2>2
<1>6. Boundary("base", tree) \in Entry /\ Boundary("pre_install", tree') \in Entry
  BY <1>4, <1>5, BoundariesAreEntries DEF Label
<1>7. /\ order' \in Seq(Entry) /\ Len(order') = 2 /\ DOMAIN order' = 1..2
      /\ order'[1] = Boundary("base", tree) /\ order'[2] = Boundary("pre_install", tree')
  BY <1>2, <1>6
<1>8. Typed'
  BY <1>1, <1>2, <1>3, <1>5, <1>7 DEF Typed, Phases, Acquisition
<1>9. Unmeasured'
  BY <1>1, <1>3, <1>5 DEF Unmeasured, PreEdits
<1>10. Acquiring'
  <2>1. \A i \in DOMAIN order' : order'[i].label # "test_files_reset"
    BY <1>7 DEF Boundary
  <2>2. order'[2].tree = tree'
    BY <1>7 DEF Boundary
  <2> QED BY <1>3, <1>5, <1>7, <2>1, <2>2 DEF Acquiring, Acquisition, IsReset, PreEdits
<1>11. InstallShows' /\ Warm'
  BY <1>3 DEF InstallShows, Warm
<1> QED BY <1>3, <1>8, <1>9, <1>10, <1>11, StillAcquiring DEF Inv, Acquisition

LEMMA InstallStep == Inv /\ Install => Inv'
<1> SUFFICES ASSUME Inv, Install PROVE Inv'
  OBVIOUS
<1>1. Typed /\ Acquiring /\ Unmeasured
  BY DEF Inv
<1>2. PICK ok \in BOOLEAN, touched \in SUBSET Files :
        /\ tree' = Edited(tree, touched, "install")
        /\ warm' = (warm /\ ok)
        /\ order' = Append(order, Boundary("install_warm", tree'))
  BY DEF Install
<1>3. /\ phase = "install" /\ phase' = IF case.variant = "fixed" THEN "gold" ELSE "reset"
      /\ UNCHANGED <<case, baseline, locked, binary, work, arms, record, audit>>
  BY DEF Install
<1>4. /\ case.route = "publisher" /\ Len(order) = 2 /\ order[2].tree = tree
      /\ \A f \in Files : tree[f] = PreEdits[f]
      /\ \A i \in DOMAIN order : ~IsReset(i)
  BY <1>1, <1>3 DEF Acquiring, Acquisition
<1>5. /\ tree' \in Trees
      /\ \A f \in Files : tree'[f] = PreEdits[f] \/ tree'[f] = PreEdits[f] \cup {"install"}
  <2>1. tree \in Trees /\ "install" \in Edits
    BY <1>1 DEF Typed, Edits
  <2>2. /\ tree' \in Trees
        /\ \A f \in Files : tree'[f] = IF f \in touched THEN tree[f] \cup {"install"} ELSE tree[f]
    <3>1. tree' = Edited(tree, touched, "install")
      BY <1>2
    <3> QED BY <2>1, <3>1, EditedIsATree
  <2> QED BY <1>4, <2>2
<1>6. Boundary("install_warm", tree') \in Entry /\ order \in Seq(Entry)
  BY <1>1, <1>5, BoundariesAreEntries DEF Typed, Label
<1>7. /\ order' \in Seq(Entry) /\ Len(order') = 3 /\ DOMAIN order' = DOMAIN order \cup {3}
      /\ \A i \in DOMAIN order : order'[i] = order[i]
      /\ DOMAIN order = 1..2
      /\ order'[3] = Boundary("install_warm", tree')
  BY <1>2, <1>4, <1>6, AppendedBoundary
<1>8. Typed'
  BY <1>1, <1>2, <1>3, <1>5, <1>7 DEF Typed, Phases, Acquisition
<1>9. Unmeasured'
  <2>1. \A a \in Arms : arms[a].read = {}
    BY <1>1, <1>3 DEF Unmeasured
  <2>2. \A f \in Files : "run" \notin PreEdits[f]
    BY PartsAreDeclared
  <2>3. \A f \in Files : "run" \notin tree'[f]
    BY <1>5, <2>2
  <2> QED BY <1>3, <2>1, <2>3 DEF Unmeasured
<1>10. Acquiring'
  <2>1. \A i \in DOMAIN order' : order'[i].label # "test_files_reset"
    BY <1>4, <1>7 DEF Boundary, IsReset
  <2>2. \A f \in Files : tree'[f] \ {"install"} = PreEdits[f]
    BY <1>5, PartsAreDeclared
  <2>3. case.variant # "fixed" => \A f \in Files : GoldEdits[f] = {}
    BY PartsAreDeclared
  <2> QED BY <1>3, <1>4, <2>1, <2>2, <2>3 DEF Acquiring, Acquisition, IsReset, PreEdits, GoldEdits
<1>11. InstallShows'
  <2>1. order'[2].tree = tree /\ order'[3].tree = tree'
    BY <1>4, <1>7 DEF Boundary
  <2>2. \A f \in Protected : f \in Files /\ "install" \notin PreEdits[f]
    BY PartsAreDeclared DEF Protected, Files
  <2>3. \A f \in Protected : /\ "install" \notin tree[f]
                             /\ tree'[f] # tree[f] <=> "install" \in tree'[f]
    BY <1>4, <1>5, <2>2
  <2> QED BY <1>7, <2>1, <2>3 DEF InstallShows
<1>12. Warm'
  BY <1>3 DEF Warm
<1> QED BY <1>3, <1>8, <1>9, <1>10, <1>11, <1>12, StillAcquiring DEF Inv, Acquisition

(* The steps after the install append a boundary that is about no other     *)
(* protected file.                                                          *)
LEMMA InstallStillShows ==
  ASSUME Typed, InstallShows, case.route = "publisher", phase \in {"gold", "reset", "patch"},
         NEW b \in Entry, order' = Append(order, b), case' = case,
         \A f \in Protected : "install" \in tree'[f] <=> "install" \in tree[f]
  PROVE  InstallShows'
<1>1. order \in Seq(Entry)
  BY DEF Typed
<1>2. /\ DOMAIN order = 1..Len(order) /\ Len(order) \in Nat /\ Len(order) >= 3
      /\ Len(order') = Len(order) + 1
      /\ \A i \in DOMAIN order : order'[i] = order[i]
  BY <1>1, AppendedBoundary DEF InstallShows
<1>3. order'[2] = order[2] /\ order'[3] = order[3]
  BY <1>2
<1> QED BY <1>2, <1>3 DEF InstallShows

LEMMA GoldPatchStep == Inv /\ GoldPatch => Inv'
<1> SUFFICES ASSUME Inv, GoldPatch PROVE Inv'
  OBVIOUS
<1>1. Typed /\ Acquiring /\ Unmeasured /\ InstallShows
  BY DEF Inv
<1>2. PICK ok \in BOOLEAN :
        /\ tree' = IF ok THEN Edited(tree, case.gold, "gold") ELSE tree
        /\ warm' = (warm /\ ok)
        /\ order' = Append(order, Applied(ok, "gold_patch", tree'))
  BY DEF GoldPatch
<1>3. /\ phase = "gold" /\ phase' = "reset"
      /\ UNCHANGED <<case, baseline, locked, binary, work, arms, record, audit>>
  BY DEF GoldPatch
<1>4. /\ case.route = "publisher" /\ case.variant = "fixed"
      /\ \A f \in Files : tree[f] \ {"install"} = PreEdits[f]
      /\ \A i \in DOMAIN order : order[i].label # "test_files_reset"
  BY <1>1, <1>3 DEF Acquiring, Acquisition, IsReset
<1>5. /\ tree' \in Trees
      /\ \A f \in Files : tree'[f] \ {"gold"} = tree[f] \ {"gold"}
      /\ ok => \A f \in Files : tree'[f] \ {"install"} = PreEdits[f] \cup GoldEdits[f]
  <2>1. tree \in Trees /\ "gold" \in Edits
    BY <1>1 DEF Typed, Edits
  <2>2. CASE ok
    <3>1. tree' = Edited(tree, case.gold, "gold")
      BY <1>2, <2>2
    <3>2. /\ tree' \in Trees
          /\ \A f \in Files : tree'[f] = IF f \in case.gold THEN tree[f] \cup {"gold"} ELSE tree[f]
      BY <2>1, <3>1, EditedIsATree
    <3>3. \A f \in Files : GoldEdits[f] = IF f \in case.gold THEN {"gold"} ELSE {}
      BY <1>4 DEF GoldEdits
    <3> QED BY <1>4, <3>2, <3>3
  <2>3. CASE ~ok
    BY <1>2, <2>1, <2>3
  <2> QED BY <2>2, <2>3
<1>6. Applied(ok, "gold_patch", tree') \in Entry /\ order \in Seq(Entry)
  BY <1>1, <1>5, BoundariesAreEntries DEF Typed, Label
<1>7. order' = Append(order, Applied(ok, "gold_patch", tree'))
  BY <1>2
<1>8. /\ order' \in Seq(Entry)
      /\ DOMAIN order' = DOMAIN order \cup {Len(order) + 1}
      /\ \A i \in DOMAIN order : order'[i] = order[i]
      /\ order'[Len(order) + 1] = Applied(ok, "gold_patch", tree')
  BY <1>6, <1>7, AppendedBoundary
<1>9. warm' \in BOOLEAN /\ (warm' => ok)
  BY <1>2, Zenon
<1>10. Typed'
  BY <1>1, <1>3, <1>5, <1>8, <1>9 DEF Typed, Phases, Acquisition
<1>11. Unmeasured'
  BY <1>1, <1>3, <1>5 DEF Unmeasured
<1>12. Acquiring'
  <2>1. \A i \in DOMAIN order' : order'[i].label # "test_files_reset"
    BY <1>4, <1>8 DEF Applied
  <2> QED BY <1>3, <1>4, <1>5, <1>9, <2>1 DEF Acquiring, Acquisition, IsReset, PreEdits, GoldEdits
<1>13. InstallShows'
  <2>1. \A f \in Protected : "install" \in tree'[f] <=> "install" \in tree[f]
    BY <1>5 DEF Protected, Files
  <2> QED BY <1>1, <1>3, <1>4, <1>6, <1>7, <2>1, InstallStillShows
<1>14. Warm'
  BY <1>3 DEF Warm
<1> QED BY <1>3, <1>10, <1>11, <1>12, <1>13, <1>14, StillAcquiring DEF Inv, Acquisition

LEMMA ResetStep == Inv /\ ResetTestFiles => Inv'
<1> SUFFICES ASSUME Inv, ResetTestFiles PROVE Inv'
  OBVIOUS
<1>1. Typed /\ Acquiring /\ Unmeasured /\ InstallShows
  BY DEF Inv
<1>2. PICK failed \in SUBSET {"tests"} :
        /\ tree' = [tree EXCEPT !["tests"] = IF failed = {} THEN {} ELSE @]
        /\ order' = Append(order, [label |-> "test_files_reset", tree |-> tree', failed |-> failed])
  BY DEF ResetTestFiles
<1>3. /\ phase = "reset" /\ phase' = "patch"
      /\ UNCHANGED <<case, warm, baseline, locked, binary, work, arms, record, audit>>
  BY DEF ResetTestFiles
<1> DEFINE b == [label |-> "test_files_reset", tree |-> tree', failed |-> failed]
<1>4. /\ case.route = "publisher"
      /\ warm => \A f \in Files : tree[f] \ {"install"} = PreEdits[f] \cup GoldEdits[f]
      /\ \A i \in DOMAIN order : order[i].label # "test_files_reset"
  BY <1>1, <1>3 DEF Acquiring, Acquisition, IsReset
<1>5. /\ tree' \in Trees
      /\ \A f \in Files \ {"tests"} : tree'[f] = tree[f]
      /\ \A f \in Files : tree'[f] \subseteq tree[f]
      /\ failed = {} => tree'["tests"] = {}
  BY <1>1, <1>2 DEF Typed, Trees, Files
<1>6. b \in Entry /\ order \in Seq(Entry)
  BY <1>1, <1>5, BoundariesAreEntries DEF Typed, Label
<1>7. /\ order' \in Seq(Entry)
      /\ DOMAIN order' = DOMAIN order \cup {Len(order) + 1}
      /\ \A i \in DOMAIN order : order'[i] = order[i]
      /\ order'[Len(order) + 1] = b
  BY <1>2, <1>6, AppendedBoundary
<1>8. Typed'
  BY <1>1, <1>3, <1>5, <1>7 DEF Typed, Phases, Acquisition
<1>9. Unmeasured'
  BY <1>1, <1>3, <1>5 DEF Unmeasured
<1>10. Acquiring'
  <2>1. order'[Len(order) + 1].label = "test_files_reset" /\ order'[Len(order) + 1].failed = failed
    BY <1>7
  <2>2. \E i \in DOMAIN order' : order'[i].label = "test_files_reset"
    BY <1>7, <2>1
  <2>3. \A i \in DOMAIN order' : order'[i].label = "test_files_reset" => order'[i].failed = failed
    BY <1>4, <1>7, <2>1
  <2>4. ResetWorked' => tree'["tests"] = {}
    BY <1>5, <2>3 DEF ResetWorked, IsReset
  <2> QED BY <1>3, <1>4, <1>5, <2>2, <2>4 DEF Acquiring, Acquisition, IsReset, PreEdits, GoldEdits
<1>11. InstallShows'
  <2>1. \A f \in Protected : "install" \in tree'[f] <=> "install" \in tree[f]
    BY <1>5 DEF Protected, Files
  <2> QED BY <1>1, <1>2, <1>3, <1>4, <1>6, <2>1, InstallStillShows
<1>12. Warm'
  BY <1>3 DEF Warm
<1> QED BY <1>3, <1>8, <1>9, <1>10, <1>11, <1>12, StillAcquiring DEF Inv, Acquisition

LEMMA TestPatchStep == Inv /\ TestPatch => Inv'
<1> SUFFICES ASSUME Inv, TestPatch PROVE Inv'
  OBVIOUS
<1>1. Typed /\ Acquiring /\ Unmeasured /\ InstallShows
  BY DEF Inv
<1>2. PICK ok \in BOOLEAN :
        /\ tree' = IF ok THEN Edited(tree, {"tests"}, "patch") ELSE tree
        /\ warm' = (warm /\ ok)
        /\ order' = Append(order, Applied(ok, "test_patch", tree'))
        /\ locked' = tree' /\ baseline' = Tracked(tree')
  BY DEF TestPatch
<1>3. /\ phase = "patch" /\ phase' = "warmed"
      /\ UNCHANGED <<case, binary, work, arms, record, audit>>
  BY DEF TestPatch
<1>4. /\ case.route = "publisher"
      /\ \E i \in DOMAIN order : IsReset(i)
      /\ ResetWorked => tree["tests"] = {}
      /\ warm => \A f \in Files \ {"tests"} :
                   tree[f] \ {"install"} = PreEdits[f] \cup GoldEdits[f]
  BY <1>1, <1>3 DEF Acquiring, Acquisition
<1>5. /\ tree' \in Trees
      /\ \A f \in Files \ {"tests"} : tree'[f] = tree[f]
      /\ tree'["tests"] \ {"patch"} = tree["tests"] \ {"patch"}
      /\ ok => tree'["tests"] = tree["tests"] \cup {"patch"}
  <2>1. tree \in Trees /\ "patch" \in Edits
    BY <1>1 DEF Typed, Edits
  <2>2. CASE ok
    <3>1. tree' = Edited(tree, {"tests"}, "patch")
      BY <1>2, <2>2
    <3>2. /\ tree' \in Trees
          /\ \A f \in Files : tree'[f] = IF f \in {"tests"} THEN tree[f] \cup {"patch"} ELSE tree[f]
      BY <2>1, <3>1, EditedIsATree
    <3> QED BY <3>2 DEF Files
  <2>3. CASE ~ok
    BY <1>2, <2>1, <2>3
  <2> QED BY <2>2, <2>3
<1>6. Applied(ok, "test_patch", tree') \in Entry /\ order \in Seq(Entry)
  BY <1>1, <1>5, BoundariesAreEntries DEF Typed, Label
<1>7. /\ order' = Append(order, Applied(ok, "test_patch", tree'))
      /\ locked' = tree' /\ baseline' = Tracked(tree')
  BY <1>2
<1>8. /\ order' \in Seq(Entry)
      /\ DOMAIN order' = DOMAIN order \cup {Len(order) + 1}
      /\ \A i \in DOMAIN order : order'[i] = order[i]
      /\ order'[Len(order) + 1] = Applied(ok, "test_patch", tree')
  BY <1>6, <1>7, AppendedBoundary
<1>9. warm' \in BOOLEAN /\ (warm' => warm /\ ok)
  BY <1>2, Zenon
<1>10. Typed'
  BY <1>1, <1>3, <1>5, <1>7, <1>8, <1>9 DEF Typed, Phases, Acquisition
<1>11. Unmeasured'
  <2>1. \A f \in Files : "run" \notin tree'[f]
    BY <1>1, <1>3, <1>5 DEF Unmeasured, Files
  <2> QED BY <1>1, <1>3, <2>1 DEF Unmeasured
<1>12. Acquiring'
  BY <1>3 DEF Acquiring, Acquisition
<1>13. InstallShows'
  <2>1. \A f \in Protected : "install" \in tree'[f] <=> "install" \in tree[f]
    BY <1>5 DEF Protected, Files
  <2> QED BY <1>1, <1>3, <1>4, <1>6, <1>7, <2>1, InstallStillShows
<1>14. Warm'
  <2>1. order'[Len(order) + 1].label = "test_patch"
    BY <1>8 DEF Applied
  <2>2. \E i \in DOMAIN order' : order'[i].label = "test_files_reset"
    BY <1>4, <1>8 DEF IsReset
  <2>3. ResetWorked' => ResetWorked
    BY <1>8, <2>1 DEF ResetWorked, IsReset
  <2>4. \A f \in Files : Declared(case)[f] = IF f = "tests" THEN {"patch"}
                                             ELSE PreEdits[f] \cup GoldEdits[f]
    BY <1>4 DEF Declared, PreEdits, GoldEdits, Patched, Files
  <2>5. ASSUME warm', NEW f \in Files, f = "tests" => ResetWorked'
        PROVE  locked'[f] \ {"install"} = Declared(case)[f]
    <3>1. CASE f = "tests"
      BY <1>4, <1>5, <1>7, <1>9, <2>3, <2>4, <2>5, <3>1
    <3>2. CASE f # "tests"
      BY <1>4, <1>5, <1>7, <1>9, <2>4, <2>5, <3>2
    <3> QED BY <3>1, <3>2
  <2>6. warm' => LockedAsDeclared'
    BY <1>3, <1>4, <2>2, <2>5 DEF LockedAsDeclared, IsReset, Declared
  <2> QED BY <1>3, <1>4, <1>7, <2>6 DEF Warm, Guarded, Patched, Tracked
<1> QED BY <1>3, <1>10, <1>11, <1>12, <1>13, <1>14, StillAcquiring DEF Inv, Acquisition

LEMMA AcquireGenericStep == Inv /\ AcquireGeneric => Inv'
<1> SUFFICES ASSUME Inv, AcquireGeneric PROVE Inv'
  OBVIOUS
<1>1. Typed /\ Untouched /\ Unmeasured
  BY DEF Inv
<1> DEFINE gold == IF case.variant = "fixed" THEN Edited(tree, case.gold, "gold") ELSE tree
           patched == IF case.route = "generic" THEN Edited(gold, {"tests"}, "patch") ELSE tree
<1>2. PICK ok \in BOOLEAN, touched \in SUBSET Files :
        /\ tree' = Edited(patched, touched, "install") /\ warm' = ok
        /\ locked' = tree' /\ baseline' = Tracked(tree')
  BY DEF AcquireGeneric
<1>3. /\ phase = "acquire" /\ phase' = "warmed" /\ case.route \in {"generic", "bugsinpy"}
      /\ UNCHANGED <<case, order, binary, work, arms, record, audit>>
  BY DEF AcquireGeneric
<1>4. tree = Pristine /\ tree \in Trees
  BY <1>1, <1>3 DEF Untouched, Typed
<1>0. {"gold", "patch", "install"} \subseteq Edits
  BY DEF Edits
<1>5. gold \in Trees /\ \A f \in Files : gold[f] = GoldEdits[f]
  <2>1. CASE case.variant = "fixed"
    <3>1. /\ Edited(tree, case.gold, "gold") \in Trees
          /\ \A f \in Files : Edited(tree, case.gold, "gold")[f]
                                = IF f \in case.gold THEN tree[f] \cup {"gold"} ELSE tree[f]
      BY <1>4, <1>0, EditedIsATree
    <3>2. gold = Edited(tree, case.gold, "gold")
      BY <2>1
    <3>3. \A f \in Files : tree[f] = {}
      BY <1>4 DEF Pristine
    <3> HIDE DEF gold
    <3>4. gold \in Trees /\ \A f \in Files : gold[f] = IF f \in case.gold THEN {"gold"} ELSE {}
      BY <3>1, <3>2, <3>3
    <3> QED BY <2>1, <3>4 DEF GoldEdits
  <2>2. CASE case.variant # "fixed"
    BY <1>4, <2>2 DEF GoldEdits, Pristine
  <2> QED BY <2>1, <2>2
<1>6. patched \in Trees /\ \A f \in Files : patched[f] = Declared(case)[f]
  <2> HIDE DEF gold
  <2>1. CASE case.route = "generic"
    <3>0. gold \in Trees /\ "patch" \in Edits
      BY <1>0, <1>5
    <3> HIDE DEF patched
    <3>1. ASSUME NEW t \in Trees
          PROVE  /\ Edited(t, {"tests"}, "patch") \in Trees
                 /\ \A f \in Files : Edited(t, {"tests"}, "patch")[f]
                                       = IF f \in {"tests"} THEN t[f] \cup {"patch"} ELSE t[f]
      BY <3>0, EditedIsATree
    <3>2. patched = Edited(gold, {"tests"}, "patch")
      BY <2>1 DEF patched
    <3>3. \A f \in Files : Declared(case)[f] = GoldEdits[f] \cup (IF f = "tests" THEN {"patch"} ELSE {})
      BY <2>1 DEF Declared, GoldEdits, Patched
    <3>4. /\ patched \in Trees
          /\ \A f \in Files : patched[f] = IF f \in {"tests"} THEN gold[f] \cup {"patch"} ELSE gold[f]
      BY <3>0, <3>1, <3>2
    <3> QED BY <1>5, <3>3, <3>4
  <2>2. CASE case.route = "bugsinpy"
    BY <1>4, <2>2 DEF Declared, Patched, Pristine
  <2> QED BY <1>3, <2>1, <2>2
<1> HIDE DEF patched
<1>7. /\ tree' \in Trees
      /\ \A f \in Files : tree'[f] = patched[f] \/ tree'[f] = patched[f] \cup {"install"}
  <2>1. /\ Edited(patched, touched, "install") \in Trees
        /\ \A f \in Files : Edited(patched, touched, "install")[f]
                              = IF f \in touched THEN patched[f] \cup {"install"} ELSE patched[f]
    BY <1>0, <1>6, EditedIsATree
  <2> QED BY <1>2, <2>1
<1>8. \A f \in Files : "install" \notin Declared(case)[f] /\ "run" \notin Declared(case)[f]
  BY DEF Declared
<1>9. \A f \in Files : /\ tree'[f] \ {"install"} = Declared(case)[f]
                       /\ "run" \notin tree'[f]
  BY <1>6, <1>7, <1>8
<1>10. Typed'
  BY <1>1, <1>2, <1>3, <1>7 DEF Typed, Phases
<1>11. Unmeasured'
  BY <1>1, <1>3, <1>9 DEF Unmeasured
<1>12. Acquiring' /\ InstallShows'
  BY <1>3 DEF Acquiring, Acquisition, InstallShows
<1>13. Warm'
  <2>1. \A f \in Files : locked'[f] \ {"install"} = Declared(case)[f]
    BY <1>2, <1>9
  <2>2. LockedAsDeclared'
    BY <1>3, <2>1 DEF LockedAsDeclared, Declared
  <2> QED BY <1>2, <1>3, <2>2 DEF Warm, Guarded, Patched, Tracked
<1> QED BY <1>3, <1>10, <1>11, <1>12, <1>13, StillAcquiring DEF Inv

LEMMA WarmGateStep == Inv /\ WarmGate => Inv'
<1> SUFFICES ASSUME Inv, WarmGate PROVE Inv'
  OBVIOUS
<1>1. Typed /\ Unmeasured /\ InstallShows /\ Warm
  BY DEF Inv
<1>2. /\ phase = "warmed"
      /\ UNCHANGED data /\ audit' = audit
  BY DEF WarmGate, data
<1>3. /\ case.route \in Guarded /\ locked = tree /\ baseline = Tracked(locked)
      /\ warm => LockedAsDeclared
      /\ \A f \in Files : "run" \notin tree[f]
      /\ \A a \in Arms : arms[a].read = {}
  BY <1>1, <1>2 DEF Warm, Unmeasured
<1>4. CASE ~warm
  <2>1. Quiet
    BY <1>2, <1>4 DEF WarmGate, Reject, Emit, Quiet
  <2> QED BY <1>2, <2>1, QuietKeepsInv, QuietAudited DEF Inv
<1>5. CASE warm /\ CommittedMutated # {}
  <2>1. record' = [status |-> "REJECTED_MUTATION", order |-> order] /\ phase' = "cleanup"
    BY <1>5 DEF WarmGate, Reject, Emit
  <2>2. Typed'
    BY <1>1, <1>2, <2>1 DEF Typed, Phases, data
  <2>3. Recorded' /\ Unmeasured' /\ Untouched' /\ Acquiring' /\ InstallShows' /\ Warm' /\ Measured' /\ Passed'
    BY <1>2, <2>1 DEF Recorded, Unmeasured, Untouched, Acquiring, Acquisition, InstallShows, Warm,
                      Measured, Passed, data
  <2>4. Audited'
    <3>1. audit # "ok"
      BY <1>2 DEF Inv, Audited, Recorded
    <3> QED BY <1>2, <3>1 DEF Audited
  <2>5. MutationVerdictsAreTrue'
    <3>1. PICK f \in Protected : f \in CommittedMutated
      BY <1>5 DEF CommittedMutated
    <3>2. f \in Files /\ f = "manifest"
      BY DEF Protected, Files
    <3>3. CASE case.route = "publisher"
      <4>1. order[3].tree[f] # order[2].tree[f]
        BY <3>1, <3>3 DEF CommittedMutated
      <4>2. "install" \in tree[f]
        BY <1>1, <1>2, <3>1, <3>3, <4>1 DEF InstallShows
      <4> QED BY <1>2, <3>2, <4>2 DEF MutationVerdictsAreTrue, data
    <3>4. CASE case.route # "publisher"
      <4>1. tree[f] # {}
        BY <3>1, <3>4 DEF CommittedMutated
      <4>2. tree[f] \ {"install"} = Declared(case)[f]
        BY <1>3, <1>5, <3>2, <3>4 DEF LockedAsDeclared
      <4>3. CASE "install" \in tree[f]
        BY <1>2, <3>2, <4>3 DEF MutationVerdictsAreTrue, data
      <4>4. CASE "install" \notin tree[f]
        <5>1. Declared(case)[f] # {}
          BY <4>1, <4>2, <4>4
        <5>2. case.variant = "fixed" /\ case.route \in Patched /\ f \in case.gold
          BY <3>2, <3>4, <5>1 DEF Declared
        <5> QED BY <1>2, <3>1, <3>4, <5>2 DEF MutationVerdictsAreTrue, Patched, data
      <4> QED BY <4>3, <4>4
    <3> QED BY <3>3, <3>4
  <2> QED BY <2>2, <2>3, <2>4, <2>5 DEF Inv
<1>6. CASE warm /\ CommittedMutated = {}
  <2>1. record' = record /\ phase' = "measure"
    BY <1>6 DEF WarmGate
  <2>2. \A f \in Protected : "install" \notin locked[f]
    <3> SUFFICES ASSUME NEW f \in Protected PROVE "install" \notin tree[f]
      BY <1>3
    <3>1. f \notin CommittedMutated
      BY <1>6
    <3>2. CASE case.route = "publisher"
      <4>1. order[3].tree[f] = order[2].tree[f]
        BY <3>1, <3>2 DEF CommittedMutated
      <4> QED BY <1>1, <1>2, <3>2, <4>1 DEF InstallShows
    <3>3. CASE case.route # "publisher"
      BY <3>1, <3>3 DEF CommittedMutated
    <3> QED BY <3>2, <3>3
  <2>3. MeasuredOn
    BY <1>3, <1>6, <2>2 DEF MeasuredOn
  <2>4. MeasuredOn'
    BY <1>2, <2>3, QuietKeepsDefinitions
  <2>5. record.status = "none" /\ audit # "ok"
    BY <1>2 DEF Inv, Recorded, Audited
  <2>6. Typed'
    BY <1>1, <1>2, <2>1 DEF Typed, Phases, data
  <2>7. Recorded' /\ Unmeasured' /\ Untouched' /\ Acquiring' /\ InstallShows' /\ Warm' /\ Passed'
        /\ Audited' /\ MutationVerdictsAreTrue'
    BY <1>2, <2>1, <2>5 DEF Recorded, Unmeasured, Untouched, Acquiring, Acquisition, InstallShows, Warm,
                            Passed, Audited, MutationVerdictsAreTrue
  <2>8. Measured'
    BY <2>4 DEF Measured
  <2> QED BY <2>6, <2>7, <2>8 DEF Inv
<1> QED BY <1>4, <1>5, <1>6

-----------------------------------------------------------------------------
(* The measurement. *)

LEMMA RepStep == Inv /\ Rep => Inv'
<1> SUFFICES ASSUME Inv, Rep PROVE Inv'
  OBVIOUS
<1>1. Typed /\ Measured
  BY DEF Inv
<1>2. PICK outcome \in Outcomes,
           damage \in {{}} \cup (IF case.route \in Guarded THEN {{f} : f \in Files} ELSE {}) :
        /\ arms' = [arms EXCEPT ![CurrentArm] =
                      [done |-> @.done + 1, seen |-> @.seen \cup {outcome}, read |-> @.read \cup {tree}]]
        /\ tree' = Edited(tree, damage, "run")
  BY DEF Rep
<1>3. /\ phase \in {"measure", "measure-rtk"}
      /\ UNCHANGED <<case, phase, order, warm, baseline, locked, binary, work, record, audit>>
  BY DEF Rep, Measuring
<1>4. record.status = "none" /\ audit # "ok" /\ CurrentArm \in Arms
  BY <1>3 DEF Inv, Recorded, Audited, CurrentArm, Arms
<1>5. /\ tree' \in Trees
      /\ \A f \in Files : tree[f] \subseteq tree'[f] /\ tree'[f] \subseteq tree[f] \cup {"run"}
  <2>1. tree \in Trees /\ "run" \in Edits /\ tree' = Edited(tree, damage, "run")
    BY <1>1, <1>2 DEF Typed, Edits
  <2>2. /\ tree' \in Trees
        /\ \A f \in Files : tree'[f] = IF f \in damage THEN tree[f] \cup {"run"} ELSE tree[f]
    BY <2>1, EditedIsATree
  <2> QED BY <2>2
<1>6. /\ arms' \in [Arms -> [done : Nat, seen : SUBSET Outcomes, read : SUBSET Trees]]
      /\ \A a \in Arms : arms'[a].read \subseteq arms[a].read \cup {tree}
  BY <1>1, <1>2, <1>4 DEF Typed
<1>7. Typed'
  BY <1>1, <1>3, <1>5, <1>6 DEF Typed
<1>8. Recorded' /\ Unmeasured' /\ Untouched' /\ Acquiring' /\ InstallShows' /\ Warm' /\ Passed'
      /\ Audited' /\ MutationVerdictsAreTrue'
  BY <1>3, <1>4 DEF Recorded, Unmeasured, Untouched, Acquiring, Acquisition, InstallShows, Warm,
                    Passed, Audited, MutationVerdictsAreTrue
<1>9. Measured'
  <2> SUFFICES ASSUME case.route \in Guarded PROVE MeasuredOn'
    BY <1>3 DEF Measured
  <2>1. MeasuredOn
    BY <1>1, <1>3 DEF Measured
  <2>2. LockedAsDeclared'
    BY <1>3, <2>1 DEF MeasuredOn, LockedAsDeclared, ResetWorked, IsReset, Declared
  <2>3. \A f \in Files : locked[f] \subseteq tree'[f] /\ tree'[f] \subseteq locked[f] \cup {"run"}
    BY <1>5, <2>1 DEF MeasuredOn
  <2>4. ASSUME NEW f \in Files, NEW a \in Arms, NEW t \in arms'[a].read
        PROVE  locked[f] \subseteq t[f] /\ t[f] \subseteq tree'[f]
    <3>1. t \in arms[a].read \/ t = tree
      BY <1>6
    <3> QED BY <1>5, <2>1, <3>1 DEF MeasuredOn
  <2> QED BY <1>3, <2>1, <2>2, <2>3, <2>4 DEF MeasuredOn, Tracked
<1> QED BY <1>7, <1>8, <1>9 DEF Inv

LEMMA DockerRepStep == Inv /\ DockerRep => Inv'
<1> SUFFICES ASSUME Inv, DockerRep PROVE Inv'
  OBVIOUS
<1>1. Typed
  BY DEF Inv
<1>2. PICK outcome \in Outcomes :
        arms' = [arms EXCEPT ![CurrentArm].done = @ + 1, ![CurrentArm].seen = @ \cup {outcome}]
  BY DEF DockerRep
<1>3. /\ phase \in {"measure", "measure-rtk"} /\ case.route = "docker"
      /\ UNCHANGED <<case, phase, tree, order, warm, baseline, locked, binary, work, record, audit>>
  BY DEF DockerRep, Measuring
<1>4. record.status = "none" /\ audit # "ok" /\ CurrentArm \in Arms
  BY <1>3 DEF Inv, Recorded, Audited, CurrentArm, Arms
<1>5. Typed'
  <2> DEFINE once == [arms EXCEPT ![CurrentArm].done = @ + 1]
             Runs == [done : Nat, seen : SUBSET Outcomes, read : SUBSET Trees]
  <2>1. arms \in [Arms -> Runs] /\ arms[CurrentArm] \in Runs
    BY <1>1, <1>4 DEF Typed
  <2>2. [arms[CurrentArm] EXCEPT !.done = @ + 1] \in Runs
    BY <2>1
  <2>3. once \in [Arms -> Runs] /\ once[CurrentArm] \in Runs
    BY <1>4, <2>1, <2>2
  <2>4. arms' = [once EXCEPT ![CurrentArm].seen = @ \cup {outcome}]
    BY <1>2
  <2> HIDE DEF once
  <2>5. [once[CurrentArm] EXCEPT !.seen = @ \cup {outcome}] \in Runs
    BY <2>3
  <2>6. arms' \in [Arms -> Runs]
    BY <1>4, <2>3, <2>4, <2>5
  <2> QED BY <1>1, <1>3, <2>6 DEF Typed
<1>6. Recorded' /\ Unmeasured' /\ Untouched' /\ Acquiring' /\ InstallShows' /\ Warm' /\ Passed'
      /\ Audited' /\ MutationVerdictsAreTrue'
  BY <1>3, <1>4 DEF Recorded, Unmeasured, Untouched, Acquiring, Acquisition, InstallShows, Warm,
                    Passed, Audited, MutationVerdictsAreTrue
<1>7. Measured'
  BY <1>3 DEF Measured, Guarded, Patched
<1> QED BY <1>5, <1>6, <1>7 DEF Inv

LEMMA RtkGateStep == Inv /\ RtkGate => Inv'
<1> SUFFICES ASSUME Inv, RtkGate PROVE Inv'
  OBVIOUS
<1>1. Typed /\ Measured
  BY DEF Inv
<1>2. /\ phase = "measure-rtk" /\ phase' = "cleanup"
      /\ UNCHANGED data /\ audit' = audit
      /\ \E status : record' = [status |-> status, order |-> order]
  BY DEF RtkGate, Reject, Emit, data
<1>3. audit # "ok" /\ record.status = "none"
  BY <1>2 DEF Inv, Recorded, Audited
<1>4. Typed'
  BY <1>1, <1>2 DEF Typed, Phases, data
<1>5. Recorded' /\ Unmeasured' /\ Untouched' /\ Acquiring' /\ InstallShows' /\ Warm' /\ Measured' /\ Audited'
  BY <1>2, <1>3 DEF Recorded, Unmeasured, Untouched, Acquiring, Acquisition, InstallShows, Warm,
                    Measured, Audited, data
<1>6. Passed'
  <2> SUFFICES ASSUME record'.status = "PASS", case.route \in Guarded
               PROVE  MeasuredOn' /\ PostMeasurementClean'
    BY <1>2 DEF Passed, data
  <2>1. PostMeasurementClean
    BY DEF RtkGate, Reject, Emit
  <2>2. MeasuredOn
    BY <1>1, <1>2 DEF Measured
  <2> QED BY <1>2, <2>1, <2>2, QuietKeepsDefinitions
<1>7. MutationVerdictsAreTrue'
  <2> SUFFICES ASSUME record'.status = "REJECTED_MUTATION"
               PROVE  \E f \in Files : tree[f] \cap {"run", "install"} # {}
    BY <1>2 DEF MutationVerdictsAreTrue, data
  <2>1. case.route \in Guarded /\ ~PostMeasurementClean
    BY DEF RtkGate, Reject, Emit
  <2>2. MeasuredOn
    BY <1>1, <1>2, <2>1 DEF Measured
  <2>3. PICK f \in Files : tree[f] # locked[f]
    BY <2>1, <2>2 DEF MeasuredOn, PostMeasurementClean, Tracked, Protected, Files
  <2>4. locked[f] \subseteq tree[f] /\ tree[f] \subseteq locked[f] \cup {"run"}
    BY <2>2 DEF MeasuredOn
  <2>5. "run" \in tree[f]
    <3> SUFFICES ASSUME "run" \notin tree[f] PROVE tree[f] = locked[f]
      BY <2>3
    <3>1. \A e : e \in tree[f] <=> e \in locked[f]
      BY <2>4
    <3>2. tree[f] = {e \in tree[f] : TRUE} /\ locked[f] \subseteq tree[f] /\ tree[f] \subseteq locked[f]
      BY <2>4, <3>1
    <3> QED BY <3>1, <3>2
  <2> QED BY <2>5
<1> QED BY <1>4, <1>5, <1>6, <1>7 DEF Inv

(* The verifier accepts only an order whose reset, if there was one, left   *)
(* no test file unrestored.                                                 *)
LEMMA OrderHoldsMeansReset ==
  ASSUME Typed, OrderHolds(order, case.variant), \E i \in DOMAIN order : IsReset(i)
  PROVE  ResetWorked
<1> DEFINE j == CHOOSE i \in 1..Len(order) : order[i].label = "test_files_reset"
<1>1. DOMAIN order = 1..Len(order)
  BY DEF Typed
<1>2. j \in DOMAIN order /\ order[j].label = "test_files_reset"
  BY <1>1 DEF IsReset
<1>3. order[j].failed = {}
  BY DEF OrderHolds
<1> QED BY <1>2, <1>3 DEF ResetWorked, IsReset

LEMMA VerifyStep == Inv /\ VerifyAcquisitionOrder => Inv'
<1> SUFFICES ASSUME Inv, VerifyAcquisitionOrder PROVE Inv'
  OBVIOUS
<1>1. /\ record.status # "none" /\ UNCHANGED data /\ UNCHANGED <<phase, record>>
      /\ audit' = "ok" => OrderHolds(record.order, case.variant)
  BY DEF VerifyAcquisitionOrder, data
<1>2. Quiet
  BY <1>1 DEF Quiet
<1>3. record.order = order
  BY <1>1 DEF Inv, Recorded
<1>4. Audited'
  <2> SUFFICES ASSUME audit' = "ok", \E i \in DOMAIN order : IsReset(i)
               PROVE  ResetWorked
    BY <1>1, QuietKeepsDefinitions DEF Audited, IsReset, data
  <2>1. Typed /\ OrderHolds(order, case.variant)
    BY <1>1, <1>3 DEF Inv
  <2> QED BY <2>1, OrderHoldsMeansReset
<1> QED BY <1>2, <1>4, QuietKeepsInv DEF Inv

LEMMA NextStep == Inv /\ [Next]_vars => Inv'
<1> SUFFICES ASSUME Inv, [Next]_vars PROVE Inv'
  OBVIOUS
<1>1. CASE \/ IdentityGate \/ IsolationGate \/ AcquisitionFails \/ AcquirePlain
           \/ MeasurementFails \/ RawGate \/ Cleanup \/ ReplaceBinary \/ UNCHANGED vars
  BY <1>1, QuietSteps, QuietKeepsInv, QuietAudited DEF Inv
<1>2. CASE PreInstall \/ Install \/ GoldPatch \/ ResetTestFiles \/ TestPatch
  BY <1>2, PreInstallStep, InstallStep, GoldPatchStep, ResetStep, TestPatchStep
<1>3. CASE AcquireGeneric \/ WarmGate \/ Rep \/ DockerRep \/ RtkGate \/ VerifyAcquisitionOrder
  BY <1>3, AcquireGenericStep, WarmGateStep, RepStep, DockerRepStep, RtkGateStep, VerifyStep
<1> QED BY <1>1, <1>2, <1>3 DEF Next

LEMMA InvMeansAuditedPass == Inv => AuditedPassRanOnTheDeclaredInput
<1> SUFFICES ASSUME Inv, record.status = "PASS", case.route \in Guarded,
                    case.route = "publisher" => audit = "ok",
                    NEW t \in arms["raw"].read \cup arms["rtk"].read, NEW f \in Files
             PROVE  /\ t[f] \ {"run", "install"} = Declared(case)[f]
                    /\ (f \in Protected \/ f \notin baseline) => "run" \notin t[f]
                    /\ f \in Protected => "install" \notin t[f]
  BY DEF AuditedPassRanOnTheDeclaredInput
<1>1. MeasuredOn /\ PostMeasurementClean
  BY DEF Inv, Passed
<1>2. case.route = "publisher" => ResetWorked
  BY <1>1 DEF Inv, Audited, MeasuredOn, LockedAsDeclared
<1>3. locked[f] \ {"install"} = Declared(case)[f]
  BY <1>1, <1>2 DEF MeasuredOn, LockedAsDeclared
<1>4. /\ "run" \notin locked[f] /\ baseline = Tracked(locked)
      /\ tree[f] \subseteq locked[f] \cup {"run"}
      /\ locked[f] \subseteq t[f] /\ t[f] \subseteq tree[f]
      /\ f \in Protected => "install" \notin locked[f]
  BY <1>1 DEF MeasuredOn, Arms
<1>5. /\ f \in Protected => tree[f] = locked[f]
      /\ f \notin baseline => tree[f] = {}
  BY <1>1 DEF PostMeasurementClean, Tracked
<1>6. t[f] \ {"run", "install"} = locked[f] \ {"install"}
  <2>1. \A e : e \in t[f] \ {"run", "install"} <=> e \in locked[f] \ {"install"}
    BY <1>4
  <2> QED BY <2>1
<1> QED BY <1>3, <1>4, <1>5, <1>6

-----------------------------------------------------------------------------
(* A case that passed, and whose acquisition order the verifier accepted,  *)
(* was measured on the input its scenario declares: run_canary_case and    *)
(* verify_acquisition_order together, for every scenario the routes,       *)
(* variants and gold patches allow and any number of repetitions.          *)
THEOREM AuditedPassesAreDeclared == Spec => []AuditedPassRanOnTheDeclaredInput
<1>1. Inv /\ [Next]_vars => Inv'
  BY NextStep
<1> QED BY InvInit, <1>1, InvMeansAuditedPass, PTL DEF Spec

(* A verdict of mutation is never given on a declared patch alone, but for *)
(* a generic case whose own gold patch touches a protected file.           *)
THEOREM MutationVerdictsHold == Spec => []MutationVerdictsAreTrue
<1>1. Inv /\ [Next]_vars => Inv'
  BY NextStep
<1>2. Inv => MutationVerdictsAreTrue
  BY DEF Inv
<1> QED BY InvInit, <1>1, <1>2, PTL DEF Spec
=============================================================================
