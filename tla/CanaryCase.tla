----------------------------- MODULE CanaryCase -----------------------------
(***************************************************************************)
(* One native-corpus case from its gates to its record (run_canary_case):  *)
(* the RTK identity gate, the network isolation, the acquisition of the    *)
(* frozen input in the publisher's order, three repetitions per arm in     *)
(* fresh copies, the two acceptance gates, the mutation guards and the one *)
(* record written; then the acquisition-order verifier over that record.   *)
(*                                                                         *)
(* A file's content is the set of edits made to the committed version:     *)
(* "pre" and "install" by the publisher's steps, "gold" and "patch" by the *)
(* two declared patches, "run" by a measured command that reaches the      *)
(* frozen tree (an editable install does).  What a measured command does   *)
(* to the frozen tree is not undone by a later one.                        *)
(***************************************************************************)
EXTENDS Naturals, Sequences, FiniteSets

CONSTANTS
    Routes,      \* how the case is acquired: publisher, generic, bugsinpy, plain, docker
    Variants,    \* "fixed" applies the gold patch, "buggy" does not
    GoldSets,    \* the files a gold patch touches
    Reps         \* repetitions per arm (REPS)

ASSUME RepsAssumption == Reps \in Nat \ {0}

Files == {"manifest", "src", "tests"}
Protected == {"manifest"}
Pristine == [f \in Files |-> {}]
NoRecord == [status |-> "none"]
Patched == {"publisher", "generic"}
Guarded == Patched \cup {"bugsinpy"}

VARIABLES case, phase, tree, order, warm, baseline, locked, binary, work, arms, record, audit
vars == <<case, phase, tree, order, warm, baseline, locked, binary, work, arms, record, audit>>

Arms == {"raw", "rtk"}
Outcomes == {<<0, "good">>, <<0, "bad">>, <<1, "bad">>, <<124, "bad">>}     \* exit and canonical stream; 124 timed out
NoRuns == [done |-> 0, seen |-> {}, read |-> {}]
Tracked(t) == {f \in Files : t[f] # {}}
Edited(t, files, edit) == [f \in Files |-> IF f \in files THEN t[f] \cup {edit} ELSE t[f]]

(* What the scenario declares: the tree an accepted measurement ran on.    *)
Declared(c) ==
    [f \in Files |->
        (IF c.pre /\ c.route = "publisher" /\ f = "manifest" THEN {"pre"} ELSE {})
        \cup (IF c.variant = "fixed" /\ c.route \in Patched /\ f \in c.gold /\ ~(f = "tests" /\ c.route = "publisher")
              THEN {"gold"} ELSE {})
        \cup (IF c.route \in Patched /\ f = "tests" THEN {"patch"} ELSE {})]

CaseRecords ==
    {c \in [route : Routes, variant : Variants, gold : GoldSets, pre : BOOLEAN, rtkArgv : BOOLEAN] :
       /\ c.route = "publisher" => c.rtkArgv
       /\ c.route # "publisher" => ~c.pre
       /\ c.route \notin Patched => (c.variant = "buggy" /\ c.gold = {"src"})
       /\ c.variant = "buggy" => c.gold = {"src"}}

Init ==
    /\ case \in CaseRecords
    /\ phase = "identity" /\ tree = Pristine /\ order = <<>> /\ warm = TRUE
    /\ baseline = {} /\ locked = Pristine /\ binary \in {"pinned", "other"}
    /\ work \in {"absent", "stuck"}
    /\ arms = [a \in Arms |-> NoRuns] /\ record = NoRecord /\ audit = "none"

(* Every status is written by emit; a rejection ends the case.             *)
Emit(status) == record' = [status |-> status, order |-> order]
Reject(status) == Emit(status) /\ phase' = "cleanup"

-----------------------------------------------------------------------------
(* The gates before anything is acquired. *)

IdentityGate ==
    /\ phase = "identity"
    /\ IF binary = "pinned" THEN phase' = "isolation" /\ UNCHANGED record
       ELSE Emit("REJECTED_RTK_IDENTITY") /\ phase' = "ended"
    /\ UNCHANGED <<case, tree, order, warm, baseline, locked, binary, work, arms, audit>>

(* resolve_isolation: the first of the mechanisms that starts and denies.  *)
Mechanisms == {"none", "unshare-rn", "unshare-n-root", "sudo-unshare-n"}

IsolationGate ==
    /\ phase = "isolation"
    /\ \/ case.route = "docker" /\ phase' = "acquire" /\ UNCHANGED record
       \/ /\ case.route # "docker"
          /\ \E method \in Mechanisms, denied \in BOOLEAN :
                IF method = "none" THEN Emit("REJECTED_NO_ISOLATION") /\ phase' = "ended"
                ELSE IF ~denied THEN Emit("REJECTED_ISOLATION_LEAK") /\ phase' = "ended"
                ELSE phase' = "acquire" /\ UNCHANGED record
    /\ UNCHANGED <<case, tree, order, warm, baseline, locked, binary, work, arms, audit>>

-----------------------------------------------------------------------------
(* Acquisition. *)

(* A pin that does not hold raises SystemExit, which no handler records; a *)
(* command that fails raises an error, recorded as REJECTED_ERROR.         *)
AcquisitionFails ==
    /\ phase = "acquire"
    /\ \/ case.route # "docker" /\ phase' = "cleanup" /\ UNCHANGED record
       \/ Reject("REJECTED_ERROR")
    /\ UNCHANGED <<case, tree, order, warm, baseline, locked, binary, work, arms, audit>>

(* The git, file, log and docker scenarios prepare their own state.        *)
AcquirePlain ==
    /\ phase = "acquire" /\ case.route \in {"plain", "docker"}
    /\ phase' = "measure"
    /\ UNCHANGED <<case, tree, order, warm, baseline, locked, binary, work, arms, record, audit>>

(* No recipe: the declared patches first (a BugsInPy case has none), then  *)
(* the generic warm step; the guard compares with the pristine checkout,   *)
(* taken before the patches.                                               *)
AcquireGeneric ==
    /\ phase = "acquire" /\ case.route \in {"generic", "bugsinpy"}
    /\ \E ok \in BOOLEAN, touched \in SUBSET Files :
         LET gold    == IF case.variant = "fixed" THEN Edited(tree, case.gold, "gold") ELSE tree
             patched == IF case.route = "generic" THEN Edited(gold, {"tests"}, "patch") ELSE tree
             warmed  == Edited(patched, touched, "install")
         IN  /\ tree' = warmed /\ warm' = ok
             /\ locked' = warmed /\ baseline' = Tracked(warmed)
             /\ phase' = "warmed"
    /\ UNCHANGED <<case, order, binary, work, arms, record, audit>>

Boundary(label, t) == [label |-> label, tree |-> t]
Applied(exit, label, t) == [label |-> label, tree |-> t, applied |-> exit]

(* The publisher's order, each boundary with the worktree it saw.          *)
PreInstall ==
    /\ phase = "acquire" /\ case.route = "publisher"
    /\ \E ok \in BOOLEAN :
         /\ tree' = IF case.pre THEN Edited(tree, {"manifest"}, "pre") ELSE tree
         /\ warm' = ok
         /\ order' = <<Boundary("base", tree), Boundary("pre_install", tree')>>
    /\ phase' = "install"
    /\ UNCHANGED <<case, baseline, locked, binary, work, arms, record, audit>>

Install ==
    /\ phase = "install"
    /\ \E ok \in BOOLEAN, touched \in SUBSET Files :
         /\ tree' = Edited(tree, touched, "install")
         /\ warm' = (warm /\ ok)
         /\ order' = Append(order, Boundary("install_warm", tree'))
    /\ phase' = IF case.variant = "fixed" THEN "gold" ELSE "reset"
    /\ UNCHANGED <<case, baseline, locked, binary, work, arms, record, audit>>

GoldPatch ==
    /\ phase = "gold"
    /\ \E ok \in BOOLEAN :
         /\ tree' = IF ok THEN Edited(tree, case.gold, "gold") ELSE tree
         /\ warm' = (warm /\ ok)
         /\ order' = Append(order, Applied(ok, "gold_patch", tree'))
    /\ phase' = "reset"
    /\ UNCHANGED <<case, baseline, locked, binary, work, arms, record, audit>>

(* A file that git cannot restore is listed, and the acquisition goes on.  *)
ResetTestFiles ==
    /\ phase = "reset"
    /\ \E failed \in SUBSET {"tests"} :
         /\ tree' = [tree EXCEPT !["tests"] = IF failed = {} THEN {} ELSE @]
         /\ order' = Append(order, [label |-> "test_files_reset", tree |-> tree', failed |-> failed])
    /\ phase' = "patch"
    /\ UNCHANGED <<case, warm, baseline, locked, binary, work, arms, record, audit>>

TestPatch ==
    /\ phase = "patch"
    /\ \E ok \in BOOLEAN :
         /\ tree' = IF ok THEN Edited(tree, {"tests"}, "patch") ELSE tree
         /\ warm' = (warm /\ ok)
         /\ order' = Append(order, Applied(ok, "test_patch", tree'))
         /\ locked' = tree' /\ baseline' = Tracked(tree')
    /\ phase' = "warmed"
    /\ UNCHANGED <<case, binary, work, arms, record, audit>>

(* committed_mutated: across the install alone for a publisher recipe,     *)
(* from the pristine checkout to the end for the generic warm step.        *)
CommittedMutated ==
    IF case.route = "publisher"
    THEN {f \in Protected : order[2].tree[f] # order[3].tree[f]}
    ELSE {f \in Protected : tree[f] # {}}

WarmGate ==
    /\ phase = "warmed"
    /\ IF ~warm THEN Reject("REJECTED_WARM")
       ELSE IF CommittedMutated # {} THEN Reject("REJECTED_MUTATION")
       ELSE phase' = "measure" /\ UNCHANGED record
    /\ UNCHANGED <<case, tree, order, warm, baseline, locked, binary, work, arms, audit>>

-----------------------------------------------------------------------------
(* Measurement. *)

CurrentArm == IF phase = "measure" THEN "raw" ELSE "rtk"
Measuring == phase \in {"measure", "measure-rtk"}

(* A repetition: the leftover of the fixed path is removed, the frozen     *)
(* tree copied and the command run in the copy.  A timeout is an outcome.  *)
Rep ==
    /\ Measuring /\ case.route # "docker" /\ work = "absent"
    /\ arms[CurrentArm].done < Reps
    /\ \E outcome \in Outcomes, damage \in {{}} \cup (IF case.route \in Guarded THEN {{f} : f \in Files} ELSE {}) :
         /\ arms' = [arms EXCEPT ![CurrentArm] =
                       [done |-> @.done + 1, seen |-> @.seen \cup {outcome}, read |-> @.read \cup {tree}]]
         /\ tree' = Edited(tree, damage, "run")
    /\ UNCHANGED <<case, phase, order, warm, baseline, locked, binary, work, record, audit>>

(* A leftover that cannot be removed makes the copy fail, and a timeout of *)
(* the docker command line is not caught by its arm: both are errors.      *)
MeasurementFails ==
    /\ Measuring /\ arms[CurrentArm].done < Reps
    /\ work = "stuck" \/ case.route = "docker"
    /\ Reject("REJECTED_ERROR")
    /\ UNCHANGED <<case, tree, order, warm, baseline, locked, binary, work, arms, audit>>

DockerRep ==
    /\ Measuring /\ case.route = "docker" /\ arms[CurrentArm].done < Reps
    /\ \E outcome \in Outcomes :
         arms' = [arms EXCEPT ![CurrentArm].done = @ + 1, ![CurrentArm].seen = @ \cup {outcome}]
    /\ UNCHANGED <<case, phase, tree, order, warm, baseline, locked, binary, work, record, audit>>

ArmAccepted(a) ==
    /\ arms[a].done = Reps
    /\ \A o, p \in arms[a].seen : o = p            \* one exit code, one canonical stream
    /\ \A o \in arms[a].seen : o[1] # 124 /\ o[2] = "good"

RawGate ==
    /\ phase = "measure" /\ arms["raw"].done = Reps
    /\ IF ~ArmAccepted("raw") THEN Reject("RAW_REJECTED")
       ELSE IF ~case.rtkArgv THEN Reject("RTK_REJECTED")
       ELSE phase' = "measure-rtk" /\ UNCHANGED record
    /\ UNCHANGED <<case, tree, order, warm, baseline, locked, binary, work, arms, audit>>

(* _post_measurement_state: which tracked files show as modified, and the  *)
(* protected files' hashes, against the acquisition.                       *)
OnlyTheNames == Tracked(tree) \subseteq baseline          \* a mutant: hashes are not compared
AgainstTheCommit == Tracked(tree) = {}                    \* a mutant: no baseline
PostMeasurementClean ==
    /\ Tracked(tree) \subseteq baseline
    /\ \A f \in Protected : tree[f] = locked[f]

RtkGate ==
    /\ phase = "measure-rtk" /\ arms["rtk"].done = Reps
    /\ IF case.route \in Guarded /\ ~PostMeasurementClean THEN Reject("REJECTED_MUTATION")
       ELSE IF ArmAccepted("rtk") /\ binary = "pinned"
            THEN Reject("PASS") \/ Reject("REJECTED_ERROR")   \* the token counter may fail
            ELSE Reject("RTK_REJECTED")
    /\ UNCHANGED <<case, tree, order, warm, baseline, locked, binary, work, arms, audit>>

Cleanup ==
    /\ phase = "cleanup" /\ phase' = "ended"
    /\ UNCHANGED <<case, tree, order, warm, baseline, locked, binary, work, arms, record, audit>>

(* Somebody replaces the binary while the case runs.                       *)
ReplaceBinary ==
    /\ Measuring /\ binary = "pinned" /\ binary' = "other"
    /\ UNCHANGED <<case, phase, tree, order, warm, baseline, locked, work, arms, record, audit>>

-----------------------------------------------------------------------------
(* verify_acquisition_order over the record's boundaries. *)

Labels(variant) ==
    <<"base", "pre_install", "install_warm">> \o (IF variant = "fixed" THEN <<"gold_patch">> ELSE <<>>)
    \o <<"test_files_reset", "test_patch">>

OrderHolds(o, variant) ==
    LET at(label) == o[CHOOSE i \in 1..Len(o) : o[i].label = label]
    IN  /\ [i \in 1..Len(o) |-> o[i].label] = Labels(variant)
        /\ \A f \in Protected : at("pre_install").tree[f] = at("install_warm").tree[f]
        /\ variant = "fixed" => /\ at("gold_patch").applied
                                /\ at("gold_patch").tree # at("install_warm").tree
        /\ at("test_files_reset").failed = {}
        /\ at("test_patch").applied
        /\ LET middle == IF variant = "fixed" THEN at("gold_patch") ELSE at("install_warm")
           IN  /\ Tracked(at("install_warm").tree) \subseteq Tracked(middle.tree)
               /\ Tracked(middle.tree) \subseteq Tracked(at("test_patch").tree)

VerifyAcquisitionOrder ==
    /\ phase = "ended" /\ audit = "none" /\ record.status # "none" /\ case.route = "publisher"
    /\ audit' = IF record.order # <<>> /\ OrderHolds(record.order, case.variant) THEN "ok" ELSE "refused"
    /\ UNCHANGED <<case, phase, tree, order, warm, baseline, locked, binary, work, arms, record>>

Next ==
    \/ IdentityGate \/ IsolationGate \/ AcquisitionFails \/ AcquirePlain \/ AcquireGeneric
    \/ PreInstall \/ Install \/ GoldPatch \/ ResetTestFiles \/ TestPatch \/ WarmGate
    \/ Rep \/ MeasurementFails \/ DockerRep \/ RawGate \/ RtkGate \/ Cleanup
    \/ ReplaceBinary \/ VerifyAcquisitionOrder

Spec == Init /\ [][Next]_vars

-----------------------------------------------------------------------------
(* A case that passed, and whose acquisition order the verifier accepted,  *)
(* was measured on the input its scenario declares: every repetition of    *)
(* both arms read the declared edits, no edit of the install step to a     *)
(* protected file, and an edit of the measured command only in a file that *)
(* git already reported as modified after the acquisition, where the guard *)
(* of run_canary_case cannot tell one modification from two.               *)
AuditedPassRanOnTheDeclaredInput ==
    (record.status = "PASS" /\ case.route \in Guarded /\ (case.route = "publisher" => audit = "ok")) =>
        \A t \in arms["raw"].read \cup arms["rtk"].read : \A f \in Files :
            /\ t[f] \ {"run", "install"} = Declared(case)[f]
            /\ (f \in Protected \/ f \notin baseline) => "run" \notin t[f]
            /\ f \in Protected => "install" \notin t[f]

(* A case is rejected for a mutation only when something other than a      *)
(* declared patch changed the tree; the generic route also rejects a       *)
(* scenario whose own patch touches a protected file.                      *)
MutationVerdictsAreTrue ==
    record.status = "REJECTED_MUTATION" =>
        \/ \E f \in Files : tree[f] \cap {"run", "install"} # {}
        \/ case.route = "generic" /\ case.variant = "fixed" /\ case.gold \cap Protected # {}
=============================================================================
