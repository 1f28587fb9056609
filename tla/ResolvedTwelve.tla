-------------------------- MODULE ResolvedTwelve --------------------------
(***************************************************************************)
(* The resolved twelve of the native corpus: the manifest that fixes the   *)
(* roster, the bridge that carries records of the generation before it,    *)
(* the qualification of each case, and the aggregation that derives the    *)
(* claim "twelve cases passed" from the records and their evidence.        *)
(*                                                                         *)
(* A world is what is on disk: the closure's store, the manifest, the      *)
(* bridge's frozen inputs, the records, the retained evidence, and the     *)
(* code (a version per module).  The hash of a file stands for its content.*)
(***************************************************************************)
EXTENDS ResolvedClosure
LOCAL O == INSTANCE CaseOracles

Generation == 3                                                      \* MANIFEST_GENERATION
CoreutilsType == "n2e-coreutils-qualification"
CaseType == "n2e-resolved-case-qualification"
Dialect(id) == [kind |-> "rtk_test_dialect", dialect |-> <<id>>, oracle |-> <<>>]
Oracle(id)  == [kind |-> "rtk_command_oracle", dialect |-> <<>>, oracle |-> <<id>>]
QualificationModel ==
    [c \in {Coreutils} |-> Dialect(DialectId)] @@
    [c \in {"apache__lucene-13704::jvm::test::buggy"} |-> Dialect("rtk-jvm-test-summary-v1")] @@
    [c \in {"vuejs__core-11589::js_ts::test::buggy"} |-> Dialect("rtk-js-vitest-summary-v1")] @@
    [c \in {"bugsinpy::scrapy-9::python::pytest::fixed"} |-> Dialect("rtk-python-pytest-summary-v1")] @@
    [c \in {"caddyserver__caddy-5870::go::test::buggy"} |-> Dialect("rtk-go-test-summary-v1")] @@
    [c \in {"container::redis::docker::images"} |-> Oracle("rtk-docker-images-oracle-v1")] @@
    [c \in {"gin-gonic__gin-2755::go::vet"} |-> Oracle("rtk-go-vet-oracle-v1")] @@
    [c \in {"loghub::HDFS::log"} |-> Oracle("rtk-log-hdfs-oracle-v1")] @@
    [c \in {"php-cs-fixer__php-cs-fixer-8075::git::commit"} |-> Oracle("rtk-git-commit-oracle-v1")] @@
    [c \in {"preactjs__preact-3345::files_search::read", "projectlombok__lombok-3312::files_search::read"} |->
        Oracle("rtk-files-read-oracle-v1")] @@
    [c \in {"rubocop__rubocop-13687::git::show"} |-> Oracle("rtk-git-show-merge-first-parent-oracle-v1")]
DispatchPolicy(caseId) ==                                              \* 0: not routed to a registry
    CASE caseId = "loghub::HDFS::log" -> 2
      [] caseId = "rubocop__rubocop-13687::git::show" -> 3
      [] caseId = "php-cs-fixer__php-cs-fixer-8075::git::commit" -> 4
      [] caseId = "container::redis::docker::images" -> 5
      [] OTHER -> 0
CqModules == {"rtk-rust-cargo-test-summary-v1", "rtk-jvm-test-summary-v1", "rtk-js-vitest-summary-v1",
              "rtk-python-pytest-summary-v1", "rtk-go-test-summary-v1", "rtk-go-vet-oracle-v1", "rtk-files-read-oracle-v1"}
ProofId(e) == (e.dialect \o e.oracle)[1]

-----------------------------------------------------------------------------
(* An entry's hash covers what decides the case's result: its contract,    *)
(* the policies, and the code behind them as it is NOW.                    *)

FirstOf(items, caseId) == SelectSeq(items, LAMBDA x : x.case = caseId)
BaseContractOf(w, caseId) == FirstOf(Body(w.store, "contract").items, caseId)
OverlayOf(w, caseId)  == FirstOf(Body(w.store, "overlay").items, caseId)
Digest(versions, id) == IF id \in DOMAIN versions THEN <<versions[id]>> ELSE <<>>
Projection(code, e, contract, overlay) ==
    [case |-> e.case, kind |-> e.kind, type |-> e.type,
     execution |-> IF contract = <<>> THEN <<>> ELSE contract[1].control,
     canon |-> <<e.canon, Digest(code.canon, e.canon)>>,
     proof |-> <<ProofId(e), IF ProofId(e) \in CqModules THEN Digest(code.proof, ProofId(e)) ELSE <<>> >>,
     rtk |-> e.rtk, toolchain |-> e.toolchain, contract |-> contract, overlay |-> overlay]
EntryHash(w, e) == Projection(w.code, e, BaseContractOf(w, e.case), OverlayOf(w, e.case))

(* build_manifest.  A case without its contract or its mode is refused.    *)
PlainEntry(caseId, x) ==
    [case |-> caseId, kind |-> QualificationModel[caseId].kind, dialect |-> QualificationModel[caseId].dialect,
     oracle |-> QualificationModel[caseId].oracle, canon |-> x.canon, generation |-> x.generation,
     toolchain |-> x.toolchain, rtk |-> ProvenRtk, type |-> IF caseId = Coreutils THEN CoreutilsType ELSE CaseType,
     dispatch |-> DispatchPolicy(caseId)]
ExecutionContract(w, caseId) == IF caseId = Coreutils THEN OverlayOf(w, caseId) ELSE BaseContractOf(w, caseId)
DerivedEntries(w) ==
    [i \in DOMAIN EffectiveIds(w.store) |->
        LET caseId == EffectiveIds(w.store)[i]
            e == PlainEntry(caseId, ExecutionContract(w, caseId)[1])
        IN  [entry |-> e, hash |-> EntryHash(w, e)]]
Pins(w) == [membership |-> w.store.membership, base |-> w.store.contract, contract |-> w.store.overlay, lock |-> w.store.lock]
BuildManifest(w) ==
    LET ids == EffectiveIds(w.store)
    IN  IF Len(ids) = 12 /\ Cardinality(ToSet(ids)) = 12
           /\ \A i \in DOMAIN ids : ids[i] \in DOMAIN QualificationModel /\ ExecutionContract(w, ids[i]) # <<>>
        THEN <<[ok |-> TRUE, type |-> "n2e-resolved-twelve-manifest", generation |-> Generation, pins |-> Pins(w),
                cardinality |-> 12, ids |-> ids, cases |-> DerivedEntries(w)]>>
        ELSE <<>>
TwoModes(e) ==
    /\ (e.kind = "rtk_test_dialect" /\ e.dialect # <<>> /\ e.oracle = <<>>)
       \/ (e.kind = "rtk_command_oracle" /\ e.oracle # <<>> /\ e.dialect = <<>>)
    /\ e.dispatch # 0 => e.kind = "rtk_command_oracle"
VerifyManifest(w, m) ==
    /\ m.ok /\ m.type = "n2e-resolved-twelve-manifest" /\ m.generation = Generation /\ m.pins = Pins(w)
    /\ m.cardinality = 12 /\ Len(m.cases) = 12 /\ Cardinality(ToSet(m.ids)) = 12
    /\ [i \in DOMAIN m.cases |-> m.cases[i].entry.case] = m.ids /\ m.ids = EffectiveIds(w.store)
    /\ \A i \in DOMAIN m.cases : m.cases[i].entry = DerivedEntries(w)[i].entry /\ TwoModes(m.cases[i].entry)
EntryOf(m, caseId) == (SelectSeq(m.cases, LAMBDA x : x.entry.case = caseId))[1]

(* The bridge: which cases' projections are the same under the manifest    *)
(* and contract of the generation before.  Both sides use today's code.    *)
DeclaredChanged == {"apache__lucene-13704::jvm::test::buggy", "rubocop__rubocop-13687::git::show"}
LegacyIds(w) ==
    {w.records[i].case : i \in {j \in DOMAIN w.records : w.records[j].hash = <<>>}}
    \cup (IF w.store.qualification = <<>> THEN {} ELSE {Coreutils})
OldHash(w, caseId) ==
    Projection(w.code, EntryOf(w.gen2.manifest, caseId).entry, FirstOf(w.gen2.contract[1].body.items, caseId), OverlayOf(w, caseId))
NewHash(w, m, caseId) == EntryHash(w, EntryOf(m, caseId).entry)
CarryOf(w, m) ==
    [caseId \in ToSet(m.ids) |-> [old |-> OldHash(w, caseId), new |-> NewHash(w, m, caseId),
                                carried |-> OldHash(w, caseId) = NewHash(w, m, caseId)]]
CarriedIn(carry) == {caseId \in DOMAIN carry : carry[caseId].carried}
BridgeOf(w, m) ==
    [type |-> BridgeType, gen2 |-> [manifest |-> w.gen2.manifest, contract |-> w.gen2.contract, generation |-> 2],
     gen3 |-> [manifest |-> m, contract |-> w.store.contract, generation |-> 3],
     declared |-> DeclaredChanged, carry |-> CarryOf(w, m), carried |-> CarriedIn(CarryOf(w, m))]
BuildBridge(w, m) ==
    LET bridge == BridgeOf(w, m)
    IN  IF ToSet(w.gen2.manifest.ids) = ToSet(m.ids) /\ Cardinality(ToSet(m.ids)) = 12
           /\ \A caseId \in ToSet(m.ids) : EntryOf(m, caseId).hash = NewHash(w, m, caseId)
           /\ ToSet(m.ids) \ bridge.carried = DeclaredChanged /\ DeclaredChanged \cap LegacyIds(w) = {}
        THEN <<[ok |-> TRUE, body |-> bridge]>> ELSE <<>>
VerifyBridge(w, m, file) ==
    LET b == file.body
    IN  /\ file.ok /\ b.type = BridgeType
        /\ b.gen2.manifest = w.gen2.manifest /\ b.gen2.contract = w.gen2.contract
        /\ b.gen3.manifest = m /\ b.gen3.contract = w.store.contract
        /\ b.carry = CarryOf(w, m) /\ \A caseId \in DOMAIN b.carry : EntryOf(m, caseId).hash = b.carry[caseId].new
        /\ DOMAIN b.carry \ CarriedIn(b.carry) = b.declared
        /\ b.declared \cap LegacyIds(w) = {} /\ b.carried = CarriedIn(b.carry)

-----------------------------------------------------------------------------
(* The verdict of one case, recomputed from its frozen streams.            *)

FrozenCodeIdentity(code, e) ==
    [canon |-> e.canon, definition |-> Digest(code.canon, e.canon), semantics |-> code.proof[ProofId(e)],
     recompute |-> code.recompute, verifier |-> code.verifier]
FrozenStreams(r, evidence) ==
    /\ {"raw", "rtk"} \subseteq DOMAIN evidence
    /\ r.digests.raw = evidence.raw /\ r.digests.rtk = evidence.rtk
RecomputeCase(w, r, e, evidence) ==
    LET raw == O!ParseAs(ProofId(e), "raw", evidence.raw)
        rtk == O!ParseAs(ProofId(e), "rtk", evidence.rtk)
    IN  /\ r.identity = <<FrozenCodeIdentity(w.code, e)>>
        /\ FrozenStreams(r, evidence) /\ r.deterministic
        /\ r.projections = [raw |-> raw, rtk |-> rtk] /\ O!EquivalentAs(ProofId(e), raw, rtk)
        /\ e.kind = "rtk_test_dialect" => raw.outcome \notin {"indeterminate", "passthrough"} /\ raw.terminal /\ rtk.terminal
        /\ e.kind = "rtk_command_oracle" => "indeterminate" \notin {raw.outcome, rtk.outcome}

(* The registries.  Generation g binds one oracle to named cases; 3 and 4  *)
(* also pin the parser they share, 5 its execution policy.                 *)
DispatchOracle(g) ==
    CASE g = 2 -> "rtk-log-hdfs-oracle-v1" [] g = 3 -> "rtk-git-show-merge-first-parent-oracle-v1"
      [] g = 4 -> "rtk-git-commit-oracle-v1" [] g = 5 -> "rtk-docker-images-oracle-v1"
RegistryHits(registry, policy, caseId) == SelectSeq(registry.entries, LAMBDA x : x.policy = policy /\ caseId \in x.cases)
RegistryEntry(registry, g, policy, caseId) ==
    LET hits == RegistryHits(registry, policy, caseId)
    IN  IF Len(hits) = 1 /\ hits[1].caseScoped /\ hits[1].generation = g THEN hits ELSE <<>>
LoadRegistry(w, g) ==
    LET registry == w.registries[g]
    IN  IF registry.ok /\ registry.type = "n2e-qualification-dispatch-registry" /\ registry.generation = g
        THEN <<registry>> ELSE <<>>
DispatchIdentity(w, g, e) ==
    LET registry == LoadRegistry(w, g)
        entry == IF registry = <<>> THEN <<>> ELSE RegistryEntry(registry[1], g, ProofId(e), e.case)
    IN  IF entry = <<>> \/ ProofId(e) # DispatchOracle(g) THEN <<>>
        ELSE <<[generation |-> g, module |-> w.code.dispatch[g], registry |-> registry[1], policy |-> ProofId(e),
                oracle |-> w.code.proof[ProofId(e)], rtk |-> entry[1].rtk, canon |-> entry[1].canon,
                parser |-> IF g \in {3, 4} THEN <<w.code.parser>> ELSE <<>>,
                execution |-> IF g = 5 THEN <<w.execution>> ELSE <<>>]>>
DispatchBound(w, r, e) ==
    /\ r.case = e.case /\ e.dispatch # 0 /\ r.dispatch = e.dispatch /\ r.identity = <<>> /\ ~r.importPath
    /\ e.kind = "rtk_command_oracle" /\ e.dialect = <<>> /\ e.oracle # <<>>
    /\ r.dispatchIdentity # <<>> /\ r.dispatchIdentity = DispatchIdentity(w, e.dispatch, e)

(* A registry's verdict.  2: the capsule's totals; 3: the merge; 4: the    *)
(* commit both arms made; 5: the image list and the pinned image.          *)
CapsuleHolds(s) == s # <<>> /\ s[1].parsed /\ s[1].unmatched = 0 /\ s[1].ambiguous = 0 /\ s[1].published
ImageIsPinned(insp, pinned) ==
    insp.derivable /\ insp.id = pinned.id /\ pinned.digest \in insp.digests /\ insp.platform = pinned.platform
LogVerdict(r, ev)  == CapsuleHolds(r.capsule) /\ O!LogEquivalent(<<r.capsule[1].totals>>, ev.rtk)
ShowVerdict(ev, base) ==
    O!MergeEquivalent(ev.raw, O!FirstParentStat(O!ParseNumstat(ev.numstat), ev.shortstat), O!ParseShowRtk(ev.rtk),
                      ev.parents, base, ev.resolved)
CommitVerdict(ev, base) ==
    O!CommitEquivalent(O!CommitState(ev.rawHead, ev.rawParent, base), O!CommitState(ev.rtkHead, ev.rtkParent, base),
                       ev.shown, base)
ImagesVerdict(w, ev) ==
    /\ O!ImagesEquivalent(ev.rows, ev.rtk, FALSE) /\ ev.rtk.mode = w.execution.mode /\ w.execution.ok
    /\ ImageIsPinned(ev.rawInspect, w.execution.image) /\ ImageIsPinned(ev.rtkInspect, w.execution.image)
    /\ ev.rawInspect.digests = ev.rtkInspect.digests
DispatchFiles(g) ==
    CASE g = 2 -> {"rtk"}
      [] g = 3 -> {"raw", "rtk", "parents", "numstat", "shortstat", "resolved"}
      [] g = 4 -> {"rawHead", "rawParent", "rawNames", "rtkHead", "rtkParent", "rtkNames", "shown"}
      [] g = 5 -> {"rows", "rtk", "rawInspect", "rtkInspect"}
RecomputeDispatch(w, r, e, ev) ==
    /\ DispatchBound(w, r, e) /\ ~r.barred /\ r.recordKind # "diagnostic"
    /\ \A f \in DispatchFiles(e.dispatch) : f \in DOMAIN ev /\ f \in DOMAIN r.digests /\ r.digests[f] = ev[f]
    /\ CASE e.dispatch = 2 -> LogVerdict(r, ev)
         [] e.dispatch = 3 -> ShowVerdict(ev, w.base[e.case])
         [] e.dispatch = 4 -> CommitVerdict(ev, w.base[e.case])
         [] e.dispatch = 5 -> ImagesVerdict(w, ev)

-----------------------------------------------------------------------------
(* Qualifying a case.  A probe stops at the first gate that does not hold  *)
(* and leaves that outcome on record; only the last outcome observes.      *)

FirstFailure(gates, holds, observed) ==
    LET failed == SelectSeq(gates, LAMBDA g : ~holds[g[1]])
    IN  IF failed = <<>> THEN observed ELSE failed[1][2]
CaseGates ==
    <<<<"bound", "CASE_ADAPTER_BINDING_FAILURE">>, <<"closed", "CASE_CLOSURE_FAILURE">>, <<"rtk", "CASE_REJECTED_RTK_IDENTITY">>,
      <<"isolation", "CASE_REJECTED_NO_ISOLATION">>, <<"denied", "CASE_REJECTED_ISOLATION_LEAK">>,
      <<"acquired", "CASE_REJECTED_ACQUISITION">>, <<"warm", "CASE_REJECTED_WARM">>, <<"policy", "CASE_REJECTED_POLICY_MISMATCH">>,
      <<"ran", "CASE_PROBE_ERROR">>, <<"offline", "CASE_REJECTED_OFFLINE_EXECUTION">>>>
CaseObserved == "RESOLVED_CASE_OBSERVED"
ProbeCase(caseId, holds, raw, rtk, arms) ==                            \* an arm's stream is kept only when it was accepted
    LET outcome == FirstFailure(CaseGates, holds, CaseObserved)
        streams == IF outcome = CaseObserved THEN [x \in {y \in {"raw", "rtk"} : arms[y].accepted} |-> IF x = "raw" THEN raw ELSE rtk]
                   ELSE [x \in {} |-> raw]
    IN  [record |-> [ok |-> TRUE, type |-> "n2e-resolved-case-observation", kind |-> "resolved_case_qualification_acceptance",
                     case |-> caseId, declared |-> FALSE, outcome |-> outcome, binding |-> arms.binding, rtk |-> ProvenRtk,
                     argv |-> arms.argv, raw |-> arms.raw.deterministic, rtkArm |-> arms.rtk.deterministic, digests |-> streams],
         evidence |-> streams]
VerifyCase(w, obs, evidence) ==
    /\ obs.ok /\ obs.type = "n2e-resolved-case-observation" /\ obs.kind = "resolved_case_qualification_acceptance"
    /\ ~obs.declared /\ obs.outcome = CaseObserved
    /\ ClosureHolds(w.store) /\ obs.case \in DOMAIN w.bindings /\ obs.binding = w.bindings[obs.case] /\ obs.argv
    /\ obs.case \in ToSet(w.manifest.ids) /\ obs.rtk = ProvenRtk /\ obs.raw /\ obs.rtkArm
    /\ LET e   == EntryOf(w.manifest, obs.case).entry
           raw == O!ParseAs(ProofId(e), "raw", evidence.raw)
           rtk == O!ParseAs(ProofId(e), "rtk", evidence.rtk)
       IN  /\ w.bindings[obs.case].proof = ProofId(e) /\ ProofId(e) \in CqModules
           /\ FrozenStreams(obs, evidence) /\ O!EquivalentAs(ProofId(e), raw, rtk)
           /\ raw.outcome \notin {"indeterminate", "passthrough"}
           /\ IF e.kind = "rtk_test_dialect" THEN raw.terminal /\ rtk.terminal
              ELSE rtk.outcome \notin {"indeterminate", "passthrough"}

(* A record is written before it is recomputed: a refused one stays.  The  *)
(* case is named by the caller, not by the observation.                    *)
RecordOf(e, hash, m, run) ==
    [type |-> CaseType, case |-> e.case, kind |-> e.kind, dialect |-> e.dialect, oracle |-> e.oracle, canon |-> e.canon,
     generation |-> e.generation, hash |-> <<hash>>, manifest |-> m, manifestGeneration |-> m.generation,
     dispatch |-> 0, identity |-> <<>>, dispatchIdentity |-> <<>>, recordKind |-> "acceptance", barred |-> FALSE,
     importPath |-> FALSE, acceptance |-> run, deterministic |-> TRUE, capsule |-> <<>>, claimed |-> TRUE]
CaseRecord(w, caseId, obs, evidence, run) ==
    LET x == EntryOf(w.manifest, caseId)
        e == x.entry
    IN  [digests |-> evidence, identity |-> <<FrozenCodeIdentity(w.code, e)>>, deterministic |-> obs.raw,
         projections |-> [raw |-> O!ParseAs(ProofId(e), "raw", evidence.raw), rtk |-> O!ParseAs(ProofId(e), "rtk", evidence.rtk)]]
        @@ RecordOf(e, x.hash, w.manifest, run)
Refused == [written |-> <<>>, pass |-> FALSE]
BuildCase(w, caseId, obs, evidence, run) ==
    IF ~VerifyCase(w, obs, evidence) THEN Refused
    ELSE LET r == CaseRecord(w, caseId, obs, evidence, run)
         IN  [written |-> <<r>>, pass |-> RecomputeCase(w, r, EntryOf(w.manifest, caseId).entry, evidence)]

(* The dispatched cases: what each builder asks of the observation.        *)
BarredRun(run) == run.run \in BarredRuns \/ run.impl \in BarredImpls
ArmHolds(arm, pinned) ==
    /\ arm.storage /\ arm.preloaded = 0 /\ ImageIsPinned(arm.inspect, pinned) /\ arm.denied
Observed(w, g, obs, ev) ==
    CASE g = 2 -> /\ CapsuleHolds(obs.capsule) /\ obs.sameInput /\ obs.equivalent /\ ev.rtk = obs.rtk /\ ev.rtk.summary
      [] g = 3 -> obs.merge /\ obs.compact /\ obs.statMatches /\ obs.resolves /\ obs.equivalent
      [] g = 4 -> obs.reproduced /\ obs.equivalent /\ obs.rawCreated /\ obs.rtkCreated
      [] g = 5 -> /\ obs.compact /\ obs.equivalent /\ obs.daemonPinned
                  /\ \A arm \in {obs.rawArm, obs.rtkArm} : ArmHolds(arm, w.execution.image)
BuildDispatch(w, g, caseId, obs, ev, run) ==
    LET x == EntryOf(w.manifest, caseId)
        identity == DispatchIdentity(w, g, x.entry)
        r == [digests |-> [f \in DispatchFiles(g) |-> ev[f]], dispatch |-> g, dispatchIdentity |-> identity,
              capsule |-> IF g = 2 THEN obs.capsule ELSE <<>>] @@ RecordOf(x.entry, x.hash, w.manifest, run)
    IN  IF /\ obs.kind = "acceptance" /\ ~obs.barred /\ obs.outcome = "observed" /\ ~BarredRun(run)
           /\ DispatchFiles(g) \subseteq DOMAIN ev /\ Observed(w, g, obs, ev)
           /\ x.entry.dispatch = g /\ identity # <<>>
        THEN [written |-> <<r>>, pass |-> RecomputeDispatch(w, r, x.entry, ev)]
        ELSE Refused

-----------------------------------------------------------------------------
(* Qualifying coreutils.  The probe and the verifier both ask the whole    *)
(* closure, an earlier qualification included.                             *)

CoreutilsGates ==
    <<<<"closed", "COREUTILS_QUAL_CLOSURE_FAILURE">>, <<"toolchain", "COREUTILS_QUAL_TOOLCHAIN_UNVERIFIED">>,
      <<"isolation", "REJECTED_NO_ISOLATION">>, <<"acquired", "COREUTILS_QUAL_ACQUISITION_FAILURE">>,
      <<"finalized", "COREUTILS_QUAL_FINALIZE_FAILURE">>, <<"ran", "COREUTILS_QUAL_ERROR">>>>
CoreutilsObserved == "COREUTILS_QUALIFICATION_OBSERVED"
ProbeCoreutils(w, holds, facts) ==
    [ok |-> TRUE, type |-> "n2e-coreutils-qualification-observation", kind |-> "coreutils_qualification_acceptance",
     case |-> Coreutils, declared |-> FALSE, lockMatches |-> facts.lock = w.store.frozenLock, binaries |-> facts.binaries,
     rtk |-> facts.rtk, arms |-> facts.arms, dialect |-> OverlayContract(w.store).dialectId, policy |-> OverlayContract(w.store).canon,
     outcome |-> FirstFailure(CoreutilsGates, [g \in DOMAIN holds |-> IF g = "closed" THEN ClosureHolds(w.store) ELSE holds[g]],
                              CoreutilsObserved)]
(* reps: the canonical files of each repetition, and what canonicalizing   *)
(* the captured streams gives.                                             *)
VerifyCoreutils(w, obs, reps) ==
    /\ obs.ok /\ obs.type = "n2e-coreutils-qualification-observation" /\ obs.kind = "coreutils_qualification_acceptance"
    /\ obs.case = Coreutils /\ ~obs.declared /\ obs.outcome = CoreutilsObserved
    /\ ClosureHolds(w.store) /\ OverlayContract(w.store).dialectId = DialectId /\ OverlayContract(w.store).canon = "cargo-test-v3"
    /\ obs.dialect = DialectId /\ obs.policy = "cargo-test-v3" /\ obs.binaries = ProvenBinary /\ obs.rtk = ProvenRtk /\ obs.lockMatches
    /\ QualificationVerdict([raw |-> reps.raw[1], rtk |-> reps.rtk[1]])
    /\ Cardinality(ToSet(reps.rtk)) = 1 /\ Cardinality(ToSet(reps.rtkCaptured)) = 1
    /\ obs.arms.qualified /\ obs.arms.deterministic /\ obs.arms.argv
    /\ Len(reps.raw) = 3 /\ Len(reps.rtk) = 3
    /\ reps.rawCaptured = reps.raw /\ reps.rtkCaptured = reps.rtk
    /\ IsPrefix(obs.arms.rawRuns, reps.raw) /\ IsPrefix(obs.arms.rtkRuns, reps.rtk)
CoreutilsRecord(w, obs, reps, run) ==
    [type |-> CoreutilsType, cases |-> <<Coreutils>>, membership |-> w.store.membership, contract |-> w.store.overlay,
     p2 |-> w.store.binid, p3 |-> w.store.dialect, dialect |-> DialectId, policy |-> "cargo-test-v3", canon |-> "cargo-test-v3",
     acceptance |-> [workflow |-> QualWorkflow] @@ run, binaries |-> obs.binaries, rtk |-> obs.rtk,
     digests |-> [raw |-> reps.raw[1], rtk |-> reps.rtk[1]], claimed |-> TRUE,
     raw |-> O!ParseRustRaw(reps.raw[1]), rtkProjection |-> O!ParseRustRtk(reps.rtk[1])]
BuildCoreutils(w, obs, reps, run) ==
    IF ~VerifyCoreutils(w, obs, reps) THEN Refused
    ELSE LET r == CoreutilsRecord(w, obs, reps, run)
             frozen == [w.store EXCEPT !.qualStreams = r.digests]
         IN  [written |-> <<r>>, pass |-> CoreutilsQualificationHolds(r, frozen)]

-----------------------------------------------------------------------------
(* The aggregation.  Whatever is present must pass whole: a record that    *)
(* fails stops the aggregation, one that is absent only leaves it short.   *)

Roster(w) ==
    [i \in DOMAIN w.manifest.cases |-> [e |-> w.manifest.cases[i].entry, hash |-> EntryHash(w, w.manifest.cases[i].entry)]]
RosterHolds(w) ==
    /\ VerifyManifest(w, w.manifest) /\ ~Unsealed(w.store, "bridge")
    /\ \A i \in DOMAIN w.manifest.cases : w.manifest.cases[i].hash = Roster(w)[i].hash
RecordsOf(w, caseId) ==
    SelectSeq(w.records, LAMBDA r : r.case = caseId)
    \o (IF caseId = Coreutils /\ w.store.qualification # <<>> THEN <<Body(w.store, "qualification")>> ELSE <<>>)

(* A record without an entry hash needs the bridge, and its own manifest.  *)
CaseBinding(w, r, x) ==
    IF r.hash # <<>> THEN r.hash = <<x.hash>>
    ELSE /\ w.store.bridge # <<>>
         /\ LET b == Body(w.store, "bridge")
            IN  /\ b.type = BridgeType /\ b.gen3.manifest = w.manifest
                /\ r.manifest = b.gen2.manifest /\ r.manifestGeneration = b.gen2.generation
                /\ x.e.case \in DOMAIN b.carry /\ b.carry[x.e.case].carried /\ b.carry[x.e.case].new = x.hash
KindHolds(r, e) == r.kind = e.kind /\ r.dialect = e.dialect /\ r.oracle = e.oracle
CoreutilsBound(w, r, e) ==
    /\ r.contract = w.manifest.pins.contract /\ r.membership = w.manifest.pins.membership
    /\ e.kind = "rtk_test_dialect" /\ e.dialect = <<r.dialect>>
Accepted(run) == run.complete /\ ~BarredRun(run)
RecordPasses(w, r, x) ==
    LET e == x.e
    IN  /\ r.type = e.type /\ r.canon = e.canon /\ Accepted(r.acceptance) /\ r.claimed
        /\ IF e.type = CoreutilsType
           THEN /\ e.case \in ToSet(r.cases) /\ e.dispatch = 0 /\ CoreutilsBound(w, r, e)
                /\ CoreutilsQualificationHolds(r, w.store)
           ELSE /\ r.case = e.case /\ r.generation = e.generation /\ CaseBinding(w, r, x) /\ KindHolds(r, e)
                /\ IF e.dispatch # 0 THEN RecomputeDispatch(w, r, e, w.evidence[e.case])
                   ELSE r.dispatchIdentity = <<>> /\ RecomputeCase(w, r, e, w.evidence[e.case])
NoDuplicateRecord(w) ==
    IsInjective([i \in DOMAIN w.records |-> w.records[i].case] \o (IF w.store.qualification = <<>> THEN <<>> ELSE <<Coreutils>>))
RunKey(r) == <<r.acceptance.run, r.acceptance.attempt>>
Aggregate(w) ==
    LET present == {i \in DOMAIN Roster(w) : RecordsOf(w, Roster(w)[i].e.case) # <<>>}
        Rec(i)  == RecordsOf(w, Roster(w)[i].e.case)[1]
    IN  IF /\ RosterHolds(w) /\ NoDuplicateRecord(w)
           /\ \A i \in present : RecordPasses(w, Rec(i), Roster(w)[i])
           /\ Cardinality({RunKey(Rec(i)) : i \in present}) = Cardinality(present)
           /\ Cardinality({Rec(i).acceptance.artifact : i \in present}) = Cardinality(present)
        THEN <<[passes |-> Cardinality(present), twelve |-> Cardinality(present) = 12]>>
        ELSE <<>>
=============================================================================
