-------------------------- MODULE ResolvedClosure --------------------------
(***************************************************************************)
(* The case loader of the native corpus (n2e_resolved_loader): what the    *)
(* resolved scope may be built from.  The frozen base records stay as they *)
(* are; a membership in which one case replaces another, overlays for that *)
(* case, and the records and retained evidence the overlays refer to, are  *)
(* admitted only together, each bound to the others by content.            *)
(*                                                                         *)
(* A store gives every file's content: <<>> when absent, else              *)
(* <<[ok, body]>>, where ok says whether the record's own seal holds.  The *)
(* hash of a file stands for its content.                                  *)
(***************************************************************************)
EXTENDS Integers, Sequences, FiniteSets, SequencesExt
LOCAL O == INSTANCE CaseOracles

CONSTANT ProvenCount      \* DEPSNAP_PROVEN_COUNT: the size of the proven closure (346)
ASSUME ProvenCountIsNatural == ProvenCount \in Nat

Coreutils == "uutils__coreutils-6731::rust_cargo::test::fixed"       \* REPLACEMENT_CASE_ID
Tokio     == "tokio-rs__tokio-4384::rust_cargo::test::fixed"         \* REPLACED_CASE_ID
BarredRuns  == {"diagnostic-run"}                                    \* BARRED_DIAGNOSTIC_RUNS
BarredImpls == {"diagnostic-impl"}
Barred(origin) == origin.run \in BarredRuns \/ origin.impl \in BarredImpls
BinidOrigin == [run |-> "29656538775", impl |-> "1157bb8"]
ProvenBinary == [rust |-> "proven rustc", cargo |-> "proven cargo"]  \* PROVEN_BINARY_IDENTITY
BinaryName   == [rust |-> "rustc", cargo |-> "cargo"]
ProvenWrapper == [name |-> "rustup", id |-> "proven rustup"]
Channel == "1.81.0"
Host == "x86_64-unknown-linux-gnu"
DialectId == "rtk-rust-cargo-test-summary-v1"
DialectSource == "5d32d07"
ProvenRtk == "proven rtk"
DialectRun == "29667956749"
QualExpected == [passed |-> 10, filtered |-> 3205, suites |-> 3]
QualWorkflow == "qodec-n2e-coreutils-qualification"
BridgeType == "n2e-manifest-gen2-to-gen3-binding-migration"

Sealed(store, name) == store[name] # <<>> /\ store[name][1].ok
Body(store, name) == store[name][1].body
Unsealed(store, name) == store[name] # <<>> /\ ~store[name][1].ok

(* Which base contract a record may name: the current one, or the one the  *)
(* migration bridge carries the case forward from.                         *)
AcceptableBaseContracts(store) ==
    {store.contract} \cup
    (IF store.bridge = <<>> THEN {}
     ELSE LET bridge == Body(store, "bridge")
          IN  IF bridge.type = BridgeType /\ bridge.gen3.contract = store.contract /\ Coreutils \in bridge.carried
              THEN {bridge.gen2.contract} ELSE {})

-----------------------------------------------------------------------------
(* The dependency snapshot: the frozen lock and graph.                     *)

RECURSIVE Closed(_, _)
Closed(seen, nodes) ==
    LET next == seen \cup UNION {n.deps : n \in {m \in nodes : m.id \in seen}}
    IN  IF next = seen THEN seen ELSE Closed(next, nodes)
ReachableIds(graph) == Closed(graph.roots, graph.nodes) \cap {n.id : n \in graph.nodes}

DependencySnapshotHolds(store, ref) ==
    /\ Sealed(store, "depsnap") /\ store.frozenLock # <<>> /\ store.frozenGraph # <<>>
    /\ LET ds    == Body(store, "depsnap")
           graph == store.frozenGraph[1]
       IN  /\ ds.type = "dependency-snapshot-overlay" /\ ds.case = Coreutils
           /\ ds.base \in AcceptableBaseContracts(store) /\ ds.membership = store.membership /\ ds.ref = ref
           /\ Len(ds.snapshots) = 1 /\ ds.snapshots[1].case = Coreutils
           /\ LET snap == ds.snapshots[1]
              IN  /\ store.frozenLock[1] = snap.lock /\ snap.scope = "full cross-platform resolution"
                  /\ graph.host = snap.host /\ graph.packages = snap.packages /\ graph.lock = snap.lock
                  /\ ReachableIds(graph.host) = {n.id : n \in graph.host.nodes}
                  /\ Cardinality(ReachableIds(graph.host)) = snap.count /\ snap.count = ProvenCount
           /\ ~Barred([run |-> ds.run, impl |-> ds.producer]) /\ ds.verifier \notin BarredImpls

(* The executed binaries: what was measured is the proven binary, what was *)
(* invoked is rustup's proxy for it.  A path is <<directory, name>>.       *)
RoleHolds(r, frozen) ==
    /\ r.binary = BinaryName[r.role] /\ r.measured = ProvenBinary[r.role]
    /\ [id |-> r.measured, path |-> r.path, invoked |-> r.invoked, real |-> r.real, version |-> r.version] = frozen[r.role]
    /\ r.version = <<BinaryName[r.role], Channel>>
    /\ r.invoked[2] = BinaryName[r.role] /\ r.path[2] = BinaryName[r.role] /\ r.real[2] = ProvenWrapper.name
    /\ r.invoked # r.path /\ r.differs
    /\ r.case = Coreutils /\ r.run = BinidOrigin.run
BinaryIdentityHolds(store, ref) ==
    /\ Sealed(store, "binid") /\ store.installed # <<>>
    /\ LET rec == Body(store, "binid")
           frozen == store.installed[1]
       IN  /\ rec.type = "toolchain-binary-identity" /\ rec.case = Coreutils
           /\ rec.membership = store.membership /\ rec.lock = store.lock /\ rec.overlay = store.toolchain
           /\ rec.ref = ref /\ rec.requested = Channel /\ rec.channel = Channel /\ rec.host = Host
           /\ Len(rec.roles) = 2 /\ {rec.roles[i].role : i \in {1, 2}} = {"rust", "cargo"}
           /\ \A i \in {1, 2} : RoleHolds(rec.roles[i], frozen)
           /\ rec.wrapper = ProvenWrapper /\ rec.wrapper.id = frozen.rustup
           /\ [run |-> rec.run, impl |-> rec.impl] = BinidOrigin

(* The RTK dialect: bound to this case only, its source and executable     *)
(* pinned, its projections read again from the frozen streams.             *)
CaseScopedOnly ==
    /\ O!RtkDialect("rust_cargo", Coreutils) = <<DialectId>>
    /\ O!RtkDialect("rust_cargo", "any other case") = <<>>
    /\ O!RtkDialect("rust_cargo", Tokio) = <<>>
DialectHolds(store, bound) ==
    /\ Sealed(store, "dialect") /\ CaseScopedOnly
    /\ LET rec == Body(store, "dialect")
           streams == store.dialectStreams
       IN  /\ rec.type = "rtk-rust-cargo-dialect" /\ rec.policy = DialectId /\ rec.scope = "case_scoped"
           /\ rec.ref = bound /\ rec.case = Coreutils /\ rec.membership = store.membership
           /\ rec.base \in AcceptableBaseContracts(store) /\ rec.contract = store.overlay
           /\ rec.source = DialectSource /\ rec.rtk = ProvenRtk /\ rec.p2 = store.binid
           /\ DOMAIN rec.streams # {} /\ rec.manifest = store.dialectManifest
           /\ \A n \in DOMAIN rec.streams : n \in DOMAIN streams /\ streams[n] = rec.streams[n]
           /\ {"raw", "rtk"} \subseteq DOMAIN streams
           /\ rec.raw = O!ParseRustRaw(streams.raw) /\ rec.rtkProjection = O!ParseRustRtk(streams.rtk)
           /\ O!RustEquivalent(rec.raw, rec.rtkProjection) /\ rec.equivalent
           /\ ~Barred(rec) /\ rec.run = DialectRun

(* The coreutils qualification: its verdict is recomputed, never read.     *)
QualificationBindings(rec, store) ==
    /\ rec.type = "n2e-coreutils-qualification" /\ rec.cases = <<Coreutils>>
    /\ rec.membership = store.membership /\ rec.contract = store.overlay
    /\ rec.p2 = store.binid /\ rec.p3 = store.dialect
    /\ rec.dialect = DialectId /\ rec.policy = "cargo-test-v3"
    /\ rec.acceptance.workflow = QualWorkflow /\ rec.acceptance.complete /\ ~Barred(rec.acceptance)
    /\ rec.binaries = ProvenBinary /\ rec.rtk = ProvenRtk
CountsOf(p) == [passed |-> p.passed, filtered |-> p.filtered, suites |-> p.suites]
QualificationVerdict(streams) ==
    LET raw == O!ParseRustRaw(streams.raw)
        rtk == O!ParseRustRtk(streams.rtk)
    IN  /\ raw.outcome = "success" /\ O!RustEquivalent(raw, rtk)
        /\ CountsOf(raw) = QualExpected /\ CountsOf(rtk) = QualExpected
        /\ raw.failing = {} /\ rtk.failing = {} /\ raw.terminal /\ rtk.terminal
CoreutilsQualificationHolds(rec, store) ==
    LET streams == store.qualStreams
    IN  /\ QualificationBindings(rec, store)
        /\ DOMAIN rec.digests # {} /\ {"raw", "rtk"} \subseteq DOMAIN streams \cap DOMAIN rec.digests
        /\ rec.digests.raw = streams.raw /\ rec.digests.rtk = streams.rtk
        /\ rec.raw = O!ParseRustRaw(streams.raw) /\ rec.rtkProjection = O!ParseRustRtk(streams.rtk)
        /\ rec.claimed /\ QualificationVerdict(streams)

-----------------------------------------------------------------------------
(* The closure.  An overlay is [case, base, membership, items]; the        *)
(* toolchain overlay has one unnamed item.                                 *)

Overlays == [pubenv |-> "registry", toolchain |-> "lock", scenario |-> "scenarios", overlay |-> "contract"]
ItemIds(store, name) == [i \in DOMAIN Body(store, name).items |-> Body(store, name).items[i].case]
BaseIds(store) == UNION {ToSet(ItemIds(store, n)) : n \in {"registry", "scenarios", "contract"}}
OverlayHolds(store, name) ==
    /\ Sealed(store, name)
    /\ LET rec == Body(store, name)
       IN  /\ IF name = "overlay" THEN rec.base \in AcceptableBaseContracts(store) ELSE rec.base = store[Overlays[name]]
           /\ rec.membership = store.membership /\ rec.case = Coreutils
EffectiveIds(store) == ItemIds(store, "membership")
MembershipHolds(store) ==
    /\ Tokio \notin ToSet(EffectiveIds(store))
    /\ Cardinality({i \in DOMAIN EffectiveIds(store) : EffectiveIds(store)[i] = Coreutils}) = 1
    /\ Body(store, "membership").constraintsOk /\ ~Body(store, "membership").blocker

OverlayContract(store) == Body(store, "overlay").items[1]
Materialized(ref, holds) == ref # <<>> => holds
QualificationPass(store) == store.qualification # <<>>
ClosureHolds(store) ==
    /\ \A n \in {"membership", "registry", "scenarios", "contract"} : Sealed(store, n)
    /\ ~Unsealed(store, "bridge") /\ store.lock # <<>>
    /\ \A n \in DOMAIN Overlays : OverlayHolds(store, n)
    /\ \A n \in {"pubenv", "scenario", "overlay"} : ItemIds(store, n) = <<Coreutils>>
    /\ Coreutils \notin BaseIds(store)
    /\ MembershipHolds(store)
    /\ LET contract == OverlayContract(store)
           binaries == Body(store, "toolchain").items[1].ref
       IN  /\ Materialized(contract.dependencies, DependencySnapshotHolds(store, contract.dependencies))
           /\ Materialized(binaries, BinaryIdentityHolds(store, binaries))
           /\ Materialized(contract.dialect, DialectHolds(store, contract.dialect))
    /\ QualificationPass(store) =>
         Sealed(store, "qualification") /\ CoreutilsQualificationHolds(Body(store, "qualification"), store)

(* load_case_bundle: the replacement case comes whole from the overlays,   *)
(* every other case from the base records.                                 *)
ItemOf(store, name, caseId) == SelectSeq(Body(store, name).items, LAMBDA x : x.case = caseId)
BaseBundle(store, caseId, membership, scope) ==
    IF ItemOf(store, membership, caseId) = <<>> \/ ItemOf(store, "scenarios", caseId) = <<>> THEN <<>>
    ELSE <<[scope |-> scope, source |-> "frozen_base", case |-> caseId, scenario |-> ItemOf(store, "scenarios", caseId)[1],
            contract |-> ItemOf(store, "contract", caseId)]>>
LoadCaseBundle(store, caseId, scope) ==
    CASE scope = "base" /\ \A n \in {"baseMembership", "scenarios", "contract"} : Sealed(store, n) ->
            BaseBundle(store, caseId, "baseMembership", scope)
      [] scope = "resolved" /\ ClosureHolds(store) /\ caseId = Coreutils ->
            <<[scope |-> scope, source |-> "replacement_overlay", case |-> caseId,
               scenario |-> Body(store, "scenario").items[1], contract |-> <<OverlayContract(store)>>]>>
      [] scope = "resolved" /\ ClosureHolds(store) /\ caseId # Coreutils -> BaseBundle(store, caseId, "membership", scope)
      [] OTHER -> <<>>
=============================================================================
