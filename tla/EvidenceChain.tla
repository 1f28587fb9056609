---------------------------- MODULE EvidenceChain ----------------------------
(***************************************************************************)
(* The committed records of the identity lock over time: the stage-2       *)
(* acceptance and the durable inputs, the filter map, the canary report,   *)
(* the evidence of the benchmark run, the benchmark and its supplement,    *)
(* and the closure that links them.  Builders are run one by one, on what  *)
(* lies on disk, in whatever order; records and source files are edited    *)
(* between two builds; the closure verifier reads everything at any        *)
(* moment.                                                                 *)
(*                                                                         *)
(* A record is [body, seal], its seal the hash of its body when nobody     *)
(* broke it.  The jobs, artifacts and trigger-patch manifests, three       *)
(* records that their builders recompute from constants, are one record    *)
(* here, "run", whose only right body is RunTruth.                         *)
(***************************************************************************)
EXTENDS TokenMeasurement

CONSTANTS RepoCases,      \* the cases whose input stage 2 accepted
          CargoCases,     \* those among them that ran cargo test
          Required,       \* the canonical inputs the verifier pins, by case
          Stage2Body, DurableBody, ProbesBody, RejectionBody, ReplacementBody,   \* as committed
          ContractBody,   \* the historical contract, which carries no seal the tools look at
          RowSets,        \* the measurements a downloaded run may hold
          Draws,          \* the resamples of the supplement
          EditsOf,        \* the bodies a record may be edited to
          MaxEdits        \* edits in all, a bound
ASSUME ChainAssumption == /\ CargoCases \subseteq RepoCases /\ RepoCases \subseteq DOMAIN Required
                          /\ DOMAIN Required \subseteq Cases /\ MaxEdits \in Nat
(* The pins are the inputs that stage 2 accepted.                           *)
ASSUME PinsAssumption == \A c \in RepoCases : Stage2Body.canonical[c] = Required[c]

VARIABLES disk,           \* the record of each name, <<>> when there is no file
          tree,           \* the version of each source file the closure hashes
          asBuilt,        \* the closure on disk is what its builder wrote
          edits
chain == <<disk, tree, asBuilt, edits>>

Inputs == {"stage2", "durable", "probes", "rejection", "replacement", "contract"}
Records == Inputs \cup {"rtkmap", "n2d2", "run", "legs", "benchmark", "supplement", "closure"}
SourceFiles == {"flake.lock", "rust-toolchain", "meter.rs", "hashed"}      \* hashed: Cargo.toml, Cargo.lock, flake.nix
RunTruth == "truth"
Seal(body) == <<"sha256", body>>
Sealed(body) == [body |-> body, seal |-> Seal(body)]
SealHolds(doc) == doc.seal = Seal(doc.body)
PinnedStage2 == Seal(Stage2Body)
OnDisk(d) == disk[d] # Nothing
Body(d) == disk[d][1].body
SealOf(d) == disk[d][1].seal

-----------------------------------------------------------------------------
(* The filter map, from the probes and the argv stage 2 froze. *)

ProbesHold == \A p \in DOMAIN Body("probes") :
    Body("probes")[p].repeats >= 20 /\ Body("probes")[p].deterministic
FilterOf(case) == IF case \in CargoCases THEN "cargo-test" ELSE "passthrough"
BuildRtkMap ==
    IF ~OnDisk("probes") \/ ~OnDisk("stage2") \/ ~ProbesHold \/ \E c \in CargoCases : Body("stage2").argv[c] # "cargo test" THEN Nothing
    ELSE <<[filter |-> [c \in Cases |-> FilterOf(c)], prohibited |-> {"log"}, probes |-> Seal(Body("probes"))]>>
VerifyRtkMap ==
    /\ \A d \in {"rtkmap", "probes", "stage2"} : OnDisk(d)
    /\ SealHolds(disk["rtkmap"][1])
    /\ Body("rtkmap").prohibited = {"log"} /\ Body("rtkmap").filter = [c \in Cases |-> FilterOf(c)]
    /\ ProbesHold /\ \A p \in DOMAIN Body("probes") : Body("probes")[p].outputs = 1
    /\ Body("rtkmap").probes = Seal(Body("probes"))
    /\ \A c \in RepoCases : Body("stage2").argv[c] = "cargo test" <=> c \in CargoCases

-----------------------------------------------------------------------------
(* The run's evidence, re-derived. *)

RunEvidenceAsSealed ==
    /\ \A d \in {"run", "legs", "benchmark"} : OnDisk(d) /\ SealHolds(disk[d][1])
    /\ Body("run") = RunTruth /\ DOMAIN Body("legs") = Cases
VerifyRunEvidence ==
    /\ \A d \in {"run", "legs", "benchmark"} : OnDisk(d) /\ SealHolds(disk[d][1])
    /\ Body("run") = RunTruth
    /\ DOMAIN Body("legs") = Cases
    /\ \A c \in Cases, l \in Legs : Body("legs")[c][l].case = c /\ Body("legs")[c][l].leg = l
    /\ BuildBenchmark(Body("legs")) = <<Body("benchmark")>>
VerifySupplement ==
    /\ \A d \in {"supplement", "benchmark"} : OnDisk(d) /\ SealHolds(disk[d][1])
    /\ ~Body("supplement").canonical
    /\ <<Body("supplement")>> = BuildSupplement(Body("benchmark"), Draws)

-----------------------------------------------------------------------------
(* The closure. *)

CanonicalOf(case) == IF case \in RepoCases THEN Body("stage2").canonical[case] ELSE Body("durable").canonical[case]
AssetOf(case) == IF case \in RepoCases THEN Body("stage2").asset ELSE Body("durable").asset
(* The rest of a case is copied as it stands: of a static one the path of   *)
(* its input, release tag, asset name, size and selection rule, of a        *)
(* repository one ecosystem, asset name and policy identity.                *)
RestOf(case) == IF case \in RepoCases THEN <<Body("stage2").rest>>
                ELSE Body("durable").path \o <<Body("durable").rest>>
ContractPart == [identity |-> Body("contract").identity,
                 meterMatches |-> tree["meter.rs"] = Body("contract").meter]
WholeCorpus(corpus) == /\ corpus.total = Cardinality(Cases) /\ corpus.failures = 0
                       /\ corpus.refusals = Cardinality(NonUtf8Cases)
                       /\ corpus.measurable = Cardinality(Cases) - Cardinality(NonUtf8Cases)
NotYetRun == [status |-> "not_yet_run", link |-> Nothing]
N2d2Gate == IF ~OnDisk("n2d2") THEN NotYetRun
            ELSE [status |-> IF Body("n2d2").all THEN "passed" ELSE "failed", link |-> <<SealOf("n2d2")>>]
N2d3Gate == IF ~OnDisk("benchmark") THEN NotYetRun
            ELSE [status |-> IF N2d2Gate.status = "passed" /\ WholeCorpus(Body("benchmark").corpus) THEN "passed" ELSE "failed",
                  link |-> <<SealOf("benchmark")>>]
GatesReadable == /\ OnDisk("n2d2") => SealHolds(disk["n2d2"][1]) /\ Body("n2d2").case = "canary"
                 /\ OnDisk("benchmark") => SealHolds(disk["benchmark"][1])
EvidenceFiles == {"run", "legs", "supplement"}
EvidenceLink == IF \E d \in EvidenceFiles : ~OnDisk(d) THEN Nothing ELSE <<[d \in EvidenceFiles |-> SealOf(d)]>>

(* What builder and verifier both open whatever the closure says. *)
ClosureInputs == {"stage2", "durable", "rejection", "replacement", "contract"}
(* An exception anywhere leaves the old file in place. *)
BuildClosure ==
    IF \/ \E d \in ClosureInputs : ~OnDisk(d)
       \/ SealOf("stage2") # PinnedStage2
       \/ tree["flake.lock"] # 0 \/ tree["rust-toolchain"] # 0
       \/ Body("durable").role # "primary" \/ Body("durable").path = Nothing
       \/ ~GatesReadable \/ ~VerifyRtkMap
       \/ EvidenceLink # Nothing /\ ~(VerifyRunEvidence /\ VerifySupplement)
    THEN Nothing
    ELSE <<[stage2 |-> SealOf("stage2"), tree |-> tree,
            cases |-> [c \in Cases |-> [canonical |-> CanonicalOf(c), asset |-> AssetOf(c), rest |-> RestOf(c)]],
            contract |-> ContractPart,
            rejection |-> [class |-> Body("rejection"), seal |-> SealOf("rejection")],
            replacement |-> [case |-> Body("replacement"), seal |-> SealOf("replacement")],
            rtkmap |-> <<SealOf("rtkmap")>>, n2d2 |-> N2d2Gate, n2d3 |-> N2d3Gate,
            counts |-> N2d3Gate.status = "passed", evidence |-> EvidenceLink]>>

LinkHolds(link, d) == link # Nothing /\ OnDisk(d) /\ link = <<SealOf(d)>>
GatesHold(r) ==
    /\ r.counts => r.n2d3.status = "passed"
    /\ r.n2d2.status = "passed" => /\ LinkHolds(r.n2d2.link, "n2d2") /\ SealHolds(disk["n2d2"][1])
                                   /\ Body("n2d2").case = "canary" /\ Body("n2d2").all
    /\ r.n2d3.status = "passed" => /\ LinkHolds(r.n2d3.link, "benchmark") /\ SealHolds(disk["benchmark"][1])
                                   /\ WholeCorpus(Body("benchmark").corpus)
EvidenceHolds(r) ==
    r.evidence # Nothing => /\ \A d \in EvidenceFiles : OnDisk(d) /\ r.evidence[1][d] = SealOf(d)
                            /\ VerifyRunEvidence /\ VerifySupplement
(* The recorded rust-toolchain hash is compared with nothing. *)
OnlyTheLock(r) == r.tree["flake.lock"] = tree["flake.lock"]
TreeHolds(r) == \A f \in SourceFiles \ {"rust-toolchain"} : r.tree[f] = tree[f]
(* The rejection and replacement records count by the seals they carry, and *)
(* the contract by being there.                                             *)
VerifyClosure ==
    /\ \A d \in ClosureInputs \cup {"closure"} : OnDisk(d)
    /\ SealHolds(disk["closure"][1])
    /\ LET r == Body("closure")
       IN  /\ TreeHolds(r)
           /\ \A c \in DOMAIN Required : r.cases[c].canonical = Required[c]
           /\ r.stage2 = PinnedStage2 /\ SealOf("stage2") = PinnedStage2 /\ SealHolds(disk["stage2"][1])
           /\ \A c \in Cases : r.cases[c].asset = AssetOf(c)
           /\ Body("durable").role = "primary"
           /\ \A c \in Cases \ RepoCases : r.cases[c].canonical = Body("durable").canonical[c]
           /\ r.rejection.seal = SealOf("rejection")
           /\ r.replacement = [case |-> Body("replacement"), seal |-> SealOf("replacement")]
           /\ r.rtkmap # Nothing => LinkHolds(r.rtkmap, "rtkmap") /\ VerifyRtkMap
           /\ GatesHold(r) /\ EvidenceHolds(r)

-----------------------------------------------------------------------------
(* The input bundle of a run: what the closure says each case's bytes are. *)

BuildBundle(staged, closure, filter) ==
    IF \E c \in DOMAIN closure.cases : c \notin DOMAIN staged \/ staged[c] # closure.cases[c].canonical THEN Nothing
    ELSE <<[members |-> staged, manifest |-> Sealed([c \in DOMAIN closure.cases |->
              [input |-> staged[c], asset |-> closure.cases[c].asset, argv |-> filter[c]]])]>>
VerifyBundle(bundle, closure, filter) ==
    /\ SealHolds(bundle.manifest) /\ DOMAIN bundle.manifest.body = Cases
    /\ DOMAIN bundle.members = DOMAIN bundle.manifest.body
    /\ \A c \in Cases : /\ bundle.members[c] = bundle.manifest.body[c].input
                        /\ bundle.manifest.body[c].input = closure.cases[c].canonical
                        /\ bundle.manifest.body[c].argv = filter[c]

-----------------------------------------------------------------------------
ChainInit ==
    /\ disk = [d \in Records |->
                 CASE d = "stage2" -> <<Sealed(Stage2Body)>>
                   [] d = "durable" -> <<Sealed(DurableBody)>>
                   [] d = "probes" -> <<Sealed(ProbesBody)>>
                   [] d = "rejection" -> <<Sealed(RejectionBody)>>
                   [] d = "replacement" -> <<Sealed(ReplacementBody)>>
                   [] d = "contract" -> <<Sealed(ContractBody)>>
                   [] OTHER -> Nothing]
    /\ tree = [f \in SourceFiles |-> 0]
    /\ asBuilt = FALSE /\ edits = 0

Put(d, body) == /\ body # Nothing
                /\ disk' = [disk EXCEPT ![d] = <<Sealed(body[1])>>]
                /\ UNCHANGED <<tree, edits>>
MapFilters == Put("rtkmap", BuildRtkMap) /\ UNCHANGED asBuilt
RunCanary == \E all \in BOOLEAN : Put("n2d2", <<[case |-> "canary", all |-> all]>>) /\ UNCHANGED asBuilt
RecordRun == Put("run", <<RunTruth>>) /\ UNCHANGED asBuilt
(* The evidence and the benchmark are each built from a directory of       *)
(* downloads, and nothing says it is the same one.                         *)
RecordLegs == \E rows \in RowSets : Put("legs", BuildLegEvidence(rows)) /\ UNCHANGED asBuilt
Benchmark == \E rows \in RowSets :
    /\ PairsOf(rows) # Nothing
    /\ Put("benchmark", BuildBenchmark(PairsOf(rows)[1])) /\ UNCHANGED asBuilt
Supplement == /\ OnDisk("benchmark") /\ SealHolds(disk["benchmark"][1])
              /\ Put("supplement", BuildSupplement(Body("benchmark"), Draws)) /\ UNCHANGED asBuilt
Close == Put("closure", BuildClosure) /\ asBuilt' = TRUE

(* Someone edits a record, resealing it or not, or removes it. *)
Edited == edits < MaxEdits /\ edits' = edits + 1 /\ UNCHANGED tree
EditRecord(d) ==
    /\ Edited /\ OnDisk(d)
    /\ \E body \in EditsOf[d], reseal \in BOOLEAN :
         disk' = [disk EXCEPT ![d] = <<[body |-> body, seal |-> IF reseal THEN Seal(body) ELSE @[1].seal]>>]
    /\ asBuilt' = (asBuilt /\ d # "closure")
Unlink(d) == /\ Edited /\ OnDisk(d)
             /\ disk' = [disk EXCEPT ![d] = Nothing]
             /\ asBuilt' = (asBuilt /\ d # "closure")
EditClosure(field) ==
    /\ Edited /\ OnDisk("closure")
    /\ LET r == Body("closure")
       IN  disk' = [disk EXCEPT !["closure"] = <<Sealed(
             CASE field = "counts" -> [r EXCEPT !.counts = ~@]
               [] field = "n2d3" -> [r EXCEPT !.n2d3.status = "passed", !.counts = TRUE]
               [] field = "evidence" -> [r EXCEPT !.evidence = Nothing]
               [] field = "canonical" -> [r EXCEPT !.cases = [c \in Cases |-> [@[c] EXCEPT !.canonical = "other"]]])>>]
    /\ asBuilt' = FALSE
EditTree(f) == /\ edits < MaxEdits /\ edits' = edits + 1
               /\ tree' = [tree EXCEPT ![f] = 1 - @] /\ UNCHANGED <<disk, asBuilt>>

ChainNext ==
    \/ MapFilters \/ RunCanary \/ RecordRun \/ RecordLegs \/ Benchmark \/ Supplement \/ Close
    \/ \E d \in Records : EditRecord(d) \/ Unlink(d)
    \/ \E field \in {"counts", "n2d3", "evidence", "canonical"} : EditClosure(field)
    \/ \E f \in SourceFiles : EditTree(f)
ChainSpec == ChainInit /\ [][ChainNext]_chain

-----------------------------------------------------------------------------
(* Whatever was edited, resealed, removed or built from another download,  *)
(* a closure that verifies, says the tokens were counted and links the     *)
(* run's evidence stands on a benchmark that the legs on disk give again,  *)
(* leg by leg in agreement, whose corpus is whole, and on a supplement     *)
(* resampled from that very benchmark                                      *)
(* (verify_n2d_current_identity_closure.verify).                           *)
AcceptedCountsAreRederivable ==
    (VerifyClosure /\ Body("closure").counts /\ Body("closure").evidence # Nothing) =>
        /\ BuildBenchmark(Body("legs")) = <<Body("benchmark")>>
        /\ \A c \in Cases : CombineCaseLegs(Body("legs")[c].a, Body("legs")[c].b)[1].disagreements = {}
        /\ WholeCorpus(Body("benchmark").corpus) /\ Body("supplement").source = Body("benchmark")
        /\ Body("closure").n2d3.link = <<Seal(Body("benchmark"))>>

(* No stale closure is accepted: while the closure is what its builder     *)
(* wrote, counts included, it verifies only where building it now would    *)
(* write the same links, hashes and counts again, whatever was rebuilt or  *)
(* edited since.  What the builder copies and no verifier compares is set  *)
(* aside (Compared): what the contract says (build_n2d_current_identity_   *)
(* closure.py:417-418, 430, 442; the verifier asks only that it is there,   *)
(* :104), the rejection record's classification (:408), and of each        *)
(* case what RestOf copies (:132-138, 152-157, 169-173).  So are the two   *)
(* edits after which nothing can be built while the closure verifies: of   *)
(* rust-toolchain.toml (:365), and of a static case's input path (:148).   *)
Compared(r) == [stage2 |-> r.stage2, tree |-> r.tree,
                cases |-> [c \in Cases |-> [canonical |-> r.cases[c].canonical, asset |-> r.cases[c].asset]],
                rejection |-> r.rejection.seal, replacement |-> r.replacement, rtkmap |-> r.rtkmap,
                n2d2 |-> r.n2d2, n2d3 |-> r.n2d3, counts |-> r.counts, evidence |-> r.evidence]
StaleClosureIsRefused ==
    (VerifyClosure /\ asBuilt /\ Body("closure").counts /\ Body("closure").evidence # Nothing) =>
        \/ tree["rust-toolchain"] # 0 \/ Body("durable").path = Nothing
        \/ /\ BuildClosure # Nothing
           /\ Compared(BuildClosure[1]) = Compared(Body("closure"))
===============================================================================
