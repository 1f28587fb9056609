-------------------------- MODULE SourceAcquisition --------------------------
(***************************************************************************)
(* How a chosen source is acquired, inspected and locked: the checks of a  *)
(* checkout, the job of a CI run, a dataset's file, the archives, the      *)
(* licence, the identity folded into the registry, the manifests and the   *)
(* receipt of the freeze, and the contracts of the mining framework.       *)
(*                                                                         *)
(* A hash is the content it is of.  <<>> stands for an absent value or a   *)
(* rejection, <<x>> for a value.                                           *)
(***************************************************************************)
EXTENDS Integers, FiniteSets, Sequences, SequencesExt

(* Archives.  A member is [kind, name, link, encrypted]; a name or a link  *)
(* target is [absolute, drive, path], its path a sequence of parts.        *)
TraversalOrAbsolute(name) == name.absolute \/ name.drive \/ ".." \in Range(name.path)

(* The path a link resolves to, "." and ".." taken away: what is left of   *)
(* the climbs above the root is the count of its leading "..".             *)
Normalized(path) ==
    FoldLeft(LAMBDA done, part :
                 IF part = "." THEN done
                 ELSE IF part = ".." /\ done # <<>> /\ Last(done) # ".." THEN Front(done) ELSE Append(done, part),
             <<>>, path)
EscapesRoot(name, target) ==
    \/ target.absolute \/ target.drive
    \/ LET joined == Normalized(Front(name.path) \o target.path) IN joined # <<>> /\ joined[1] = ".."

InspectTar(members) ==
    [paths |-> {m \in members : TraversalOrAbsolute(m.name)}, devices |-> {m \in members : m.kind = "device"},
     links |-> {m \in members : m.kind = "link" /\ EscapesRoot(m.name, m.link)}, encrypted |-> {}]
(* Of a zip only names and flags are looked at: a link in it is a file.    *)
InspectZip(members) ==
    [paths |-> {m \in members : TraversalOrAbsolute(m.name)}, devices |-> {}, links |-> {},
     encrypted |-> {m \in members : m.encrypted}]
SafeArchive(archive) ==
    /\ archive.type \in {"tar", "zip"} /\ archive.readable
    /\ LET found == IF archive.type = "tar" THEN InspectTar(archive.members) ELSE InspectZip(archive.members)
       IN  \A kind \in DOMAIN found : found[kind] = {}

(* What was acquired must hold bytes of a source, and not only metadata.   *)
HasContent(case) == (\E n \in case.tar : n >= 1) \/ \E n \in case.source : n >= 1
ContentlessCases(cases) == {c \in DOMAIN cases : ~HasContent(cases[c])}

-----------------------------------------------------------------------------
(* Licences. *)

Markers(spdx, kind) == spdx \in kind
NonCommercial == {"CC-BY-NC-4.0", "CC-BY-NC-ND-4.0"}
NoDerivatives == {"CC-BY-ND-4.0", "CC-BY-NC-ND-4.0"}
LicenseRecord(candidate) ==
    LET l == candidate.license
    IN  [id |-> candidate.id, status |-> l.status, spdx |-> l.spdx, allowed |-> l.redistribution,
         url |-> candidate.url, evidence |-> candidate.evidence,
         basis |-> IF l.basis # "" THEN l.basis
                   ELSE IF l.spdx \in {"MIT", "Apache-2.0", "BSD-2-Clause", "BSD-3-Clause"} THEN "default" ELSE ""]
HardRejectReasons(record) ==
    (IF record.status = "missing" \/ record.spdx = "none" THEN {"missing_license"} ELSE {})
    \cup (IF record.status = "ambiguous" \/ record.allowed \in {"unclear", "no"} THEN {"unclear_redistribution_basis"} ELSE {})
    \cup (IF Markers(record.spdx, NonCommercial) THEN {"non_commercial_restriction"} ELSE {})
    \cup (IF Markers(record.spdx, NoDerivatives) THEN {"no_derivatives_restriction"} ELSE {})

-----------------------------------------------------------------------------
(* A checkout: [head, tree, submodules, lfs, hooks, licence, files].       *)

KnownLicenseTexts == {"MIT", "Apache-2.0", "BSD-2-Clause", "BSD-3-Clause", "CC-BY-4.0", "CC0-1.0"}
CheckoutAccepted(checkout, candidate) ==
    /\ checkout.head = candidate.commit
    /\ ~checkout.gitmodules /\ checkout.submodules = {}
    /\ ~checkout.lfsFilter /\ \A f \in checkout.files : ~f.lfsPointer
    /\ \A h \in checkout.hooks : h.sample \/ ~h.executable
    /\ candidate.license.spdx \in KnownLicenseTexts /\ checkout.licenseText = <<candidate.license.spdx>>

(* Owner, group and time are erased: an archive is its files' names, in    *)
(* order, and contents.                                                    *)
NormalizedArchive(files) == {<<f.name, f.content>> : f \in files}
AcquireRepository(checkout, candidate) ==
    IF ~CheckoutAccepted(checkout, candidate) THEN <<>>
    ELSE <<[id |-> candidate.id, head |-> <<checkout.head>>, tree |-> <<checkout.tree>>,
            archive |-> <<NormalizedArchive(checkout.files)>>, metadata |-> <<>>, content |-> <<>>, normalized |-> <<>>]>>

(* A job is [id, duration], -1 when its times say nothing; the longest     *)
(* runs first, the smaller id among equals.                                *)
SelectJob(jobs) ==
    IF jobs = {} THEN <<>>
    ELSE <<CHOOSE j \in jobs : \A k \in jobs : j.duration > k.duration \/ (j.duration = k.duration /\ j.id <= k.id)>>

(* A job once locked in is never replaced by another.                      *)
WantedJob(candidate, jobs) ==
    IF candidate.jobs = <<>> THEN SelectJob(jobs) ELSE SetToSeq({j \in jobs : j.id = candidate.jobs[1]})
(* The response of a platform is [jobs, logs, commit, metadata]: logs maps *)
(* the ids of the jobs whose log can still be fetched to it.               *)
AcquireCiRun(candidate, response) ==
    LET wanted == WantedJob(candidate, response.jobs)
    IN  IF wanted = <<>> THEN <<>>
        ELSE IF wanted[1].id \notin DOMAIN response.logs THEN <<>>
        ELSE LET log == response.logs[wanted[1].id]
             IN  <<[id |-> candidate.id, metadata |-> <<response.metadata>>, content |-> <<log>>,
                    normalized |-> <<{<<"job", log>>}>>, commit |-> response.commit, jobs |-> <<wanted[1].id>>]>>

AcquireBotOutput(candidate, response) ==
    <<[id |-> candidate.id, metadata |-> <<>>, content |-> <<response>>, normalized |-> <<{<<"response", response>>}>>]>>

(* A dataset: one exact file chosen before; a checksum of a kind other     *)
(* than md5 is not compared.                                               *)
AcquireDataset(candidate, response) ==
    IF candidate.exactFile = <<>> \/ candidate.exactUrl = <<>> THEN <<>>
    ELSE IF candidate.checksum # <<>> /\ candidate.algorithm = "md5" /\ candidate.checksum # <<response.content>> THEN <<>>
    ELSE <<[id |-> candidate.id, metadata |-> <<response.metadata>>, content |-> <<response.content>>,
            normalized |-> <<{<<candidate.exactFile[1], response.content>>}>>]>>

(* An acquired artifact that is there, and is the expected one if one is.  *)
ArtifactAccepted(artifact, expected) == artifact # <<>> /\ (expected = <<>> \/ expected = artifact)

SourceKinds == {"repository-execution", "ci-run-artifact", "bot-output-artifact", "dataset-artifact",
                "research-corpus-artifact"}
RunAcquisition(candidate, response) ==
    CASE candidate.kind = "repository-execution" -> AcquireRepository(response, candidate)
      [] candidate.kind = "ci-run-artifact" -> AcquireCiRun(candidate, response)
      [] candidate.kind = "bot-output-artifact" -> AcquireBotOutput(candidate, response)
      [] candidate.kind \in {"dataset-artifact", "research-corpus-artifact"} -> AcquireDataset(candidate, response)

-----------------------------------------------------------------------------
(* The identity lock.  An identity maps a field to <<>> or <<value>>.  A   *)
(* field that is empty takes the fresh value; one that is not and differs  *)
(* is drift, and stays. *)

RepositoryFields == {"head", "tree", "archive"}
NonRepositoryFields == {"metadata", "content", "normalized"}
FieldsOf(kind) ==
    CASE kind = "repository-execution" -> RepositoryFields
      [] kind = "ci-run-artifact" -> NonRepositoryFields \cup {"commit", "jobs"}
      [] OTHER -> NonRepositoryFields

Fresh(result, kind) == {f \in FieldsOf(kind) \cap DOMAIN result : result[f] # <<>>}
FoldOne(identity, result, kind) ==
    [f \in DOMAIN identity |-> IF f \in Fresh(result, kind) /\ identity[f] = <<>> THEN result[f] ELSE identity[f]]
DriftOf(identity, result, kind) == {f \in Fresh(result, kind) : identity[f] # <<>> /\ identity[f] # result[f]}
Touched(identity, result, kind) == \E f \in Fresh(result, kind) : identity[f] = <<>>

(* Results are folded one after the other: a second result for a case is   *)
(* compared with what the first one filled in.                             *)
FoldOrVerify(registry, results) ==
    FoldLeft(LAMBDA state, r :
                 IF r.id \notin DOMAIN state.registry THEN [state EXCEPT !.unmatched = Append(@, r.id)]
                 ELSE LET c == state.registry[r.id]
                      IN  [registry |-> [state.registry EXCEPT ![r.id].identity = FoldOne(c.identity, r, c.kind)],
                           drift |-> state.drift \cup ({r.id} \X DriftOf(c.identity, r, c.kind)),
                           updated |-> state.updated \cup (IF Touched(c.identity, r, c.kind) THEN {r.id} ELSE {}),
                           unmatched |-> state.unmatched],
             [registry |-> registry, drift |-> {}, updated |-> {}, unmatched |-> <<>>], results)

(* The bytes of a source that no durable publisher keeps are copied beside *)
(* the registry and their hash recorded. *)
DurablyPublished == {"public-runtime-dataset", "reproducible-research-corpus"}
StageDurable(registry, acquired) ==
    [id \in DOMAIN registry |->
        IF \/ registry[id].kind = "repository-execution" \/ registry[id].origin \in DurablyPublished
           \/ acquired[id] = {}
        THEN registry[id] ELSE [registry[id] EXCEPT !.identity["durable"] = <<acquired[id]>>]]

-----------------------------------------------------------------------------
(* Manifests and the receipt.  A command is [argv, compound, quoted]: the  *)
(* words of it, whether a shell would join several, whether it splits. *)

ExecutionPlan(candidate) ==
    IF candidate.kind # "repository-execution" THEN [argv |-> <<>>, status |-> "frozen"]
    ELSE IF candidate.command.compound \/ ~candidate.command.splits \/ candidate.command.argv = <<>>
         THEN [argv |-> <<>>, status |-> "requires-n2d-probe"]
         ELSE [argv |-> candidate.command.argv, status |-> "frozen"]
ExtractionInput(candidate) ==
    CASE candidate.kind = "ci-run-artifact" -> candidate.jobs
      [] candidate.kind = "bot-output-artifact" -> <<"response">>
      [] candidate.kind \in {"dataset-artifact", "research-corpus-artifact"} -> candidate.exactFile
      [] OTHER -> <<>>
SourceManifest(candidate, role, priority) ==
    [id |-> candidate.id, role |-> role, priority |-> priority, identity |-> candidate.identity,
     plan |-> ExecutionPlan(candidate), input |-> ExtractionInput(candidate)]

(* One manifest and one licence record a case; a manifest that does not    *)
(* fit the schema leaves neither, a record that does not leaves the        *)
(* manifest.  Nothing that an earlier selection left is taken away.        *)
GenerateAll(disk, roles, manifestFits, recordFits) ==
    LET written == {id \in DOMAIN roles : manifestFits[id]}
    IN  [manifests |-> disk.manifests \cup {<<roles[id], id>> : id \in written},
         records |-> disk.records \cup {id \in written : recordFits[id]},
         errors |-> {id \in DOMAIN roles : ~manifestFits[id] \/ ~recordFits[id]}]

AcquisitionComplete(registry, ids) ==
    \A id \in ids : IF registry[id].kind = "repository-execution" THEN registry[id].identity["archive"] # <<>>
                    ELSE registry[id].identity["content"] # <<>> /\ registry[id].identity["normalized"] # <<>>
(* Only the files that are there are hashed.                               *)
FreezeReceipt(registry, primary, alternates, disk) ==
    LET ids == primary \cup Range(alternates)
        role(id) == IF id \in primary THEN "primary" ELSE "alternate"
    IN  [primary |-> primary, alternates |-> alternates, registry |-> registry,
         manifests |-> {id \in ids : <<role(id), id>> \in disk.manifests}, records |-> ids \cap disk.records,
         complete |-> AcquisitionComplete(registry, ids)]

(* Folding writes the registry and regenerates the manifests before it     *)
(* says whether anything drifted.  selection: of a registry, its roles.    *)
FoldCommand(disk, registry, results, roles, manifestFits, recordFits) ==
    LET folded == FoldOrVerify(registry, results)
        made == GenerateAll(disk, roles, manifestFits, recordFits)
    IN  [registry |-> folded.registry, disk |-> made,
         code |-> IF folded.drift # {} \/ made.errors # {} THEN 1 ELSE 0]

(* An index of what a workflow kept: what the platform does not list has   *)
(* neither id nor digest, and does not pass.                               *)
ArtifactIndex(directories, listed, self) ==
    [name \in directories \ {self} |-> IF name \in DOMAIN listed THEN <<listed[name]>> ELSE <<>>]
ValidIndex(index, logicalHead) == logicalHead # <<>> /\ \A name \in DOMAIN index : index[name] # <<>>

(* Nothing of the frozen base may differ from it.                          *)
FrozenBase(base, tree, pin, acceptedPin) ==
    [drift |-> {p \in DOMAIN base : base[p] # tree[p]}, pass |-> (\A p \in DOMAIN base : base[p] = tree[p]) /\ pin = acceptedPin]

-----------------------------------------------------------------------------
(* The contracts of the framework. *)

(* Two receipts agree on a field that must be there only when both have    *)
(* it: an absence is not an agreement.                                     *)
Present(field, value) == IF field = "exit_code" THEN value \in Int ELSE value \notin {"", " ", "none"}
FieldAgrees(a, b, field, required) ==
    /\ a[field] = b[field] /\ (field \in required => a[field] # <<>> /\ Present(field, a[field][1]))
Reproducible(a, b, fields, required) == \A f \in fields : FieldAgrees(a, b, f, required)

ValidProfile(profile) ==
    profile.versioned /\ profile.transformations # <<>> /\ \A i \in DOMAIN profile.transformations : ~profile.transformations[i].forbidden
TransformationReceipt(profile, applied) ==
    LET unknown == {t \in Range(applied) : t \notin Range(profile.transformations)}
    IN  [applied |-> applied, unknown |-> unknown, consistent |-> unknown = {}]

(* A sandbox that needs a path nobody proved harmless is not planned.      *)
SandboxPlan(readOnly, writable, provenReadable, provenWritable) ==
    LET gaps == (readOnly \ provenReadable) \cup (writable \ provenWritable)
    IN  [gaps |-> gaps, status |-> IF gaps = {} THEN "PLANNED" ELSE "CAPABILITY_GAP"]

(* More than one ecosystem that could be built needs a person's choice.    *)
DetectAll(detected) ==
    LET found == {e \in DOMAIN detected : detected[e].entries # {}}
    IN  [ecosystems |-> found, ambiguous |-> Cardinality({e \in found : detected[e].confidence > 0}) > 1]
===============================================================================
