--------------------------- MODULE Stage2Acceptance ---------------------------
(***************************************************************************)
(* The acceptance record of the full capture matrix (nine cases, two       *)
(* captures each): what its builder writes, and what its verifier checks   *)
(* of the record and of the files beside it.                               *)
(*                                                                         *)
(* A document is [body, seal]; the hash of a body is the body.  A file     *)
(* read by its content hash is its content.  A repository is [commits,     *)
(* ancestors, head]: ancestors maps a commit to those it descends from,    *)
(* itself included.                                                        *)
(***************************************************************************)
EXTENDS Integers, Sequences, SequencesExt

SealedBody(body) == [body |-> body, seal |-> body]
SelfConsistent(doc) == doc.seal = doc.body

RequiredCases == {"repo-docker-java-parser", "repo-dockerfile-parser-rs", "repo-helm-values", "repo-hyperfine",
                  "repo-kubeops-generator", "repo-moshi", "repo-pyflakes", "repo-requests", "repo-rustlings"}
CaptureLegs == {"capture_a", "capture_b"}
WorkflowFile == "qodec-n2d1b-miner-pilot.yml"
BaseMain == "e7e6759"
Implementation == "478d70b"
Trigger == "c430812"
TriggerBranch == "ci-trigger/n2d1b-stage2-478d70b"
RunId == "29550102525"
PullRequest == 3

PolicyNames == {"maven", "vstest", "gradle_v2", "gradle_helm_values_v1", "cargo_test", "pytest_requests_duration_v1"}
PolicyOf(case) ==
    CASE case = "repo-docker-java-parser" -> "maven"
      [] case = "repo-kubeops-generator" -> "vstest"
      [] case = "repo-moshi" -> "gradle_v2"
      [] case = "repo-helm-values" -> "gradle_helm_values_v1"
      [] case \in {"repo-dockerfile-parser-rs", "repo-rustlings"} -> "cargo_test"
      [] case = "repo-requests" -> "pytest_requests_duration_v1"
      [] case \in {"repo-hyperfine", "repo-pyflakes"} -> "none"

-----------------------------------------------------------------------------
(* Jobs and artifacts.  What a job is for is its name; its identity its id. *)

CaptureNames == {<<"pilot", c, leg>> : c \in RequiredCases, leg \in CaptureLegs}
PairNames == {<<"pair-verify", c>> : c \in RequiredCases}
OtherNames == {<<"lockfile", "repo-dockerfile-parser-rs">>}
Listed(names) == {[name |-> n, id |-> n] : n \in names}
JobEntries(names) == {j @@ [conclusion |-> "success"] : j \in Listed(names)}
Artifacts(names) == {a @@ [digest |-> <<"sha256", a.name>>] : a \in Listed(names)}

(* Neither an id nor a name occurs twice, in a group or across the groups. *)
Distinct(entries) == \A e, f \in entries : (e.id = f.id \/ e.name = f.name) => e = f
JobGroupHolds(jobs) == Distinct(jobs) /\ \A j \in jobs : j.conclusion = "success"
ArtifactGroupHolds(artifacts) == Distinct(artifacts) /\ \A a \in artifacts : a.digest # <<"malformed">>
NamesOf(entries) == {e.name : e \in entries}

(* A manifest is what the run itself said of its jobs or its artifacts.    *)
ManifestHolds(manifest, entries) ==
    /\ SelfConsistent(manifest)
    /\ manifest.body.run = RunId /\ manifest.body.head = Trigger /\ manifest.body.branch = TriggerBranch
    /\ Cardinality(manifest.body.entries) = 28 /\ manifest.body.entries = entries

-----------------------------------------------------------------------------
(* The patch that triggered the run: [files, lines], a line [sign, text,   *)
(* headerLike].  A changed line that reads like a file header, one whose   *)
(* own text starts with two more signs, is not seen.                       *)

ParsedPatch(patch) ==
    LET of(sign) == SelectSeq(patch.lines, LAMBDA l : l.sign = sign /\ ~l.headerLike)
        texts(ls) == [i \in DOMAIN ls |-> ls[i].text]
    IN  [files |-> patch.files, added |-> texts(of("+")), removed |-> texts(of("-"))]

TriggerLines == <<"push:", TriggerBranch>>
ForbiddenSections == {"permissions:", "jobs:", "steps:", "matrix:", "env:", "run:", "uses:", "with:"}
PatchHolds(patch) ==
    LET p == ParsedPatch(patch)
    IN  /\ p.files = {WorkflowFile} /\ p.removed = <<>> /\ p.added = TriggerLines
        /\ Range(p.added) \cap ForbiddenSections = {}

(* The proof of the later run's patch is built from the same reading. *)
BuildPatchProof(patch, file, lines) ==
    LET p == ParsedPatch(patch)
    IN  IF p.files # {file} \/ p.removed # <<>> \/ p.added # lines THEN <<>>
        ELSE <<SealedBody([file |-> file, added |-> Len(p.added), removed |-> 0, diff |-> patch])>>

(* The summary of a test run: counts by category, and how long it took. *)
RequiredCounts == [passed |-> 619, skipped |-> 15, xfailed |-> 1, warnings |-> 18]
ForbiddenCounts == {"failed", "error", "errors"}
SummaryHolds(summary) ==
    /\ summary.parsed /\ summary.duration # ""
    /\ DOMAIN summary.counts \cap ForbiddenCounts = {}
    /\ \A c \in DOMAIN RequiredCounts : c \in DOMAIN summary.counts /\ summary.counts[c] = RequiredCounts[c]

-----------------------------------------------------------------------------
(* The builder. *)

NetworkAuthorized == {"repo-kubeops-generator", "repo-moshi", "repo-helm-values", "repo-requests"}
SinkTarget == "10.255.255.1"
NetworkApproval == "loopback-only-authorization"
SinkApproval == "timeout-sink-v1-authorization"
SinkFixture == "repo-requests-timeout-sink-v1"
MaterializedTo == "2000-01-01T00:00:00Z"

(* What the captures produced: a canonical input for each case. *)
CasesRecord(inputs) ==
    [c \in RequiredCases |->
        [policy |-> PolicyOf(c), canonicalCapture |-> "capture_a", equal |-> TRUE, final |-> inputs[c],
         input |-> [leg \in CaptureLegs |-> inputs[c]],
         artifact |-> [leg \in CaptureLegs |-> <<"pilot", c, leg>>]]]

RequestsAcceptance(inputs) ==
    [case |-> "repo-requests", clean |-> TRUE, classification |-> "genuine-workload-output", toolchain |-> "exact-match",
     replacements |-> 1, diffLines |-> 1, rule |-> "pytest_final_summary_duration",
     policy |-> PolicyOf("repo-requests"), canonicalCapture |-> "capture_a", final |-> inputs["repo-requests"],
     sink |-> SinkTarget, sinkArgv |-> "standard", mode |-> "outer-netns-loopback-only", fixture |-> SinkFixture,
     sinkApproval |-> SinkApproval, networkApproval |-> NetworkApproval,
     epoch |-> 946684800, iso |-> MaterializedTo, files |-> 128,
     summary |-> [leg \in CaptureLegs |-> [parsed |-> TRUE, counts |-> RequiredCounts, duration |-> leg]]]

Rederivation == [c \in RequiredCases |-> [a |-> TRUE, b |-> TRUE, identical |-> TRUE, policy |-> TRUE]]

(* The two links are to records that held when the record was built.       *)
ReplacementLink(world) ==
    [path |-> "stage2-replacement-selection-v1", record |-> world.replacement.seal,
     replacement |-> world.replacement.body.replacement, rejected |-> world.replacement.body.rejected]
ManifestsLink(world) == [jobs |-> world.jobs.seal, artifacts |-> world.artifacts.seal]
BuildPossible(world) == world.replacementHolds /\ SelfConsistent(world.jobs) /\ SelfConsistent(world.artifacts)

Claims == [inspected |-> TRUE, accepted |-> TRUE, pairsEqual |-> TRUE, unexplained |-> {}]
NotYet == {"tokens", "benchmark", "nix", "n2d2", "n2d3", "leaderboard", "quality", "physshell_007"}

BuildRecord(world, inputs) ==
    SealedBody([type |-> "n2d1b-stage2-full-matrix-acceptance-v1", version |-> 2, status |-> "ACCEPTED_COMPLETE",
        accepted |-> RequiredCases, base |-> BaseMain, tested |-> Implementation, implementation |-> Implementation,
        trigger |-> Trigger, branch |-> TriggerBranch, changed |-> <<WorkflowFile>>, patch |-> world.patch,
        inPullRequest |-> FALSE, sameTree |-> TRUE, pullRequest |-> PullRequest,
        workflow |-> [run |-> RunId, event |-> "push", conclusion |-> "success", head |-> Trigger, branch |-> TriggerBranch],
        succeeded |-> TRUE, jobs |-> JobEntries(CaptureNames), pairJobs |-> JobEntries(PairNames), otherJobs |-> JobEntries(OtherNames),
        artifacts |-> Artifacts(CaptureNames), pairArtifacts |-> Artifacts(PairNames), otherArtifacts |-> Artifacts(OtherNames),
        policies |-> [p \in PolicyNames |-> world.policies[p]],
        network |-> NetworkAuthorized, sinkCases |-> [c \in {"repo-requests"} |-> SinkTarget],
        mtimeCases |-> [c \in {"repo-requests"} |-> MaterializedTo],
        networkApprovals |-> [c \in {"repo-requests"} |-> NetworkApproval],
        sinkApprovals |-> [c \in {"repo-requests"} |-> SinkApproval],
        fixtures |-> [c \in {"repo-requests"} |-> SinkFixture],
        cases |-> CasesRecord(inputs), final |-> inputs, requests |-> RequestsAcceptance(inputs),
        replacement |-> ReplacementLink(world), manifests |-> ManifestsLink(world),
        rederivation |-> Rederivation, claims |-> Claims, notYet |-> [f \in NotYet |-> FALSE]])

-----------------------------------------------------------------------------
(* The verifier, clause by clause in its order. *)

IdentityHolds(r) ==
    /\ r.type = "n2d1b-stage2-full-matrix-acceptance-v1" /\ r.version = 2 /\ r.status = "ACCEPTED_COMPLETE"
    /\ r.accepted = RequiredCases /\ r.tested = r.implementation /\ r.implementation # r.trigger

(* The implementation is in the history of whoever verifies; the trigger   *)
(* commit is in the repository and is not.                                 *)
GitHolds(r, git) ==
    /\ {r.base, r.implementation, r.trigger} \subseteq git.commits
    /\ r.base \in git.ancestors[r.implementation] /\ r.implementation \in git.ancestors[git.head]
    /\ r.trigger \notin git.ancestors[git.head]
    /\ r.base = BaseMain /\ r.implementation = Implementation /\ r.trigger = Trigger /\ r.branch = TriggerBranch

WorkflowHolds(r) ==
    /\ r.workflow = [run |-> RunId, event |-> "push", conclusion |-> "success", head |-> Trigger, branch |-> TriggerBranch]
    /\ r.changed = <<WorkflowFile>> /\ ~r.inPullRequest /\ r.sameTree /\ r.pullRequest = PullRequest

GroupsHold(r, world) ==
    /\ Cardinality(r.jobs) = 18 /\ Cardinality(r.pairJobs) = 9 /\ Cardinality(r.otherJobs) = 1
    /\ JobGroupHolds(r.jobs \cup r.pairJobs \cup r.otherJobs)
    /\ NamesOf(r.jobs) = CaptureNames /\ NamesOf(r.pairJobs) = PairNames /\ NamesOf(r.otherJobs) = OtherNames
    /\ r.succeeded /\ Cardinality(r.artifacts) = 18 /\ Cardinality(r.pairArtifacts) = 9 /\ Cardinality(r.otherArtifacts) = 1
    /\ ArtifactGroupHolds(r.artifacts \cup r.pairArtifacts \cup r.otherArtifacts)
    /\ NamesOf(r.artifacts) = CaptureNames /\ NamesOf(r.pairArtifacts) = PairNames /\ NamesOf(r.otherArtifacts) = OtherNames
    /\ ManifestHolds(world.jobs, r.jobs \cup r.pairJobs \cup r.otherJobs)
    /\ ManifestHolds(world.artifacts, r.artifacts \cup r.pairArtifacts \cup r.otherArtifacts)

(* The policy of each tool is intact, is the one the code names, and is    *)
(* the one the record names.                                               *)
PoliciesHold(r, world) ==
    /\ DOMAIN r.policies = PolicyNames
    /\ \A p \in PolicyNames : world.intact[p] /\ world.policies[p] = world.pinned[p] /\ r.policies[p] = world.policies[p]

ClaimsHold(r) ==
    /\ r.claims = Claims /\ r.notYet = [f \in NotYet |-> FALSE]
    /\ DOMAIN r.rederivation = RequiredCases
    /\ \A c \in RequiredCases : \A k \in DOMAIN r.rederivation[c] : r.rederivation[c][k]

TriggerPatchHolds(r, world) == r.patch = world.patch /\ PatchHolds(world.patch)

(* The capture artifacts of a case only need to be there: nothing compares *)
(* them with the artifacts of the run.                                     *)
CasesHold(r) ==
    /\ DOMAIN r.cases = RequiredCases /\ DOMAIN r.final = RequiredCases
    /\ \A c \in RequiredCases :
         /\ r.cases[c].equal /\ r.cases[c].canonicalCapture = "capture_a" /\ r.cases[c].final # <<"malformed">>
         /\ \A leg \in CaptureLegs : r.cases[c].input[leg] = r.cases[c].final
         /\ r.final[c] = r.cases[c].final
         /\ DOMAIN r.cases[c].artifact = CaptureLegs

RequestsHolds(r) ==
    LET q == r.requests
    IN  /\ q.case = "repo-requests" /\ q.clean /\ q.toolchain = "exact-match"
        /\ q.classification = "genuine-workload-output" /\ q.replacements = 1 /\ q.diffLines = 1
        /\ q.canonicalCapture = "capture_a" /\ q.policy = "pytest_requests_duration_v1"
        /\ q.final = r.cases["repo-requests"].final
        /\ q.sink = SinkTarget /\ q.sinkArgv = "standard" /\ q.mode = "outer-netns-loopback-only"
        /\ q.fixture = SinkFixture /\ q.sinkApproval = SinkApproval /\ q.networkApproval = NetworkApproval
        /\ q.sinkApproval # q.networkApproval
        /\ q.rule = "pytest_final_summary_duration" /\ q.epoch = 946684800 /\ q.iso = MaterializedTo /\ q.files = 128
        /\ \A leg \in CaptureLegs : SummaryHolds(q.summary[leg])
        /\ q.summary["capture_a"].counts = q.summary["capture_b"].counts

AuthorizationsHold(r) ==
    LET of(map, case) == IF case \in DOMAIN map THEN map[case] ELSE "absent"
    IN  /\ of(r.sinkCases, "repo-requests") = SinkTarget /\ "repo-requests" \in r.network
        /\ of(r.mtimeCases, "repo-requests") = MaterializedTo
        /\ of(r.networkApprovals, "repo-requests") = r.requests.networkApproval
        /\ of(r.sinkApprovals, "repo-requests") = r.requests.sinkApproval
        /\ of(r.fixtures, "repo-requests") = r.requests.fixture

LinksHold(r, world) ==
    /\ r.replacement.replacement = "repo-helm-values" /\ r.replacement.rejected = "repo-spotless"
    /\ r.replacement.path = "stage2-replacement-selection-v1" /\ r.replacement.record = world.replacement.seal
    /\ world.replacementHolds
    /\ r.manifests = [jobs |-> world.jobs.seal, artifacts |-> world.artifacts.seal]

Verify(doc, world) ==
    /\ SelfConsistent(doc)
    /\ LET r == doc.body
       IN  /\ IdentityHolds(r) /\ GitHolds(r, world.git) /\ WorkflowHolds(r) /\ GroupsHold(r, world)
           /\ PoliciesHold(r, world) /\ ClaimsHold(r) /\ TriggerPatchHolds(r, world)
           /\ CasesHold(r) /\ RequestsHolds(r) /\ AuthorizationsHold(r) /\ LinksHold(r, world)
===============================================================================
