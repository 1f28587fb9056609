------------------------------- MODULE D1Capture -------------------------------
(***************************************************************************)
(* One capture of a case by run_pilot_case.py and generic_capture.py, what *)
(* it leaves in its output directory, and what the pair verifier makes of  *)
(* two such directories.  The hash of a content is the content.            *)
(*                                                                         *)
(* A job is a record of what the case is and what the runner meets:        *)
(*   name, case, ecosystem, venv, ambientOpts, lockfile, archive,          *)
(*   pinnedArchive, erratum, frozenArgv, toolchain, setup, probes,         *)
(*   argv0Exists, output, errors, exit, infra, traceback, marker, counts   *)
(* erratum and counts are sequences of at most one element.                *)
(***************************************************************************)
EXTENDS Canonicalizer

CONSTANT ByteCap          \* lines of a stream that are kept (4 MiB in the code)
ASSUME ByteCapAssumption == ByteCap \in Nat

None == "none"
Failed(gate) == [gate |-> gate]
Proceeds == Failed(None)

-----------------------------------------------------------------------------
(* What runs before the command. *)

LoopbackOnly == {"repo-kubeops-generator", "repo-moshi", "repo-helm-values", "repo-requests"}
TimeoutSink == {"repo-requests"}
MtimeMaterialized == {"repo-requests"}
DeterministicGradle == {"repo-moshi", "repo-helm-values"}
DeterministicCargo == {"repo-rustlings", "repo-dockerfile-parser-rs"}

RequestedVersion == [rust |-> "stable", python |-> "3.12.3", dotnet |-> "10.0.x"]

(* identity-missing is the only hard failure: another version than the one *)
(* asked for is written down and goes on.                                  *)
Classify(toolchain) ==
    CASE toolchain.missing # {} -> "identity-missing"
      [] toolchain.missing = {} /\ toolchain.resolved = toolchain.requested -> "exact-match"
      [] toolchain.missing = {} /\ toolchain.resolved # toolchain.requested ->
           IF toolchain.inRange THEN "compatible-resolution" ELSE "unexpected-resolution"
IsHardFailure(classification) == classification = "identity-missing"

(* A version tool that prints nothing readable leaves its field missing. *)
RustIdentity(seen) == {f \in {"resolved_version", "runtime_identifier", "binary"} : f \notin seen}
PythonIdentity(seen) ==
    {f \in {"resolved_version", "binary"} : f \notin seen}
    \cup (IF {"resolved_version", "implementation_name", "cache_tag", "platform"} \subseteq seen
          THEN {} ELSE {"runtime_identifier"})
JvmIdentity(seen) == {f \in {"resolved_version", "runtime_identifier", "binary"} : f \notin seen}

(* The scheduling of Gradle is pinned for two cases, whose own command and *)
(* ambient options must not say otherwise; the others only lose the daemon. *)
EnvironmentOf(job) ==
    CASE job.ecosystem = "rust" -> {"CARGO_HOME", "RUSTUP_HOME", "CARGO_NET_OFFLINE"}
                                   \cup (IF job.case \in DeterministicCargo THEN {"RUST_TEST_THREADS"} ELSE {})
      [] job.ecosystem = "jvm-maven" -> {"JAVA_HOME", "MAVEN_OPTS", "MAVEN_LOCAL_REPO_PATH", "SBT_GLOBAL_BASE_PATH"}
      [] job.ecosystem = "jvm-gradle" -> {"JAVA_HOME", "GRADLE_USER_HOME", "GRADLE_M2_REPO_PATH"}
      [] job.ecosystem = "python" -> {"VIRTUAL_ENV", "PYTHONDONTWRITEBYTECODE", "PIP_NO_INDEX", "PYTHON_BASE_INTERPRETER_ROOT"}
                                     \cup (IF job.case = "repo-requests" THEN {"PYTHON_EDITABLE_INSTALL_SOURCE_DIR"} ELSE {})
      [] job.ecosystem = "dotnet" -> {"DOTNET_CLI_TELEMETRY_OPTOUT", "DOTNET_NOLOGO", "DOTNET_ROOT", "NUGET_PACKAGES"}
SchedulingPinned(job) == job.ecosystem = "jvm-gradle" /\ job.case \in DeterministicGradle
SchedulingConflict(job) == SchedulingPinned(job) /\ job.ambientOpts \cap {"org.gradle.parallel", "org.gradle.workers.max"} # {}

Argv0Override(job) == IF job.ecosystem # "python" \/ ~job.venv THEN None
                      ELSE IF job.frozenArgv = <<"python">> THEN "venv-python" ELSE "venv-bin"
EffectiveArgv(job) ==
    LET argv == IF job.erratum = <<>> THEN job.frozenArgv ELSE job.erratum[1].corrected
    IN  IF Argv0Override(job) = None THEN argv ELSE <<Argv0Override(job)>> \o Tail(argv)
Resolution(job) == IF job.erratum = <<>> THEN "frozen" ELSE "authorized-n2d1b-erratum"

(* What the confined command may read and write.  Only a case with its own *)
(* network mode may read the probe scripts.                                *)
ReadOnlyFromEnvironment(ecosystem) ==
    CASE ecosystem = "rust" -> {"RUSTUP_HOME"}
      [] ecosystem = "python" -> {"VIRTUAL_ENV", "PYTHON_BASE_INTERPRETER_ROOT", "PYTHON_EDITABLE_INSTALL_SOURCE_DIR"}
      [] ecosystem = "jvm-maven" -> {"JAVA_HOME"}
      [] ecosystem = "jvm-gradle" -> {"JAVA_HOME", "GRADLE_M2_REPO_PATH"}
      [] ecosystem = "dotnet" -> {"DOTNET_ROOT", "NUGET_PACKAGES"}
WritableFromEnvironment(ecosystem) ==
    CASE ecosystem = "rust" -> {"CARGO_HOME"}
      [] ecosystem = "jvm-maven" -> {"MAVEN_LOCAL_REPO_PATH", "SBT_GLOBAL_BASE_PATH"}
      [] ecosystem = "jvm-gradle" -> {"GRADLE_USER_HOME"}
      [] ecosystem \in {"python", "dotnet"} -> {}
SandboxPolicy(job) ==
    [ro   |-> {"system", "source"} \cup (EnvironmentOf(job) \cap ReadOnlyFromEnvironment(job.ecosystem))
              \cup (IF job.case \in LoopbackOnly THEN {"probe-scripts"} ELSE {}),
     rw   |-> {"/dev/null", "/tmp", "home", "tmp", "capture-out", "project"}
              \cup (EnvironmentOf(job) \cap WritableFromEnvironment(job.ecosystem)),
     mode |-> IF job.case \in LoopbackOnly THEN "outer-netns-loopback-only" ELSE "deny"]

(* A probe is [reached, parsed, ok]: the targets it says it reached, and   *)
(* whether it printed a result at all.  No result reads as nothing reached. *)
SomeReached(probe) == probe.parsed /\ probe.reached # {}
NetworkVerified(probes) == ~SomeReached(probes.external) /\ probes.loopback.parsed /\ probes.loopback.ok
SinkVerified(probes) ==
    /\ probes.sink.parsed /\ probes.sink.ok
    /\ ~SomeReached(probes.external) /\ probes.loopback.parsed /\ probes.loopback.ok
SinkTimesOut(probe) == probe = "TIMEOUT"

(* The gates before the command, in the order in which they are met. *)
BeforeTheRun(job) ==
    CASE SchedulingConflict(job) -> Failed("scheduling-conflict")
      [] job.lockfile = "required-missing" -> Failed("lockfile")
      [] OTHER ->
           IF job.archive # job.pinnedArchive THEN Failed("archive-hash")
           ELSE IF job.erratum # <<>> /\ job.erratum[1].original # job.frozenArgv THEN Failed("erratum")
           ELSE IF IsHardFailure(Classify(job.toolchain)) THEN Failed("toolchain")
           ELSE IF ~job.setup THEN Failed("trusted-setup")
           ELSE IF job.case \in LoopbackOnly /\ ~NetworkVerified(job.probes) THEN Failed("network-probe")
           ELSE IF job.case \in TimeoutSink /\ ~SinkVerified(job.probes) THEN Failed("timeout-sink-probe")
           ELSE IF ~job.argv0Exists THEN Failed("argv0")
           ELSE Proceeds

-----------------------------------------------------------------------------
(* Content acceptance: whether the output is that of the workload. *)

StrictZeroExit == {"repo-requests"}
TerminationAllowed(case, exit) == IF case \in StrictZeroExit THEN exit = 0 ELSE exit \notin {126, 127} /\ exit >= 0

(* counts are those of the last summary line, or none was printed. *)
SemanticMarker(job) ==
    IF job.case = "repo-requests" THEN job.counts # <<>> /\ job.counts[1].failed = 0 /\ job.counts[1].errors = 0
    ELSE IF job.case = "repo-pyflakes" THEN job.output.lines # <<>>
    ELSE job.marker
AuthorizedEmpty(job) ==
    /\ job.case = "repo-pyflakes" /\ job.output.lines = <<>> /\ job.exit = 0
    /\ ~job.infra /\ Resolution(job) = "authorized-n2d1b-erratum" /\ ~job.traceback
Capped(lines) == SubSeq(lines, 1, IF Len(lines) <= ByteCap THEN Len(lines) ELSE ByteCap)
ContentAccepted(job) ==
    \/ AuthorizedEmpty(job) /\ job.output.utf8 /\ TerminationAllowed(job.case, job.exit)
    \/ /\ job.output.utf8 /\ Capped(job.output.lines) # <<>>
       /\ TerminationAllowed(job.case, job.exit) /\ ~job.infra /\ SemanticMarker(job)
Classification(job) ==
    IF AuthorizedEmpty(job) THEN "successful-empty-domain-result"
    ELSE IF ContentAccepted(job) THEN "genuine-workload-output" ELSE "rejected"

-----------------------------------------------------------------------------
(* Canonicalization, and the files a capture leaves. *)

Canonicalized == {"repo-docker-java-parser", "repo-kubeops-generator", "repo-moshi", "repo-helm-values",
                  "repo-rustlings", "repo-dockerfile-parser-rs", "repo-requests"}
CanonicalFor(case, text) ==
    CASE case = "repo-docker-java-parser" -> CanonicalizeMaven(text)
      [] case = "repo-kubeops-generator" -> CanonicalizeVstest(text)
      [] case = "repo-moshi" -> CanonicalizeGradleV2(text)
      [] case = "repo-helm-values" -> CanonicalizeGradleHelmValues(text)
      [] case \in {"repo-rustlings", "repo-dockerfile-parser-rs"} -> CanonicalizeCargo(text)
      [] case = "repo-requests" -> CanonicalizePytestDuration(text)
Report(case, text) == IF case \in Canonicalized THEN CanonicalFor(case, text)
                      ELSE [ok |-> TRUE, lines |-> text.lines, replaced |-> {}]
DerivationOf(case) == IF case \in Canonicalized THEN "case-specific-deterministic-canonicalization" ELSE "raw-capped-stream"

Absent == [present |-> FALSE]
File(content) == [present |-> TRUE, content |-> content]
Files == {"out", "err", "content", "canonreport", "canonical", "receipt", "failure"}
EmptyDir == [f \in Files |-> Absent]
Read(dir, file) == IF dir[file].present THEN dir[file].content ELSE <<>>

Receipt(job, policy, report) ==
    [case |-> job.case, job |-> job.name, archive |-> job.archive, toolchain |-> job.toolchain.resolved,
     executable |-> job.toolchain.executable, argv |-> EffectiveArgv(job), sandbox |-> SandboxPolicy(job),
     exit |-> job.exit, raw |-> job.output.lines, stderr |-> job.errors,
     derivation |-> DerivationOf(job.case),
     policy |-> IF job.case \in Canonicalized THEN <<policy>> ELSE <<>>,
     report |-> IF job.case \in Canonicalized THEN <<report>> ELSE <<>>,
     preCap |-> report.lines, canonical |-> Capped(report.lines), classification |-> Classification(job)]

(* run_one_capture: the files it writes, in its order.  Those an earlier   *)
(* capture left and this one does not reach stay as they are.              *)
Write(file, content) == <<[file |-> file, content |-> content]>>
WritesUnchecked(job, policy) ==
    LET report == Report(job.case, job.output)
    IN  IF BeforeTheRun(job) # Proceeds \/ ~report.ok THEN <<>>
        ELSE Write("out", job.output) \o Write("err", job.errors) \o Write("content", Classification(job))
             \o (IF job.case \in Canonicalized THEN Write("canonreport", report) ELSE <<>>)
             \o Write("canonical", Capped(report.lines)) \o Write("receipt", Receipt(job, policy, report))
Writes(job, policy) ==
    LET before == BeforeTheRun(job)
        ran == Write("out", job.output) \o Write("err", job.errors) \o Write("content", Classification(job))
        report == Report(job.case, job.output)
    IN  CASE before # Proceeds ->
               IF before.gate \in {"scheduling-conflict", "lockfile"} THEN <<>> ELSE Write("failure", before.gate)
          [] before = Proceeds /\ ~ContentAccepted(job) -> ran \o Write("failure", "content")
          [] before = Proceeds /\ ContentAccepted(job) /\ ~report.ok -> ran \o Write("failure", "canonicalization")
          [] before = Proceeds /\ ContentAccepted(job) /\ report.ok ->
               ran \o (IF job.case \in Canonicalized THEN Write("canonreport", report) ELSE <<>>)
                   \o Write("canonical", Capped(report.lines)) \o Write("receipt", Receipt(job, policy, report))
Completes(job) == BeforeTheRun(job) = Proceeds /\ ContentAccepted(job) /\ Report(job.case, job.output).ok

-----------------------------------------------------------------------------
(* The pair verifier. *)

AsText(lines) == [utf8 |-> TRUE, lines |-> lines]
IsIdempotent(case, lines) ==
    case \in Canonicalized => LET again == CanonicalFor(case, AsText(lines)) IN again.ok /\ again.lines = lines

(* What the receipt's case makes of the raw stream beside it; a missing    *)
(* stream reads as an empty one.                                           *)
RawOf(dir) == IF dir.out.present THEN dir.out.content ELSE AsText(<<>>)
Rederived(dir) == Report(dir.receipt.content.case, RawOf(dir))

(* A receipt is re-derived from the raw stream.  The content report, the   *)
(* failure file and the exit code are not looked at.                       *)
CaptureValid(dir, policyNow, intact) ==
    /\ dir.receipt.present
    /\ LET r == dir.receipt.content
           expected == Rederived(dir)
       IN  /\ r.raw = RawOf(dir).lines /\ r.stderr = Read(dir, "err")
           /\ r.derivation = "raw-capped-stream" => r.policy = <<>> /\ r.report = <<>>
           /\ r.derivation # "raw-capped-stream" =>
                 /\ intact /\ r.policy = <<policyNow>> /\ r.case \in policyNow.body.cases /\ expected.ok
                 /\ dir.canonreport.present /\ dir.canonreport.content = expected /\ r.report = <<expected>>
           /\ Read(dir, "canonical") = Capped(expected.lines)
           /\ r.preCap = expected.lines /\ r.canonical = Capped(expected.lines)
           /\ IsIdempotent(r.case, Capped(expected.lines))

IdentityMismatches(a, b) ==
    {f \in {"case", "archive", "toolchain", "executable", "argv", "sandbox", "policy", "derivation", "classification"} :
        a[f] # b[f]}

(* The alignment of difflib: the longest block that a stretch of a and one *)
(* of b have in common, the first of those, and the same in the gaps on    *)
(* both sides of it, to any depth.  A stretch is [alo, ahi, blo, bhi].     *)
Stretches(a, b) == (1..Len(a) + 1) \X (0..Len(a)) \X (1..Len(b) + 1) \X (0..Len(b))
Blocks(a, b, s) ==
    {t \in (s[1]..s[2]) \X (s[3]..s[4]) \X (1..(s[2] - s[1] + 1)) :
        /\ t[1] + t[3] - 1 <= s[2] /\ t[2] + t[3] - 1 <= s[4]
        /\ \A k \in 0..(t[3] - 1) : a[t[1] + k] = b[t[2] + k]}
LongestBlock(a, b, s) ==
    CHOOSE t \in Blocks(a, b, s) : \A u \in Blocks(a, b, s) :
        \/ t[3] > u[3]
        \/ t[3] = u[3] /\ (t[1] < u[1] \/ (t[1] = u[1] /\ t[2] <= u[2]))
Pairs(a, b, s, inGaps) ==
    IF Blocks(a, b, s) = {} THEN {}
    ELSE LET t == LongestBlock(a, b, s)
         IN  {<<t[1] + k, t[2] + k>> : k \in 0..(t[3] - 1)}
             \cup inGaps[<<s[1], t[1] - 1, s[3], t[2] - 1>>]
             \cup inGaps[<<t[1] + t[3], s[2], t[2] + t[3], s[4]>>]
Matched(a, b) ==
    LET toDepth[n \in 0..Len(a)] ==
          [s \in Stretches(a, b) |-> IF n = 0 THEN {} ELSE Pairs(a, b, s, toDepth[n - 1])]
    IN  toDepth[Len(a)][<<1, Len(a), 1, Len(b)>>]

Contents(lines) == [i \in DOMAIN lines |-> Content(lines[i])]

(* Every line that differs must be one that the report derived for its own *)
(* side replaced.  The swap of a completion pair is in no report of this   *)
(* kind.                                                                   *)
Uncovered(a, b, coveredA, coveredB) ==
    LET pairs == Matched(a, b)
    IN  {<<"a", i>> : i \in {i \in DOMAIN a : a[i] \notin coveredA /\ ~\E p \in pairs : p[1] = i}}
        \cup {<<"b", j>> : j \in {j \in DOMAIN b : b[j] \notin coveredB /\ ~\E p \in pairs : p[2] = j}}

VerifyPair(dirA, dirB, policyNow, intact) ==
    /\ CaptureValid(dirA, policyNow, intact) /\ CaptureValid(dirB, policyNow, intact)
    /\ LET a == dirA.receipt.content
           b == dirB.receipt.content
       IN  /\ IdentityMismatches(a, b) = {}
           /\ a.canonical = b.canonical
           /\ Uncovered(Contents(a.raw), Contents(b.raw), Rederived(dirA).replaced, Rederived(dirB).replaced) = {}

-----------------------------------------------------------------------------
(* The raw input of a case that is an extracted file, not a capture. *)

(* An acquisition tree maps paths to contents (sequences); a manifest maps *)
(* the paths it pins to the contents it expects there.                     *)
ManifestProblems(tree, manifest) == {p \in DOMAIN manifest : p \notin DOMAIN tree \/ tree[p] # manifest[p]}
InputFile(recipe, manifest) ==
    IF recipe.input # None THEN {recipe.input} ELSE IF Cardinality(DOMAIN manifest) = 1 THEN DOMAIN manifest ELSE {}
ByteRange(content, offset, max) == SubSeq(content, offset + 1, IF offset + max < Len(content) THEN offset + max ELSE Len(content))
DeriveRawInput(tree, manifest, recipe) ==
    LET input == InputFile(recipe, manifest)
        file == CHOOSE f \in input : TRUE
        bytes == ByteRange(tree[file], recipe.offset, recipe.max)
    IN  CASE ManifestProblems(tree, manifest) # {} \/ input = {} -> [problem |-> TRUE, bytes |-> <<>>]
          [] OTHER -> IF file \notin DOMAIN tree THEN [problem |-> TRUE, bytes |-> <<>>]
                      ELSE [problem |-> "cut" \in Range(bytes), bytes |-> bytes]
=============================================================================
