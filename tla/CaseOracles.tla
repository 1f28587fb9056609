---------------------------- MODULE CaseOracles ----------------------------
(***************************************************************************)
(* What decides that a native-corpus case kept its meaning: the test       *)
(* summaries and their dialects, the agreement oracles of each command     *)
(* family, the canonicalization policies, the proofs that a target really  *)
(* executed, and the frozen bindings of the acceptance adapters.           *)
(*                                                                         *)
(* A stream is what the patterns of the oracles find in it.  A count that  *)
(* was not found is Missing; an absent option is the empty sequence.       *)
(***************************************************************************)
EXTENDS Integers, Sequences, FiniteSets, SequencesExt

Missing == -1
OrZero(n) == IF n = Missing THEN 0 ELSE n
Total(rows, k) == FoldSeq(LAMBDA r, acc : acc + r[k], 0, rows)
Ids(rows, kind) == {r[2] : r \in {x \in ToSet(rows) : x[1] = kind}}

-----------------------------------------------------------------------------
(* n2e_oracles: test summaries.  A native stream has the counts of the     *)
(* first summary line of each tool, the ids of its failure lines and how   *)
(* many Go failure and status lines it has.                                *)

NativeStream(cargo, vitest, vitestFailed, gradle, pytest, failing, goFails, goLines) ==
    [cargo |-> cargo, vitest |-> vitest, vitestFailed |-> vitestFailed, gradle |-> gradle,
     pytest |-> pytest, failing |-> failing, goFails |-> goFails, goLines |-> goLines]
EmptyStream == NativeStream(<<>>, <<>>, <<>>, <<>>, <<0, 0, 0>>, {}, 0, 0)

Counts(p, f) == [passed |-> p, failed |-> f]
NativeCounts(t) ==
    CASE t.cargo # <<>>        -> Counts(t.cargo[1], t.cargo[2])
      [] t.vitest # <<>>       -> Counts(t.vitest[1], t.vitest[2])
      [] t.vitestFailed # <<>> -> Counts(0, t.vitestFailed[1])
      [] t.gradle # <<>>       -> Counts(t.gradle[1] - t.gradle[2], t.gradle[2])
      [] t.pytest # <<0, 0, 0>> -> Counts(t.pytest[1], t.pytest[2] + t.pytest[3])
      [] t.goFails + t.goLines > 0 -> Counts(0, t.goFails)
      [] OTHER                 -> Counts(Missing, Missing)
NativeSummary(t) == [counts |-> NativeCounts(t), failing |-> t.failing]

(* rtk-go-test-summary-v1: exactly one aggregate line of a known form.     *)
RtkGoSummary(fails, passes, none, failing) ==
    LET n == Len(fails) + Len(passes) + none
    IN  [failing |-> failing,
         counts |-> IF n # 1 THEN Counts(Missing, Missing)
                    ELSE IF fails # <<>> THEN Counts(fails[1][1], fails[1][2])
                    ELSE IF passes # <<>> THEN Counts(passes[1], 0) ELSE Counts(0, 0)]

(* cargo_target_execution_proof: the targets are executed and passed.      *)
CargoTargetProof(s, exit, targets) ==
    /\ exit = 0 /\ Total(s.results, "failed") = 0
    /\ targets # {} /\ targets \subseteq s.executedOk
    /\ Total(s.results, "passed") > 0 /\ s.running > 0
    /\ s.results # <<>> /\ ~s.compileFailure

(* raw_outcome for a test scenario: a failing snapshot must show its       *)
(* targets failing, a passing one need only not show a failure.            *)
RawTestOutcome(variant, targets, summary, exit) ==
    IF variant \in {"buggy", "fail"}
    THEN /\ summary.counts # Counts(Missing, Missing)
         /\ OrZero(summary.counts.failed) > 0 /\ exit # 0
         /\ targets # {} /\ targets \subseteq summary.failing
    ELSE exit = 0 /\ summary.counts.failed \in {0, Missing}
RawOutcome(family, sub, exit, bytes) ==
    CASE sub \in {"build", "check", "clippy", "vet", "tsc", "lint", "ruff"} -> exit = 0 \/ bytes > 0
      [] family = "git"                                  -> exit = 0
      [] family = "files_search" /\ sub = "read"         -> exit = 0 /\ bytes > 0
      [] family = "files_search" /\ sub \in {"ls", "tree"} -> exit = 0
      [] family = "files_search" /\ sub = "grep"         -> exit \in {0, 1}
      [] family = "logs"                                 -> exit = 0 /\ bytes > 0
      [] family = "containers"                           -> exit = 0
      [] OTHER                                           -> FALSE

(* Which grammar may read RTK's stream: a case binding, a proven family,   *)
(* or none at all, which disagrees.                                        *)
CaseDialects == {<<"uutils__coreutils-6731::rust_cargo::test::fixed", "rust_cargo", "rtk-rust-cargo-test-summary-v1">>}
RtkDialect(family, caseId) ==
    LET bound == {b \in CaseDialects : b[1] = caseId /\ b[2] = family}
    IN  IF bound # {} THEN <<(CHOOSE b \in bound : TRUE)[3]>>
        ELSE IF family = "go" THEN <<"rtk-go-test-summary-v1">> ELSE <<>>

TestAgreement(dialect, raw, rtk) ==
    /\ dialect # <<>>
    /\ raw.counts.failed # Missing /\ raw.counts.failed = rtk.counts.failed
    /\ raw.failing \subseteq rtk.failing

DiagnosticsAgree(raw, rtk) == raw \subseteq rtk
GrepAgrees(raw, rtk) == raw \subseteq rtk
ListingAgrees(raw, rtk) == raw \subseteq rtk \/ Cardinality(rtk) >= Cardinality(raw) - 1
ReadAgrees(raw, rtk, quotesDigest) == rtk = raw \/ quotesDigest
(* A severity RTK does not report is not compared.                         *)
LogAgrees(counts, reported) == \A s \in DOMAIN counts : reported[s] = Missing \/ reported[s] = counts[s]
ContainersAgree(rawHas, rtkHas) == rawHas /\ rtkHas
GitAgrees(sub, raw, rtk) ==
    CASE sub = "status" -> (raw.paths = {} \/ rtk.paths # {}) \/ rtk.bytes > 0
      [] sub \in {"diff", "show"} -> IF raw.files = {} THEN rtk.bytes > 0 ELSE raw.files \subseteq rtk.mentions
      [] sub = "log" -> rtk.bytes > 0 /\ (raw.oids = {} \/ raw.oids \cap rtk.mentions # {})
      [] OTHER -> TRUE

-----------------------------------------------------------------------------
(* Rust and Go dialects: parse both streams, compare the projections.      *)

Projection(outcome, p, f, ig, me, fi, suites, failing, terminal, cut) ==
    [outcome |-> outcome, passed |-> p, failed |-> f, ignored |-> ig, measured |-> me, filtered |-> fi,
     suites |-> suites, failing |-> failing, terminal |-> terminal, cut |-> cut]
NoProjection(outcome, failing, cut) ==
    Projection(outcome, Missing, Missing, Missing, Missing, Missing, Missing, failing, FALSE, cut)
Summed(outcome, rows, failing, cut) ==
    Projection(outcome, Total(rows, "passed"), Total(rows, "failed"), Total(rows, "ignored"),
               Total(rows, "measured"), Total(rows, "filtered"), Len(rows), failing, TRUE, cut)

ParseRustRtk(t) ==
    IF t.build \/ (t.rustcError /\ t.compact = <<>> /\ t.results = <<>>)
    THEN NoProjection("compile_failure", t.blockIds, t.cut)
    ELSE IF t.failuresHeader \/ \E i \in DOMAIN t.results : ~t.results[i].ok
    THEN IF t.results = <<>> THEN NoProjection("failure", t.blockIds, t.cut)
         ELSE Summed("failure", t.results, t.blockIds, t.cut)
    ELSE IF Len(t.compact) = 1
    THEN Projection("success", t.compact[1].passed, 0, t.compact[1].ignored, Missing, t.compact[1].filtered,
                    t.compact[1].suites, {}, TRUE, t.cut)
    ELSE NoProjection("incomplete", {}, t.cut)
ParseRustRaw(t) ==
    IF t.results = <<>> THEN NoProjection(IF t.rustcError THEN "compile_failure" ELSE "incomplete", {}, t.cut)
    ELSE Summed(IF (\A i \in DOMAIN t.results : t.results[i].ok) /\ Total(t.results, "failed") = 0
                THEN "success" ELSE "failure", t.results, t.failIds, t.cut)
RustEquivalent(raw, rtk) ==
    /\ \A k \in DOMAIN raw \ {"measured"} : raw[k] = rtk[k]
    /\ raw.measured = rtk.measured \/ (rtk.measured = Missing /\ raw.measured = 0)

(* A Go text is a sequence of <<kind, id>> lines.                          *)
GoProjection(outcome, p, f, packages, failing, terminal) ==
    [outcome |-> outcome, passed |-> p, failed |-> f, packages |-> packages, failing |-> failing, terminal |-> terminal]
GoOutcome(p, f) == IF f > 0 THEN "failure" ELSE IF p > 0 THEN "success" ELSE "no_tests"
ParseGoCompact(c) ==
    IF c.none THEN GoProjection("no_tests", Missing, Missing, Missing, {}, TRUE)
    ELSE GoProjection(GoOutcome(c.passed, c.failed), c.passed, c.failed, c.packages, c.failing, TRUE)
ParseGoHuman(lines) ==
    LET n(kind) == Len(SelectSeq(lines, LAMBDA l : l[1] = kind))
        packages == n("FAIL-package")
        tests    == n("fail")
        failed   == IF tests = 0 THEN packages ELSE tests
        bare     == n("FAIL") > 0
    IN  GoProjection(IF failed > 0 \/ bare \/ packages > 0 THEN "failure" ELSE "success", n("pass"), failed,
                     Cardinality(Ids(lines, "ok-package") \cup Ids(lines, "FAIL-package")),
                     Ids(lines, "fail") \cup (IF tests = 0 THEN Ids(lines, "FAIL-package") ELSE {}), TRUE)
(* The last action of a test counts; a package fails on its own only when  *)
(* none of its tests did.                                                  *)
ParseGoJson(events) ==
    LET tests == {<<e[2], e[3]>> : e \in {x \in ToSet(events) : x[3] # "" /\ x[1] \in {"pass", "fail"}}}
        last(t) == events[CHOOSE i \in DOMAIN events :
                            /\ events[i][1] \in {"pass", "fail"} /\ <<events[i][2], events[i][3]>> = t
                            /\ \A j \in (i + 1)..Len(events) :
                                 events[j][1] \notin {"pass", "fail"} \/ <<events[j][2], events[j][3]>> # t][1]
        blamed == {e[2] : e \in {x \in ToSet(events) : x[1] = "fail" /\ x[3] # ""}}
        alone  == SelectSeq(events, LAMBDA e : e[1] = "fail" /\ e[3] = "" /\ e[2] \notin blamed)
        failed == {t \in tests : last(t) = "fail"}
        f      == Cardinality(failed) + Len(alone)
        p      == Cardinality(tests) - Cardinality(failed)
    IN  GoProjection(GoOutcome(p, f), p, f, Cardinality({e[2] : e \in ToSet(events)}),
                     failed \cup {<<e[2], "<package>">> : e \in ToSet(alone)},
                     tests # {} \/ \E e \in ToSet(events) : e[1] = "fail" /\ e[3] = "")
ParseGo(t) ==
    IF t.compact # <<>> THEN ParseGoCompact(t.compact[1])
    ELSE IF t.lines # <<>> THEN ParseGoHuman(t.lines)
    ELSE IF t.json # <<>> THEN ParseGoJson(t.json)
    ELSE GoProjection("indeterminate", Missing, Missing, Missing, {}, FALSE)
GoEquivalent(raw, rtk) == \A k \in {"outcome", "passed", "failed", "terminal"} : raw[k] = rtk[k]

-----------------------------------------------------------------------------
(* git show.  A patch is a sequence of <<kind, path>> lines; an object id  *)
(* a sequence of digits, abbreviated to a prefix of at least four.         *)

NotDerivable == [derivable |-> FALSE]
Stat(oid, mode, n, ins, del, paths) ==
    [derivable |-> TRUE, oid |-> oid, mode |-> mode, stats |-> <<n, ins, del>>, paths |-> paths]

DiffStep(line, s) ==
    CASE line[1] = "diff"    -> [s EXCEPT !.files = Append(@, line[2]), !.hunk = FALSE]
      [] s.files = <<>>      -> s
      [] line[1] = "rename"  -> [s EXCEPT !.files[Len(s.files)] = line[2]]
      [] line[1] = "@@"      -> [s EXCEPT !.hunk = TRUE]
      [] s.hunk /\ line[1] = "+" -> [s EXCEPT !.ins = @ + 1]
      [] s.hunk /\ line[1] = "-" -> [s EXCEPT !.del = @ + 1]
      [] OTHER               -> s
ParseShow(oid, lines) ==
    LET s == FoldLeft(LAMBDA acc, l : DiffStep(l, acc), [files |-> <<>>, hunk |-> FALSE, ins |-> 0, del |-> 0],
                      lines)
    IN  IF oid = <<>> \/ s.files = <<>> THEN NotDerivable
        ELSE Stat(oid, "raw_fallback", Len(s.files), s.ins, s.del, ToSet(s.files))
ParseShowRtk(t) ==
    IF t.full THEN ParseShow(t.oid, t.lines)
    ELSE IF Len(t.oid) < 4 \/ t.totals = <<>> THEN NotDerivable
    ELSE Stat(t.oid, "compact", t.totals[1], t.totals[2], t.totals[3], t.paths)
ParseNumstat(rows) ==
    IF rows = <<>> THEN NotDerivable
    ELSE Stat(<<>>, "numstat", Len(rows), Total(rows, "ins"), Total(rows, "del"), {r.path : r \in ToSet(rows)})

AbbreviationHolds(abbrev, oid) == Len(abbrev) >= 4 /\ IsPrefix(abbrev, oid)
ShowEquivalent(raw, rtk, oid) ==
    /\ raw.derivable /\ rtk.derivable
    /\ raw.stats = rtk.stats /\ raw.paths = rtk.paths
    /\ raw.oid = oid /\ AbbreviationHolds(rtk.oid, oid)
PlumbingConsistent(raw, head, numstat, names, short, oid) ==
    /\ head = oid /\ raw.oid = oid
    /\ numstat.derivable /\ numstat.stats = raw.stats /\ short = raw.stats
    /\ numstat.paths = raw.paths /\ names = raw.paths

(* A merge: RAW gives identity and topology, plumbing the first-parent     *)
(* totals, RTK its compact totals.                                         *)
ParentsConsistent(abbrevs, parents) ==
    Len(abbrevs) = Len(parents) /\ \A i \in DOMAIN parents : AbbreviationHolds(abbrevs[i], parents[i])
FirstParentStat(numstat, short) ==
    IF numstat.derivable /\ short = numstat.stats THEN numstat ELSE NotDerivable
MergeEquivalent(raw, firstParent, rtk, revList, oid, resolved) ==
    /\ firstParent.derivable /\ rtk.derivable /\ Len(revList) >= 2
    /\ raw.oid = oid /\ revList[1] = oid
    /\ Len(raw.abbrevs) >= 2 /\ Len(Tail(revList)) >= 2
    /\ ParentsConsistent(raw.abbrevs, Tail(revList))
    /\ firstParent.stats = rtk.stats /\ firstParent.paths = rtk.paths
    /\ AbbreviationHolds(rtk.oid, oid) /\ resolved = oid
    /\ rtk.mode = "compact"

-----------------------------------------------------------------------------
(* docker images.  A row is <<repository:tag, unit, tenths of the unit>>.  *)

TenthsOf(rows) == FoldSeq(LAMBDA r, acc : acc + (IF r[2] = "GB" THEN r[3] * 1024 ELSE IF r[2] = "MB" THEN r[3] ELSE 0),
                          0, rows)
TotalSizeDisplay(rows) == IF TenthsOf(rows) > 10240 THEN <<"GB", (TenthsOf(rows) + 512) \div 1024>>
                          ELSE <<"MB", (TenthsOf(rows) + 5) \div 10>>
Copies(rows, r) == Cardinality({i \in DOMAIN rows : rows[i] = r})
ImagesEquivalent(raw, rtk, allowPassthrough) ==
    /\ raw # <<>>
    /\ IF rtk.mode = "passthrough" THEN allowPassthrough
       ELSE /\ rtk.truncated = 0 /\ rtk.header = Len(rtk.rows) /\ Len(raw) = Len(rtk.rows)
            /\ \A r \in ToSet(raw) \cup ToSet(rtk.rows) : Copies(raw, r) = Copies(rtk.rows, r)
            /\ rtk.total = TotalSizeDisplay(rtk.rows)

-----------------------------------------------------------------------------
(* Canonicalization policies: the kinds of volatile token each erases.  A  *)
(* line is [kind, token]; "status" lines are cargo's own, and a caddy log  *)
(* line also carries the multiset of its origins.                          *)

Erases(policy) ==
    CASE policy = "cargo-test-v1" -> {"finished in", "artifact"}
      [] policy \in {"cargo-test-v2", "cargo-test-v3"} ->
            {"finished in"} \cup (IF policy = "cargo-test-v3" THEN {"rtk suites"} ELSE {})
      [] policy = "cargo-build-v1" -> {"in"}
      [] policy \in {"go-test-v1", "caddy-go-test-v1"} -> {"go duration"}
      [] policy = "pytest-v1" -> {"in", "leading duration"}
      [] policy = "vitest-v1" -> {"Duration", "in", "test duration", "Start at", "phase"}
      [] policy = "gradle-test-v1" -> {"BUILD in", "jul timestamp", "memory"}
      [] policy = "maven-test-v1" -> {"Total time", "Time elapsed"}
      [] OTHER -> {}
Erased(line, policy) == IF line.kind \in Erases(policy) THEN [line EXCEPT !.token = "<>"] ELSE line
(* An access log line of the proven schema loses its timestamp and the     *)
(* order of its origins, not their number; any other line keeps its bytes. *)
CaddyLine(line) ==
    IF line.kind = "zap" THEN [line EXCEPT !.token = "<>", !.origins = SortSeq(@, LAMBDA a, b : a < b)] ELSE line
Canonicalize(lines, policy) ==
    LET kept == IF policy \in {"cargo-test-v2", "cargo-test-v3"}
                THEN SelectSeq(lines, LAMBDA l : l.kind # "status") ELSE lines
    IN  [i \in 1..Len(kept) |->
            LET l == Erased(kept[i], policy) IN IF policy = "caddy-go-test-v1" THEN CaddyLine(l) ELSE l]
CasePolicies == [c \in {"caddyserver__caddy-5870::go::test::buggy"} |-> "caddy-go-test-v1"]
FamilyPolicies ==
    {<<"rust_cargo", "test", "cargo-test-v1">>, <<"rust_cargo", "build", "cargo-build-v1">>,
     <<"rust_cargo", "check", "cargo-build-v1">>, <<"rust_cargo", "clippy", "cargo-build-v1">>,
     <<"go", "test", "go-test-v1">>, <<"go", "build", "go-test-v1">>, <<"go", "vet", "go-vet-v1">>,
     <<"python", "pytest", "pytest-v1">>, <<"js_ts", "test", "vitest-v1">>, <<"logs", "log", "log-v1">>,
     <<"files_search", "grep", "files-v1">>, <<"files_search", "read", "files-v1">>,
     <<"files_search", "ls", "files-v1">>, <<"files_search", "tree", "files-v1">>,
     <<"containers", "ps", "docker-v1">>, <<"containers", "images", "docker-v1">>, <<"containers", "logs", "docker-v1">>}
PolicyFor(family, sub, build, caseId) ==
    LET rows == {r \in FamilyPolicies : r[1] = family /\ r[2] = sub}
    IN  CASE caseId \in DOMAIN CasePolicies -> CasePolicies[caseId]
          [] family = "git" -> "git-v1"
          [] family = "jvm" /\ sub = "test" -> IF build = "maven" THEN "maven-test-v1" ELSE "gradle-test-v1"
          [] OTHER -> IF rows = {} THEN "identity-v1" ELSE (CHOOSE r \in rows : TRUE)[3]

-----------------------------------------------------------------------------
(* Execution and loss proofs of the case runner.                           *)

(* _parse_sidecar_proof: a required identity is lost in a repetition when  *)
(* RTK's own log shows it failing and the measured stream does not.        *)
SidecarProof(measuredFails, sidecar) ==
    [pointer |-> sidecar.pointer, sidecarFails |-> IF sidecar.read THEN sidecar.fails ELSE {},
     measuredFails |-> measuredFails]
SemanticLossConfirmed(reps, required) ==
    /\ required # {} /\ reps # <<>>
    /\ \A i \in DOMAIN reps : required \subseteq reps[i].sidecarFails /\ required \cap reps[i].measuredFails = {}
(* _locate_sidecar: the named places first, then any file of that name.    *)
LocateSidecar(pointer, atPath, byName) ==
    [pointer |-> pointer, read |-> pointer /\ (atPath # <<>> \/ byName # <<>>),
     fails |-> IF ~pointer THEN {} ELSE IF atPath # <<>> THEN atPath[1] ELSE IF byName # <<>> THEN byName[1] ELSE {}]

GradleProof(t) == t.started /\ t.discovered /\ ~t.infraFailure /\ t.testResult
ShortCircuits == {"daemon", "notifications", "kotlin", "kotlin-profile", ".tmp", "workers", "caches/journal-1",
                  "caches/build-cache-1", "lock"}
SanitizedSeed(seed) == seed \ ShortCircuits

(* _git_acquisition_evidence: whether git show is the intended diff.       *)
GitEvidence(parents, present) ==
    [merge |-> Len(parents) >= 2, allPresent |-> parents # <<>> /\ ToSet(parents) \subseteq present,
     intended |-> Len(parents) < 2 \/ ToSet(parents) \subseteq present]
(* _diff_modified_files, from a patch's headers.                           *)
DiffModifiedFiles(headers) == {h[2] : h \in {x \in ToSet(headers) : x[1] \in {"diff --git", "+++ b/"}}} \ {"/dev/null"}
(* _publisher_lang_env and _toolchain_identity.                            *)
OfflineSelectors(family) ==
    CASE family = "rust_cargo" -> {"RUSTUP_TOOLCHAIN", "CARGO_HOME", "CARGO_NET_OFFLINE", "RUST_TEST_THREADS", "CARGO_BUILD_JOBS"}
      [] family = "go" -> {"GOFLAGS", "GOPROXY", "GOPATH"}
      [] family = "js_ts" -> {"CI"}
      [] family = "jvm" -> {"JAVA_HOME", "GRADLE_USER_HOME"}
      [] OTHER -> {}
ToolchainTools(family) ==
    CASE family = "rust_cargo" -> {"rustc", "cargo"} [] family = "go" -> {"go"}
      [] family = "js_ts" -> {"node", "corepack", "pnpm"} [] family = "python" -> {"python3", "pip"}
      [] family = "jvm" -> {"java", "gradlew_or_mvn"} [] OTHER -> {}
LoghubOutcome(a) ==
    IF ~a.archive THEN "exit" ELSE IF ~a.member THEN "error" ELSE IF a.lines # a.published THEN "exit" ELSE "acquired"
GitScenarioState(sub) ==
    [dirty |-> sub \in {"status", "diff", "add", "commit"}, staged |-> sub \in {"add", "commit"},
     remote |-> sub = "push"]

-----------------------------------------------------------------------------
(* The acceptance adapters: what each binds, checked against the frozen    *)
(* contract and scenario before anything runs.                             *)

Adapter(id, kind, family, sub, raw, rtk, policy, proof, env, protected, targets, extra) ==
    [id |-> id, kind |-> kind, family |-> family, sub |-> sub, raw |-> raw, rtk |-> rtk, policy |-> policy,
     proof |-> proof, env |-> env, protected |-> protected, targets |-> targets, extra |-> extra]
Wrapped(argv) == <<"rtk">> \o argv
GoEnv == {<<"GOFLAGS", "-mod=readonly">>, <<"GOPROXY", "off">>}
GoFiles == <<"go.mod", "go.sum">>

CaddyGoTest ==
    LET argv == <<"go", "test", "-v", ".", "-run", "TestUnsyncedConfigAccess">>
    IN  Adapter("caddy-go-test", "rtk_test_dialect", "go", "test", argv, Wrapped(argv), "caddy-go-test-v1",
                "rtk-go-test-summary-v1", GoEnv, GoFiles, <<"TestUnsyncedConfigAccess">>, {"contract-dialect"})
GinGoVet ==
    Adapter("gin-go-vet", "rtk_command_oracle", "go", "vet", <<"go", "vet", "./...">>, Wrapped(<<"go", "vet", "./...">>),
            "go-vet-v1", "rtk-go-vet-oracle-v1", GoEnv, GoFiles, <<>>, {})
FilesRead ==
    Adapter("files-read", "rtk_command_oracle", "files_search", "read", <<"cat", "README.md">>,
            <<"rtk", "read", "README.md">>, "files-v1", "rtk-files-read-oracle-v1", {}, <<>>, <<>>, {})
VueVitest ==
    LET argv == <<"pnpm", "run", "test", "apiWatch.spec.ts", "--no-watch", "--reporter=verbose">>
    IN  Adapter("vue-vitest", "rtk_test_dialect", "js_ts", "test", argv, Wrapped(argv), "vitest-v1",
                "rtk-js-vitest-summary-v1", {}, <<"package.json", "pnpm-lock.yaml", "package-lock.json", "yarn.lock">>,
                <<"api: watch > should be executed correctly">>, {})
ScrapyPytest ==
    Adapter("scrapy-pytest", "rtk_test_dialect", "python", "pytest", <<"pytest", "tests/test_mail.py">>,
            Wrapped(<<"pytest", "tests/test_mail.py">>), "pytest-v1", "rtk-python-pytest-summary-v1",
            {<<"PYTHONDONTWRITEBYTECODE", "1">>, <<"PYTHONHASHSEED", "0">>},
            <<"requirements.txt", "setup.py", "setup.cfg", "pyproject.toml", "poetry.lock">>,
            <<"MailSenderTest.test_send_single_values_to_and_cc">>, {})
LuceneTail == <<"-Ptests.seed", "-Ptests.jvms=1", "--max-workers=1", "-Dorg.gradle.parallel=false", "--console=plain">>
LuceneGradle ==
    LET argv == <<"./gradlew", "test", "--tests", "TestLatLonDocValuesQueries">> \o LuceneTail
    IN  Adapter("lucene-gradle-test", "rtk_test_dialect", "jvm", "test", argv, Wrapped(argv),
                "RUNTIME:gradle-test-v1|maven-test-v1", "rtk-jvm-test-summary-v1", {},
                <<"build.gradle", "build.gradle.kts", "settings.gradle", "gradle.lockfile", "pom.xml">>,
                <<"testNarrowPolygonCloseToNorthPole">>, {"execution-control"})
LoghubHdfs ==
    Adapter("loghub-hdfs-log", "rtk_command_oracle", "logs", "log", <<"cat", "HDFS.log">>, <<"rtk", "log", "HDFS.log">>,
            "log-v1", "rtk-log-hdfs-oracle-v1", {}, <<>>, <<>>, {})
RubocopGitShow ==
    Adapter("rubocop-git-show", "rtk_command_oracle", "git", "show", <<"git", "show">>, Wrapped(<<"git", "show">>),
            "git-v1", "rtk-git-show-merge-first-parent-oracle-v1", {}, <<>>, <<>>, {"base-commit"})
PhpCsFixerCommit ==
    Adapter("php-cs-fixer-git-commit", "rtk_command_oracle", "git", "commit", <<"git", "commit", "-m", "n2e">>,
            Wrapped(<<"git", "commit", "-m", "n2e">>), "git-v1", "rtk-git-commit-oracle-v1", {}, <<>>, <<>>, {"base-commit"})
RedisImages ==
    Adapter("redis-docker-images", "rtk_command_oracle", "containers", "images", <<"docker", "images">>,
            Wrapped(<<"docker", "images">>), "docker-v1", "rtk-docker-images-oracle-v1", {}, <<>>, <<>>, {"image-digests"})
Adapters == {CaddyGoTest, GinGoVet, FilesRead, VueVitest, ScrapyPytest, LuceneGradle, LoghubHdfs, RubocopGitShow,
             PhpCsFixerCommit, RedisImages}

(* bind: every frozen field, and what the kind of case adds; the docker    *)
(* adapter alone leaves the protected files to nobody.                     *)
Bind(a, contract, scenario) ==
    /\ contract.raw = a.raw /\ contract.rtk = a.rtk /\ contract.policy = a.policy /\ contract.env = a.env
    /\ "image-digests" \in a.extra \/ contract.protected = a.protected
    /\ contract.family = a.family /\ contract.sub = a.sub
    /\ a.kind = "rtk_test_dialect" => scenario.targets = a.targets
    /\ "contract-dialect" \in a.extra => contract.dialect = <<a.proof>>
    /\ "execution-control" \in a.extra => contract.tail = LuceneTail /\ contract.dialect \in {<<>>, <<a.proof>>}
    /\ "base-commit" \in a.extra => scenario.baseCommit
    /\ "image-digests" \in a.extra => scenario.digests /\ scenario.repository = "library/redis"

-----------------------------------------------------------------------------
(* The other dialects and oracles.  Each reads RAW's stream and RTK's, and *)
(* compares some keys of the two projections.                              *)

Agree(keys, raw, rtk) == \A k \in keys : raw[k] = rtk[k]
SameIds(s, t) == \A x \in ToSet(s) \cup ToSet(t) : Copies(s, x) = Copies(t, x)

(* rtk-jvm-test-summary-v1: the build status decides before the counts.    *)
ParseJvm(t) ==
    LET failed == IF t.failedCount # <<>> THEN t.failedCount[1] ELSE Cardinality(t.ids)
    IN  [outcome   |-> CASE t.synthetic -> "success"
                         [] ~t.synthetic /\ (t.status = <<"FAILED">> \/ failed > 0 \/ t.note \/ t.ids # {}) -> "failure"
                         [] ~t.synthetic /\ t.status # <<"FAILED">> /\ failed = 0 /\ ~t.note /\ t.ids = {} ->
                              IF t.status # <<>> \/ t.completed # <<>> THEN "success" ELSE "indeterminate",
         completed |-> t.completed, failed |-> failed, failing |-> t.ids,
         terminal  |-> t.status # <<>> \/ t.completed # <<>> \/ t.note \/ t.synthetic, cut |-> t.cut]
JvmEquivalent(raw, rtk) == Agree({"outcome", "completed", "failed", "failing", "terminal"}, raw, rtk)

(* rtk-js-vitest-summary-v1: a JSON report, a summary line, or neither.    *)
VitestProjection(tier, passed, failed, total, failing, cut) ==
    [outcome |-> IF tier = 3 THEN "passthrough" ELSE IF failed > 0 THEN "failure" ELSE "success", tier |-> tier,
     passed |-> passed, failed |-> failed, total |-> total, failing |-> failing, terminal |-> tier # 3, cut |-> cut]
ParseVitest(t) ==
    IF t.json # <<>> THEN VitestProjection(1, t.json[1].passed, t.json[1].failed, t.json[1].total, t.json[1].failing, t.cut)
    ELSE IF t.summary # <<>> /\ t.summary[1] + t.summary[2] > 0
    THEN VitestProjection(2, t.summary[2], t.summary[1], t.summary[1] + t.summary[2], t.marked, t.cut)
    ELSE VitestProjection(3, Missing, Missing, Missing, <<>>, t.cut)
VitestEquivalent(raw, rtk) ==
    /\ Agree({"outcome", "total", "passed", "failed", "terminal"}, raw, rtk)
    /\ raw.tier = rtk.tier => SameIds(raw.failing, rtk.failing)

(* rtk-python-pytest-summary-v1: the first summary line, word by word.     *)
PytestWords == {"passed", "failed", "skipped", "xfailed", "xpassed", "errors"}
ParsePytest(t) ==
    LET none   == t.summary # <<>> /\ (t.summary[1] = "no tests ran" \/ t.collectedNone)
        counts == IF t.summary = <<>> \/ none THEN [w \in PytestWords |-> 0] ELSE t.counts
        ran    == counts["passed"] + counts["skipped"] + counts["xfailed"] > 0
    IN  [outcome  |-> IF t.summary = <<>> THEN "indeterminate"
                      ELSE IF counts["failed"] + counts["errors"] > 0 THEN "failure"
                      ELSE IF ran THEN "success" ELSE "no_tests",
         counts |-> counts, failing |-> t.failing, terminal |-> t.summary # <<>>, cut |-> t.cut]
PytestEquivalent(raw, rtk) == Agree({"outcome", "counts", "terminal"}, raw, rtk) /\ SameIds(raw.failing, rtk.failing)

(* rtk-go-vet-oracle-v1.  An issue is <<head, rest>>: RTK shows the head.  *)
VetProjection(outcome, n, issues, capped, cut) ==
    [outcome |-> outcome, count |-> n, issues |-> issues, capped |-> capped, cut |-> cut]
ParseVetRaw(t) ==
    VetProjection(IF t.issues = <<>> THEN "clean" ELSE "issues", Len(t.issues), t.issues, FALSE, t.cut)
ParseVetRtk(t) ==
    IF t.blank \/ t.noIssues THEN VetProjection("clean", 0, <<>>, FALSE, t.cut)
    ELSE IF t.header = <<>> THEN VetProjection("indeterminate", 0, <<>>, FALSE, t.cut)
    ELSE VetProjection("issues", t.header[1], t.issues, t.more \/ Len(t.issues) < t.header[1], t.cut)
VetEquivalent(raw, rtk) ==
    /\ Agree({"outcome", "count"}, raw, rtk)
    /\ \A i \in DOMAIN raw.issues \cap DOMAIN rtk.issues : <<raw.issues[i][1], "">> = rtk.issues[i]
    /\ ~rtk.capped /\ rtk.outcome = "issues" => Len(rtk.issues) = Len(raw.issues)

(* rtk-files-read-oracle-v1: blank lines and the last newline are nothing. *)
ParseRead(t) ==
    LET kept == SelectSeq(t.lines, LAMBDA l : l # "")
    IN  [outcome |-> IF kept = <<>> THEN "empty" ELSE "text", kept |-> kept, lines |-> t.lines]
ReadEquivalent(raw, rtk) == Agree({"outcome", "kept"}, raw, rtk)

(* rtk-log-hdfs-oracle-v1: severity totals, RAW's from the capsule.        *)
LogEquivalent(capsule, rtk) ==
    /\ capsule # <<>> /\ rtk.summary /\ \A k \in {"error", "warn", "info"} : rtk.totals[k] # Missing
    /\ Agree({"error", "warn", "info"}, capsule[1], rtk.totals)

(* rtk-git-commit-oracle-v1: both arms made the same commit on the base.   *)
CommitState(head, parent, base) ==
    [derivable |-> head # <<>>, created |-> head # <<>> /\ head # base /\ parent = base, oid |-> head, parent |-> parent]
CommitEquivalent(raw, rtk, shown, base) ==
    /\ raw.derivable /\ raw.created /\ rtk.derivable /\ rtk.created
    /\ raw.parent = base /\ rtk.parent = base /\ raw.oid = rtk.oid
    /\ Len(shown) >= 7 /\ IsPrefix(shown, raw.oid)

(* The dispatch from a policy id to its parser and its equivalence.        *)
ParseAs(pid, role, t) ==
    CASE pid = "rtk-rust-cargo-test-summary-v1" -> IF role = "raw" THEN ParseRustRaw(t) ELSE ParseRustRtk(t)
      [] pid = "rtk-go-test-summary-v1" -> ParseGo(t)
      [] pid = "rtk-jvm-test-summary-v1" -> ParseJvm(t)
      [] pid = "rtk-js-vitest-summary-v1" -> ParseVitest(t)
      [] pid = "rtk-python-pytest-summary-v1" -> ParsePytest(t)
      [] pid = "rtk-go-vet-oracle-v1" -> IF role = "raw" THEN ParseVetRaw(t) ELSE ParseVetRtk(t)
      [] pid = "rtk-files-read-oracle-v1" -> ParseRead(t)
EquivalentAs(pid, raw, rtk) ==
    CASE pid = "rtk-rust-cargo-test-summary-v1" -> RustEquivalent(raw, rtk)
      [] pid = "rtk-go-test-summary-v1" -> GoEquivalent(raw, rtk)
      [] pid = "rtk-jvm-test-summary-v1" -> JvmEquivalent(raw, rtk)
      [] pid = "rtk-js-vitest-summary-v1" -> VitestEquivalent(raw, rtk)
      [] pid = "rtk-python-pytest-summary-v1" -> PytestEquivalent(raw, rtk)
      [] pid = "rtk-go-vet-oracle-v1" -> VetEquivalent(raw, rtk)
      [] pid = "rtk-files-read-oracle-v1" -> ReadEquivalent(raw, rtk)
=============================================================================
