------------------------------ MODULE MCCanary ------------------------------
(***************************************************************************)
(* Instances of CanaryCase, and what the oracles, dialects, policies and   *)
(* adapters of the native corpus compute, checked over bounded inputs; the *)
(* resolved twelve, checked on one honest world and on its edits.          *)
(***************************************************************************)
EXTENDS CanaryCase, ResolvedTwelve, TLC

MCRoutes == {"publisher", "generic", "bugsinpy", "plain", "docker"}
MCGoldSets == {{"src"}, {"src", "tests"}, {"manifest", "src"}}

O == INSTANCE CaseOracles

-----------------------------------------------------------------------------
(* Test summaries and agreement. *)

Streams ==
    {[O!EmptyStream EXCEPT !.cargo = c, !.gradle = g, !.pytest = p, !.failing = f, !.goFails = n] :
       c \in {<<>>, <<2, 0>>, <<1, 1>>}, g \in {<<>>, <<3, 1>>}, p \in {<<0, 0, 0>>, <<1, 1, 1>>},
       f \in {{}, {"t"}, {"t", "u"}}, n \in {0, 1}}
Summaries == {O!NativeSummary(t) : t \in Streams}

(* A failing snapshot is never accepted on a stream without a failure, on  *)
(* a clean exit, without targets, or when a target is not among the        *)
(* failures seen.                                                          *)
ASSUME FailingSnapshotsShowTheirTargets ==
    \A s \in Summaries, targets \in SUBSET {"t", "v"}, exit \in {0, 1} :
        O!RawTestOutcome("buggy", targets, s, exit) =>
            exit = 1 /\ s.counts.failed > 0 /\ targets # {} /\ targets \subseteq s.failing
(* A passing snapshot is accepted although no summary was recognised.      *)
ASSUME PassingNeedsNoSummary ==
    O!RawTestOutcome("fixed", {"t"}, O!NativeSummary(O!EmptyStream), 0)

(* Agreement keeps the number of failures and every failing identity; it   *)
(* needs a proven dialect, and RTK may name more than it was given.        *)
ASSUME AgreementKeepsFailures ==
    \A raw, rtk \in Summaries : \A d \in {<<>>, <<"rtk-go-test-summary-v1">>} :
        O!TestAgreement(d, raw, rtk) =>
            d # <<>> /\ raw.failing \subseteq rtk.failing /\ raw.counts.failed = rtk.counts.failed
ASSUME UnprovenFamiliesNeverAgree ==
    \A family \in {"jvm", "python", "js_ts", "rust_cargo"}, raw, rtk \in Summaries :
        ~O!TestAgreement(O!RtkDialect(family, "another case"), raw, rtk)
ASSUME TwoAggregateLinesAreNone ==
    \A f \in {<<>>, <<<<1, 1>>>>}, p \in {<<>>, <<2>>, <<2, 2>>}, n \in 0..1 :
        (Len(f) + Len(p) + n # 1) => O!RtkGoSummary(f, p, n, {}).counts = O!Counts(O!Missing, O!Missing)

(* The listing and state oracles are weaker than their neighbours: a       *)
(* listing of other names agrees when it is long enough, a status agrees   *)
(* whenever RTK printed anything.                                          *)
ASSUME WeakOracles ==
    /\ O!ListingAgrees({"a", "b"}, {"x"}) /\ ~O!GrepAgrees({"a"}, {"x"})
    /\ O!GitAgrees("status", [paths |-> {"a"}], [paths |-> {}, bytes |-> 1])
    /\ \A sub \in {"add", "commit", "push"} : O!GitAgrees(sub, [paths |-> {"a"}], [bytes |-> 0])
    /\ O!LogAgrees([s \in {"error"} |-> 3], [s \in {"error"} |-> O!Missing])

-----------------------------------------------------------------------------
(* Dialects. *)

Result(ok, p, f) == [ok |-> ok, passed |-> p, failed |-> f, ignored |-> 0, measured |-> 0, filtered |-> 0]
RustStreams ==
    {[results |-> r, failIds |-> ids, blockIds |-> ids, compact |-> <<>>, failuresHeader |-> FALSE,
      build |-> FALSE, rustcError |-> e, cut |-> c] :
        r \in {<<>>, <<Result(TRUE, 2, 0)>>, <<Result(TRUE, 1, 0), Result(FALSE, 0, 1)>>},
        ids \in {{}, {"t"}}, e \in BOOLEAN, c \in BOOLEAN}
Compacted(t) ==
    [t EXCEPT !.compact = <<[passed |-> O!Total(t.results, "passed"), ignored |-> 0, filtered |-> 0,
                             suites |-> Len(t.results)]>>, !.results = <<>>]
AllOk(t) == t.results # <<>> /\ \A i \in DOMAIN t.results : t.results[i].ok

(* RTK's compact line of an all-passing run keeps what the raw run says;   *)
(* verbatim output of a failing run does too.                              *)
ASSUME CompactLineIsEquivalent ==
    \A t \in RustStreams : (AllOk(t) /\ t.failIds = {}) =>
        O!RustEquivalent(O!ParseRustRaw(t), O!ParseRustRtk(Compacted(t)))
(* No equivalence hides a failure, a lost identity or a cut stream.        *)
ASSUME RustEquivalenceHidesNothing ==
    \A t, u \in RustStreams :
        LET raw == O!ParseRustRaw(t)
            rtk == O!ParseRustRtk(u)
        IN  O!RustEquivalent(raw, rtk) =>
              /\ (raw.outcome = "failure") <=> (rtk.outcome = "failure")
              /\ raw.failing = rtk.failing /\ raw.cut = rtk.cut /\ raw.failed = rtk.failed

GoText(lines) == [compact |-> <<>>, lines |-> lines, json |-> <<>>]
GoJson(events) == [compact |-> <<>>, lines |-> <<>>, json |-> events]
(* A package that fails to build counts as one failure in both grammars.   *)
ASSUME PackageFailuresCount ==
    /\ O!ParseGo(GoText(<<<<"FAIL-package", "p">>, <<"FAIL", "">>>>)).failed = 1
    /\ O!ParseGo(GoJson(<<<<"fail", "p", "">>>>)).failed = 1
    /\ O!ParseGo(GoJson(<<<<"fail", "p", "t">>, <<"fail", "p", "">>>>)).failed = 1
(* A retried test counts by its last action, once.                         *)
ASSUME LastActionCounts ==
    LET p == O!ParseGo(GoJson(<<<<"fail", "p", "t">>, <<"pass", "p", "t">>>>)) IN p.passed = 1 /\ p.failed = 0
(* Go equivalence compares numbers and outcomes, not which test failed.    *)
ASSUME GoEquivalenceIgnoresIdentities ==
    O!GoEquivalent(O!ParseGo(GoText(<<<<"fail", "t">>>>)), O!ParseGo(GoText(<<<<"fail", "u">>>>)))

(* A failing test a dialect saw is never part of a success, but for the    *)
(* synthetic report of gradle, which is read before its failures are; and  *)
(* equivalent readings of the JVM name the same failing tests.             *)
JvmTexts ==
    {[failedCount |-> n, ids |-> ids, synthetic |-> s, status |-> st, note |-> note, completed |-> c, cut |-> FALSE] :
       n \in {<<>>, <<0>>, <<1>>}, ids \in {{}, {"t"}, {"u"}}, s \in BOOLEAN, st \in {<<>>, <<"FAILED">>, <<"SUCCESSFUL">>},
       note \in BOOLEAN, c \in {<<>>, <<3>>}}
ASSUME JvmFailuresShow ==
    /\ \A t \in JvmTexts : LET p == O!ParseJvm(t) IN
          p.outcome = "success" /\ p.failing # {} => t.synthetic
    /\ \A t, u \in JvmTexts : O!JvmEquivalent(O!ParseJvm(t), O!ParseJvm(u)) => t.ids = u.ids
(* A report read whole and a summary line agree on numbers alone: which    *)
(* test failed is compared only between two readings of one kind.          *)
VitestTexts ==
    {[json |-> j, summary |-> s, marked |-> m, cut |-> FALSE] : m \in {<<>>, <<"t">>, <<"u">>}, s \in {<<>>, <<0, 0>>, <<1, 2>>},
       j \in {<<>>} \cup {<<[passed |-> 2, failed |-> 1, total |-> 3, failing |-> ids]>> : ids \in {<<"t">>, <<"u">>}}}
ASSUME VitestTiersHideIdentities ==
    /\ \A t, u \in VitestTexts : LET p == O!ParseVitest(t)  q == O!ParseVitest(u) IN
          O!VitestEquivalent(p, q) => p.failed = q.failed /\ (p.failing = q.failing \/ p.tier # q.tier)
    /\ \E t, u \in VitestTexts : LET p == O!ParseVitest(t)  q == O!ParseVitest(u) IN
          O!VitestEquivalent(p, q) /\ p.failed = 1 /\ p.failing # q.failing
(* A vet listing that RTK cut short agrees on the issues it shows, and on  *)
(* how many there are; one that is not cut short shows every issue.        *)
VetHeads == UNION {[1..n -> {"a", "b"}] : n \in 0..3}
VetPairs ==
    {<<O!ParseVetRaw([issues |-> [i \in DOMAIN h |-> <<h[i], "more">>], cut |-> FALSE]),
       O!ParseVetRtk([blank |-> FALSE, noIssues |-> FALSE, header |-> <<n>>, more |-> m, cut |-> FALSE,
                      issues |-> [i \in DOMAIN s |-> <<s[i], "">>]])>> : h, s \in VetHeads, n \in 0..3, m \in BOOLEAN}
ASSUME VetListingsAgreeOnWhatTheyShow ==
    \A p \in VetPairs : O!VetEquivalent(p[1], p[2]) =>
        /\ p[2].count = Len(p[1].issues) /\ \A i \in DOMAIN p[2].issues : i \in DOMAIN p[1].issues => p[2].issues[i][1] = p[1].issues[i][1]
        /\ ~p[2].capped => Len(p[2].issues) = Len(p[1].issues)
(* Two commits agree only when they are one commit on the base.            *)
CommitStates == {O!CommitState(h, q, <<0>>) : h \in {<<>>, <<0>>, <<1, 1, 1, 1, 1, 1, 1, 1>>, <<1, 1, 1, 1, 1, 1, 1, 2>>}, q \in {<<0>>, <<9>>}}
ASSUME OneCommitOnTheBase ==
    \A p, q \in CommitStates, n \in 6..8 :
        O!CommitEquivalent(p, q, [i \in 1..n |-> 1], <<0>>) =>
            p = q /\ p.parent = <<0>> /\ p.oid # <<0>> /\ (n = 8 => p.oid = <<1, 1, 1, 1, 1, 1, 1, 1>>)
            /\ n > 6

-----------------------------------------------------------------------------
(* git show and docker images. *)

Oid == <<1, 2, 3, 4, 5>>
PatchLines == {<<"diff", "a">>, <<"diff", "b">>, <<"rename", "c">>, <<"@@", "">>, <<"+", "">>, <<"-", "">>, <<" ", "">>}
Patches == UNION {[1..n -> PatchLines] : n \in 0..4}
(* Additions are the plus lines after a hunk header of their file.         *)
PlusInHunks(ls) ==
    Cardinality({i \in DOMAIN ls : /\ ls[i][1] = "+"
                                   /\ \E h \in 1..(i - 1) : ls[h][1] = "@@" /\ (\E d \in 1..h : ls[d][1] = "diff")
                                                            /\ \A d \in (h + 1)..i : ls[d][1] # "diff"})
ASSUME PatchCounts ==
    \A ls \in Patches : LET p == O!ParseShow(Oid, ls) IN
        p.derivable => p.stats[2] = PlusInHunks(ls) /\ p.stats[1] >= Cardinality(p.paths)

Shows == {O!Stat(o, m, n, 1, 0, ps) : o \in {Oid, <<1, 2, 3, 4>>, <<1, 2>>, <<9, 2, 3, 4>>}, m \in {"compact", "raw_fallback"},
                                      n \in 1..2, ps \in {{"a"}, {"b"}}} \cup {O!NotDerivable}
ASSUME ShowKeepsPathsAndIdentity ==
    \A raw, rtk \in Shows : O!ShowEquivalent(raw, rtk, Oid) =>
        raw.paths = rtk.paths /\ raw.stats = rtk.stats /\ raw.oid = Oid /\ rtk.oid \in {Oid, <<1, 2, 3, 4>>}
(* The merge oracle takes the compact form only, and parents in order.     *)
ASSUME MergesAreCompactAndOrdered ==
    LET P == <<7, 7, 7, 7, 7>>
        Q == <<8, 8, 8, 8, 8>>
        short(o) == SubSeq(o, 1, 4)
    IN  \A rtk \in Shows, fp \in Shows, abbrevs \in {<<>>, <<short(P)>>, <<short(P), short(Q)>>, <<short(Q), short(P)>>} :
          O!MergeEquivalent([oid |-> Oid, abbrevs |-> abbrevs], fp, rtk, <<Oid, P, Q>>, Oid, Oid)
             => rtk.mode = "compact" /\ abbrevs = <<short(P), short(Q)>> /\ fp.paths = rtk.paths

Rows == {<<"a:1", "MB", 300>>, <<"b:1", "GB", 20>>, <<"c:1", "kB", 90>>}
RowLists == UNION {[1..n -> Rows] : n \in 0..3}
Listing(rows, cut) == [mode |-> "compact", rows |-> rows, header |-> Len(rows), truncated |-> cut,
                       total |-> O!TotalSizeDisplay(rows)]
ASSUME ImagesKeepTheMultiset ==
    \A raw, rtk \in RowLists, cut \in 0..1 :
        O!ImagesEquivalent(raw, Listing(rtk, cut), FALSE) <=>
            (raw # <<>> /\ cut = 0 /\ Len(raw) = Len(rtk) /\ \A r \in Rows : O!Copies(raw, r) = O!Copies(rtk, r))

-----------------------------------------------------------------------------
(* Canonicalization, proofs and adapters. *)

Volatile == {[kind |-> k, token |-> t] : k \in {"finished in", "status", "result", "in"}, t \in {"1", "2"}}
CanonTexts == UNION {[1..n -> Volatile] : n \in 0..2}
CargoPolicies == {"cargo-test-v1", "cargo-test-v2", "cargo-test-v3", "identity-v1"}
(* Canonicalizing twice changes nothing more, and a result line keeps its  *)
(* token under every policy.                                               *)
ASSUME PoliciesKeepResults ==
    \A t \in CanonTexts, p \in CargoPolicies :
        LET c == O!Canonicalize(t, p)
        IN  /\ O!Canonicalize(c, p) = c
            /\ SelectSeq(c, LAMBDA l : l.kind = "result") = SelectSeq(t, LAMBDA l : l.kind = "result")
ASSUME CaddyKeepsTheMultiset ==
    LET of(o, k) == O!Canonicalize(<<[kind |-> k, token |-> "1", origins |-> o]>>, "caddy-go-test-v1")[1].origins
    IN  of(<<2, 1, 1>>, "zap") = <<1, 1, 2>> /\ of(<<2, 1>>, "other json") = <<2, 1>>
ASSUME PoliciesOfCases ==
    /\ O!PolicyFor("go", "test", "", "caddyserver__caddy-5870::go::test::buggy") = "caddy-go-test-v1"
    /\ O!PolicyFor("go", "test", "", "x") = "go-test-v1" /\ O!PolicyFor("git", "log", "", "x") = "git-v1"
    /\ O!PolicyFor("jvm", "test", "maven", "x") # O!PolicyFor("jvm", "test", "gradle", "x")

(* A loss is confirmed only when every repetition shows it; naming a       *)
(* failing test in the measured stream once is enough to refute it.        *)
Proofs == {O!SidecarProof(m, [pointer |-> TRUE, read |-> r, fails |-> {"t"}]) : m \in SUBSET {"t"}, r \in BOOLEAN}
ASSUME LossNeedsEveryRepetition ==
    \A reps \in UNION {[1..n -> Proofs] : n \in 0..3} : O!SemanticLossConfirmed(reps, {"t"}) <=>
        reps # <<>> /\ \A i \in DOMAIN reps : "t" \in reps[i].sidecarFails /\ "t" \notin reps[i].measuredFails
(* The evidence of a git show: a commit whose only parent was not fetched  *)
(* still counts as the intended representation.                            *)
ASSUME RootDumpsPassAsIntended ==
    /\ O!GitEvidence(<<"p">>, {}).intended /\ ~O!GitEvidence(<<"p">>, {}).allPresent
    /\ \A parents \in {<<"p", "q">>, <<"p", "q", "r">>}, present \in SUBSET {"p", "q", "r"} :
          O!GitEvidence(parents, present).intended <=> O!GitEvidence(parents, present).allPresent

(* No adapter binds another's contract, and each binds its own.            *)
ContractOf(a) ==
    [raw |-> a.raw, rtk |-> a.rtk, policy |-> a.policy, env |-> a.env, protected |-> a.protected, family |-> a.family,
     sub |-> a.sub, dialect |-> <<a.proof>>, tail |-> O!LuceneTail]
ScenarioOf(a) == [targets |-> a.targets, baseCommit |-> TRUE, digests |-> TRUE, repository |-> "library/redis"]
ASSUME AdaptersBindTheirCaseOnly ==
    \A a, b \in O!Adapters : O!Bind(a, ContractOf(b), ScenarioOf(b)) <=> a = b
(* Where RTK wraps the command, its arm is the raw command after rtk.      *)
ASSUME WrappedArms ==
    \A a \in O!Adapters : a.rtk[1] = "rtk" /\ (a.kind = "rtk_test_dialect" => Tail(a.rtk) = a.raw)

-----------------------------------------------------------------------------
(* The coreutils diagnostic: worlds that deviate from a good one in up to  *)
(* two places.                                                             *)
D == INSTANCE CoreutilsDiagnostic

IndexPath == <<"registry", "index", "crates.io", ".cache", "serde">>
IndexEntry(version, revision, package) ==
    [path |-> IndexPath, content |-> [version |-> version, schema |-> 2, terminated |-> TRUE,
                                      fields |-> <<<<revision>>, <<"1.0">>, <<"package", package>>>>]]
Plain(path) == [path |-> path, content |-> [version |-> 0, schema |-> 0, terminated |-> FALSE, fields |-> <<>>]]
Crate == Plain(<<"registry", "cache", "crates.io", "serde.crate">>)
GraphOf(deps) == [nodes |-> {[id |-> <<"/work/A", "uu">>, deps |-> deps], [id |-> <<"reg", "serde">>, deps |-> {}]},
                  members |-> {<<"/work/A", "uu">>}, root |-> <<>>]
State0 == D!DependencyState({}, "d0", "t", <<>>, "c", "r")
Lock0 == <<{"uu", "serde"}>>
Acq0 == [fetchExit |-> 0, head |-> "base", install |-> [exit |-> 0, timedOut |-> FALSE], pristine |-> State0, post |-> State0,
         generated |-> Lock0, fetchRun |-> [exit |-> 0, timedOut |-> FALSE], fetched |-> Lock0, metadataExit |-> 0,
         meta |-> GraphOf({<<"reg", "serde">>}), home |-> {IndexEntry(3, "etag1", "p"), Crate}, membersExit |-> 0,
         members |-> {"uu"}, gold |-> TRUE, test |-> TRUE, resetFailed |-> {}, final |-> [State0 EXCEPT !.lock = Lock0], finalMembers |-> {"uu"}]
Rep0 == [stream |-> [tests |-> {"target"}, summary |-> "ok", status |-> 1, duration |-> 1], exit |-> 0, timedOut |-> FALSE,
         repoOk |-> TRUE, cacheOk |-> TRUE, toolchainOk |-> TRUE]
Source(path, role, defs, refs) == [path |-> path, roles |-> {role}, defs |-> defs, refs |-> refs]
World0 == [toolchain |-> [pins |-> D!Pins, installed |-> TRUE, binaries |-> TRUE], isolated |-> TRUE, env |-> D!ContractEnv,
           A |-> Acq0, B |-> Acq0, raw |-> <<Rep0, Rep0, Rep0>>, rtk |-> <<Rep0, Rep0, Rep0>>,
           rtkSources |-> {Source("a.rs", "cli_dispatch_cargo_test", {}, {"filter"}), Source("b.rs", "cargo_filter", {"filter"}, {"parse"}),
                           Source("c.rs", "cargo_parser", {"parse"}, {"show"}), Source("d.rs", "summary_formatter", {"show"}, {})}]

(* A deviation is <<place, field, value>>; a place is an acquisition, or a *)
(* repetition <<role, i>>.                                                 *)
Deviations ==
    <<<<"A", "fetchExit", 128>>, <<"A", "head", "other">>, <<"A", "install", [exit |-> 101, timedOut |-> FALSE]>>,
      <<"A", "generated", <<>>>>, <<"A", "fetchRun", [exit |-> 124, timedOut |-> TRUE]>>, <<"A", "fetched", <<{"uu"}>>>>,
      <<"A", "fetched", <<>>>>, <<"A", "metadataExit", 101>>, <<"A", "membersExit", 101>>, <<"A", "meta", GraphOf({})>>, <<"B", "meta", GraphOf({})>>,
      <<"A", "home", {IndexEntry(3, "etag2", "p"), Crate}>>, <<"A", "home", {IndexEntry(3, "etag1", "q"), Crate}>>,
      <<"A", "home", {IndexEntry(2, "etag1", "p"), Crate}>>, <<"A", "home", {IndexEntry(3, "etag1", "p")}>>,
      <<"B", "home", {IndexEntry(3, "etag1", "p"), Crate, Plain(<<".package-cache">>)}>>,
      <<"A", "post", [State0 EXCEPT !.tracked = {"src.rs"}]>>, <<"A", "post", [State0 EXCEPT !.tracked = {"Cargo.lock"}]>>,
      <<"B", "post", [State0 EXCEPT !.tracked = {"Cargo.lock"}]>>, <<"A", "post", [State0 EXCEPT !.config = "x"]>>,
      <<"A", "gold", FALSE>>, <<"A", "final", State0>>, <<"A", "finalMembers", {}>>, <<"A", "resetFailed", {"t.rs"}>>,
      <<"raw", 1, [Rep0 EXCEPT !.stream.status = 7, !.stream.duration = 9]>>, <<"raw", 2, [Rep0 EXCEPT !.stream.tests = {}]>>,
      <<"raw", 3, [Rep0 EXCEPT !.exit = 1]>>, <<"raw", 1, [Rep0 EXCEPT !.timedOut = TRUE, !.exit = 124]>>,
      <<"raw", 2, [Rep0 EXCEPT !.repoOk = FALSE]>>, <<"raw", 3, [Rep0 EXCEPT !.stream.tests = {"target", "new"}]>>,
      <<"rtk", 1, [Rep0 EXCEPT !.stream.tests = {"target", "new"}]>>, <<"rtk", 2, [Rep0 EXCEPT !.cacheOk = FALSE]>>,
      <<"rtk", 3, [Rep0 EXCEPT !.stream.duration = 9]>>>>
Deviate(w, d) == [w EXCEPT ![d[1]] = [@ EXCEPT ![d[2]] = d[3]]]
DeviationPairs == {p \in (1..Len(Deviations)) \X (1..Len(Deviations)) : p[1] <= p[2]}
WorldOf(p) == Deviate(Deviate(World0, Deviations[p[1]]), Deviations[p[2]])
External(d) == <<d.rec.manifest>>

(* An eligible diagnostic reproduced one input, and its retained streams   *)
(* show the target executed.                                               *)
ASSUME EligibleMeansReproduced ==
    \A p \in DeviationPairs :
        LET w == WorldOf(p)
            d == D!Diagnose(w)
        IN  D!Verify(d, External(d))[2] =>
              /\ w.A.fetched = w.B.fetched /\ w.A.head = D!Base /\ w.B.head = D!Base
              /\ D!CacheManifests(w.A.home).semantic = D!CacheManifests(w.B.home).semantic
              /\ w.A.final = w.B.final /\ \A i \in 1..3 : w.raw[i].exit = 0 /\ "target" \in w.raw[i].stream.tests
(* Nothing can be classified as a pristine state: without a lock the fetch *)
(* gate has already failed.                                                *)
ASSUME PristineIsUnreachable ==
    \A p \in DeviationPairs : D!Diagnose(WorldOf(p)).rec.classification # D!PristineState
(* An honest record is refused only for what the producer never looks at:  *)
(* a failed fetch or another commit, a graph that does not hang together,  *)
(* and the guards and determinism of the RTK arm.                          *)
ASSUME HonestDiagnosticsVerify ==
    \A p \in DeviationPairs :
        LET w == WorldOf(p)
            d == D!Diagnose(w)
        IN  D!Verify(d, External(d))[1] \/
              /\ d.rec.outcome \in {D!Unproven, D!RawUnqualified}
              /\ \/ \E l \in D!Labels2 : \/ ~D!AcquisitionHolds(d.rec.acq[1][l])
                                         \/ ~D!GraphStructure(d.files[<<l, "graph">>][1][1])
                 \/ /\ d.rec.outcome = D!Unproven
                    /\ \/ \E i \in 1..3 : ~D!MutationOk(w.rtk[i])
                       \/ ~D!DeterministicCaptures(d.files, "rtk")
(* The pinned fields of a record and the retained files are tied: a file   *)
(* exchanged for another run's, everything sealed and listed again, is     *)
(* refused.  Only the mutation files are never read.                       *)
Resealed(d, path, content) ==
    LET files == [d.files EXCEPT ![path] = content]
    IN  [d EXCEPT !.files = files, !.rec.manifest = D!Manifest(files)]
ASSUME ExchangedEvidenceIsRefused ==
    LET good == D!Diagnose(World0)
    IN  \A n \in 1..Len(Deviations) :
          LET other == D!Diagnose(WorldOf(<<n, n>>))
          IN  \A path \in DOMAIN good.files \cap DOMAIN other.files :
                good.files[path] # other.files[path] =>
                  LET d == Resealed(good, path, other.files[path])
                  IN  D!Verify(d, External(d))[1] <=> path[2] = "mutation"
(* The transport revision of an index entry is no part of its meaning, nor *)
(* are cargo's own lock files; a package is, and so is a crate.            *)
ASSUME CacheMeaning ==
    LET m(package, revision, extra) == D!CacheManifests({IndexEntry(3, revision, package)} \cup extra)
    IN  /\ D!ValidatorOnly(m("p", "e1", {Crate}), m("p", "e2", {Crate})) = {IndexPath}
        /\ m("p", "e1", {Crate}).semantic = m("p", "e2", {Crate, Plain(<<".package-cache">>)}).semantic
        /\ D!DifferingPaths(m("p", "e1", {Crate}).semantic, m("q", "e1", {}).semantic) = {IndexPath, Crate.path}
        /\ ~D!IsEphemeral(<<"registry", "cache", "x", "config.json.lock">>)
        /\ D!IsEphemeral(<<"registry", "index", "x", "config.json.lock">>)

-----------------------------------------------------------------------------
(* The resolved twelve. *)

Lucene == "apache__lucene-13704::jvm::test::buggy"
Vue == "vuejs__core-11589::js_ts::test::buggy"
Scrapy == "bugsinpy::scrapy-9::python::pytest::fixed"
Caddy == "caddyserver__caddy-5870::go::test::buggy"
Redis == "container::redis::docker::images"
Gin == "gin-gonic__gin-2755::go::vet"
Loghub == "loghub::HDFS::log"
Php == "php-cs-fixer__php-cs-fixer-8075::git::commit"
Preact == "preactjs__preact-3345::files_search::read"
Lombok == "projectlombok__lombok-3312::files_search::read"
Rubocop == "rubocop__rubocop-13687::git::show"
BaseTwelve == <<Tokio, Lucene, Vue, Scrapy, Caddy, Redis, Gin, Loghub, Php, Preact, Lombok, Rubocop>>
TheTwelve == [i \in 1..12 |-> IF i = 1 THEN Coreutils ELSE BaseTwelve[i]]
Generics == <<Lucene, Vue, Scrapy, Caddy, Gin, Preact, Lombok>>
Dispatched == <<Loghub, Rubocop, Php, Redis>>

-----------------------------------------------------------------------------
(* The store: base records, overlays, and the coreutils records.           *)

Seal(body) == <<[ok |-> TRUE, body |-> body]>>
Named(ids) == [i \in DOMAIN ids |-> [case |-> ids[i]]]
ContractItems(control) ==
    [i \in DOMAIN BaseTwelve |->
        [case |-> BaseTwelve[i], canon |-> "c1", toolchain |-> "t1", generation |-> 1, \* two contracts differ between generations
         control |-> IF BaseTwelve[i] \in DeclaredChanged THEN <<control>> ELSE <<>>]]
OldContract == Seal([items |-> ContractItems("v1")])
NewContract == Seal([items |-> ContractItems("v2")])
Membership == Seal([items |-> Named(TheTwelve), constraintsOk |-> TRUE, blocker |-> FALSE])
Over(base, items) == Seal([base |-> base, membership |-> Membership, case |-> Coreutils, items |-> items])
Registry == Seal([items |-> Named(<<Tokio>>)])
Scenarios == Seal([items |-> Named(BaseTwelve)])
ToolchainOverlay == Over(<<"lock">>, <<[ref |-> <<"binaries">>]>>)
ContractOverlay ==
    Over(OldContract, <<[case |-> Coreutils, dependencies |-> <<"lock and graph">>, dialect |-> <<"dialect">>, dialectId |-> DialectId,
                         canon |-> "cargo-test-v3", toolchain |-> "t2", generation |-> 3, control |-> <<>>]>>)
HostGraph == [roots |-> {1}, nodes |-> {[id |-> 1, deps |-> {2}], [id |-> 2, deps |-> {}]}]
Snapshot ==
    Seal([type |-> "dependency-snapshot-overlay", case |-> Coreutils, base |-> OldContract, membership |-> Membership,
          ref |-> <<"lock and graph">>, run |-> "r", producer |-> "p", verifier |-> "v",
          snapshots |-> <<[case |-> Coreutils, lock |-> "Cargo.lock", scope |-> "full cross-platform resolution",
                           host |-> HostGraph, packages |-> 2, count |-> 2]>>])
Measured(role) ==
    [id |-> ProvenBinary[role], path |-> <<"toolchain", BinaryName[role]>>, invoked |-> <<"bin", BinaryName[role]>>,
     real |-> <<"bin", "rustup">>, version |-> <<BinaryName[role], Channel>>]
Role(role) ==
    [role |-> role, binary |-> BinaryName[role], measured |-> ProvenBinary[role], differs |-> TRUE, case |-> Coreutils,
     run |-> BinidOrigin.run, path |-> Measured(role).path, invoked |-> Measured(role).invoked, real |-> Measured(role).real,
     version |-> Measured(role).version]
Binaries ==
    Seal([type |-> "toolchain-binary-identity", case |-> Coreutils, membership |-> Membership, lock |-> <<"lock">>,
          overlay |-> ToolchainOverlay, ref |-> <<"binaries">>, requested |-> Channel, channel |-> Channel, host |-> Host,
          roles |-> <<Role("rust"), Role("cargo")>>, wrapper |-> ProvenWrapper] @@ BinidOrigin)
Suite(p, f) == [ok |-> TRUE, passed |-> p, failed |-> 0, ignored |-> 0, measured |-> 0, filtered |-> f]
RustText(results, compact) ==
    [results |-> results, compact |-> compact, failIds |-> {}, blockIds |-> {}, failuresHeader |-> FALSE, build |-> FALSE,
     rustcError |-> FALSE, cut |-> FALSE]
CargoStreams(passed) ==
    [raw |-> RustText(<<Suite(passed, 3000), Suite(0, 205), Suite(0, 0)>>, <<>>),
     rtk |-> RustText(<<>>, <<[passed |-> passed, ignored |-> 0, filtered |-> 3205, suites |-> 3]>>)]
DialectRecord ==
    Seal([type |-> "rtk-rust-cargo-dialect", policy |-> DialectId, scope |-> "case_scoped", ref |-> <<"dialect">>, case |-> Coreutils,
          membership |-> Membership, base |-> OldContract, contract |-> ContractOverlay, source |-> DialectSource, rtk |-> ProvenRtk,
          p2 |-> Binaries, streams |-> CargoStreams(1), manifest |-> "manifest", equivalent |-> TRUE, run |-> DialectRun, impl |-> "i",
          raw |-> O!ParseRustRaw(CargoStreams(1).raw), rtkProjection |-> O!ParseRustRtk(CargoStreams(1).rtk)])
BareStore(contract) ==
    [membership |-> Membership, baseMembership |-> Seal([items |-> Named(BaseTwelve)]), registry |-> Registry,
     scenarios |-> Scenarios, contract |-> contract, lock |-> <<"lock">>, pubenv |-> Over(Registry, Named(<<Coreutils>>)),
     toolchain |-> ToolchainOverlay, scenario |-> Over(Scenarios, Named(<<Coreutils>>)), overlay |-> ContractOverlay,
     bridge |-> <<>>, depsnap |-> Snapshot, binid |-> Binaries, dialect |-> DialectRecord, qualification |-> <<>>,
     frozenLock |-> <<"Cargo.lock">>, frozenGraph |-> <<[host |-> HostGraph, packages |-> 2, lock |-> "Cargo.lock"]>>,
     installed |-> <<[rust |-> Measured("rust"), cargo |-> Measured("cargo"), rustup |-> "proven rustup"]>>,
     dialectStreams |-> CargoStreams(1), dialectManifest |-> "manifest", qualStreams |-> [x \in {} |-> CargoStreams(1).raw]]

-----------------------------------------------------------------------------
(* The evidence of the eleven other cases.                                 *)

JvmText == [failedCount |-> <<1>>, ids |-> {"t"}, synthetic |-> FALSE, status |-> <<"FAILED">>, note |-> FALSE, completed |-> <<3>>,
            cut |-> FALSE]
VitestText == [json |-> <<>>, summary |-> <<1, 2>>, marked |-> <<"t">>, cut |-> FALSE]
PytestText == [summary |-> <<"2 passed">>, collectedNone |-> FALSE, failing |-> <<>>, cut |-> FALSE,
               counts |-> [k \in O!PytestWords |-> IF k = "passed" THEN 2 ELSE 0]]
GoStream(compact, json) == [compact |-> compact, lines |-> <<>>, json |-> json]
GoEvidence == [raw |-> GoStream(<<>>, <<<<"fail", "p", "t">>, <<"pass", "p", "u">>, <<"fail", "p", "">>>>),
               rtk |-> GoStream(<<[none |-> FALSE, passed |-> 1, failed |-> 1, packages |-> 1, failing |-> {"t"}]>>, <<>>)]
VetEvidence == [raw |-> [issues |-> <<<<"a.go:1", "more">>>>, cut |-> FALSE],
                rtk |-> [blank |-> FALSE, noIssues |-> FALSE, header |-> <<1>>, more |-> FALSE, cut |-> FALSE,
                         issues |-> <<<<"a.go:1", "">>>>]]
Same(t) == [raw |-> t, rtk |-> t]
ReadEvidence(line) == [raw |-> [lines |-> <<line, "">>], rtk |-> [lines |-> <<line>>]]
Totals == [error |-> 1, warn |-> 2, info |-> 7]
Capsule == [parsed |-> TRUE, unmatched |-> 0, ambiguous |-> 0, published |-> TRUE, totals |-> Totals]
ObjectId(d) == <<d, 1, 2, 3, 4, 5, 6, 7>>
ShowEvidence ==
    [raw |-> [oid |-> ObjectId(1), abbrevs |-> <<SubSeq(ObjectId(2), 1, 4), SubSeq(ObjectId(3), 1, 4)>>],
     parents |-> <<ObjectId(1), ObjectId(2), ObjectId(3)>>,
     numstat |-> <<[ins |-> 2, del |-> 1, path |-> "f"]>>, shortstat |-> <<1, 2, 1>>, resolved |-> ObjectId(1),
     rtk |-> [full |-> FALSE, oid |-> SubSeq(ObjectId(1), 1, 4), totals |-> <<1, 2, 1>>, paths |-> {"f"}]]
CommitEvidence ==
    [rawHead |-> ObjectId(5), rtkHead |-> ObjectId(5), rawParent |-> ObjectId(4), rtkParent |-> ObjectId(4),
     rawNames |-> {"f"}, rtkNames |-> {"f"}, shown |-> SubSeq(ObjectId(5), 1, 7)]
ImageRow == <<"redis:7", "MB", 420>>
Pinned == [id |-> "config", digest |-> "index", platform |-> "linux/amd64"]
Inspect == [derivable |-> TRUE, id |-> "config", digests |-> {"index"}, platform |-> "linux/amd64"]
ImageEvidence ==
    [rows |-> <<ImageRow>>, rawInspect |-> Inspect, rtkInspect |-> Inspect,
     rtk |-> [mode |-> "compact", truncated |-> 0, header |-> 1, rows |-> <<ImageRow>>, total |-> O!TotalSizeDisplay(<<ImageRow>>)]]
EvidenceOf(caseId) ==
    CASE caseId = Lucene -> Same(JvmText)       [] caseId = Vue -> Same(VitestText)     [] caseId = Scrapy -> Same(PytestText)
      [] caseId = Caddy -> GoEvidence           [] caseId = Gin -> VetEvidence          [] caseId = Preact -> ReadEvidence("p")
      [] caseId = Lombok -> ReadEvidence("l")   [] caseId = Loghub -> [rtk |-> [summary |-> TRUE, totals |-> Totals]]
      [] caseId = Rubocop -> ShowEvidence       [] caseId = Php -> CommitEvidence       [] caseId = Redis -> ImageEvidence
      [] caseId = Coreutils -> CargoStreams(10)

-----------------------------------------------------------------------------
(* The honest world, built by the builders themselves.                     *)

ProofIds == {ProofId(QualificationModel[c]) : c \in DOMAIN QualificationModel}
Code == [canon |-> [p \in {"c1", "cargo-test-v3"} |-> 1], proof |-> [p \in ProofIds |-> 1], dispatch |-> [g \in 2..5 |-> 1],
         parser |-> 1, recompute |-> 1, verifier |-> 1]
RegistryOf(g, caseId) ==
    [ok |-> TRUE, type |-> "n2e-qualification-dispatch-registry", generation |-> g,
     entries |-> <<[policy |-> DispatchOracle(g), cases |-> {caseId}, caseScoped |-> TRUE, generation |-> g, rtk |-> "rtk source",
                    canon |-> "c1"]>>]
Unmanifested(contract) ==
    [store |-> BareStore(contract), code |-> Code, records |-> <<>>, evidence |-> [c \in ToSet(TheTwelve) |-> EvidenceOf(c)],
     registries |-> [g \in 2..5 |-> RegistryOf(g, Dispatched[g - 1])],
     execution |-> [ok |-> TRUE, image |-> Pinned, mode |-> "compact"],
     base |-> [c \in {Rubocop, Php} |-> IF c = Rubocop THEN ObjectId(1) ELSE ObjectId(4)],
     bindings |-> [c \in ToSet(TheTwelve) |-> [case |-> c, proof |-> ProofId(QualificationModel[c])]]]
OldManifest == [BuildManifest(Unmanifested(OldContract))[1] EXCEPT !.generation = 2]
Remanifested(w) == [w EXCEPT !.manifest = BuildManifest(w)[1]]
Rebridged(w) == [w EXCEPT !.store.bridge = BuildBridge(w, w.manifest)]
Manifested ==
    Remanifested([manifest |-> OldManifest, gen2 |-> [manifest |-> OldManifest, contract |-> OldContract]] @@ Unmanifested(NewContract))
Bridged == Rebridged(Manifested)

Run(n) == [run |-> n, attempt |-> 1, impl |-> "i", artifact |-> n, complete |-> TRUE]
RunIds == <<"r1", "r2", "r3", "r4", "r5", "r6", "r7", "r8", "r9", "r10", "r11", "r12">>
AllHold(gates) == [g \in {gates[i][1] : i \in DOMAIN gates} |-> TRUE]
Arm == [accepted |-> TRUE, deterministic |-> TRUE]
ProbeArms(caseId) == [raw |-> Arm, rtk |-> Arm, argv |-> TRUE, binding |-> Bridged.bindings[caseId]]
Probed(caseId, holds) == ProbeCase(caseId, holds, EvidenceOf(caseId).raw, EvidenceOf(caseId).rtk, ProbeArms(caseId))
Built(caseId, run) ==
    LET probe == Probed(caseId, AllHold(CaseGates))
    IN  BuildCase(Bridged, caseId, probe.record, probe.evidence, run)
ArmSeen == [storage |-> TRUE, preloaded |-> 0, inspect |-> Inspect, denied |-> TRUE]
Seen == [kind |-> "acceptance", barred |-> FALSE, outcome |-> "observed", capsule |-> <<Capsule>>, sameInput |-> TRUE,
         equivalent |-> TRUE, rtk |-> EvidenceOf(Loghub).rtk, merge |-> TRUE, compact |-> TRUE, statMatches |-> TRUE,
         resolves |-> TRUE, reproduced |-> TRUE, rawCreated |-> TRUE, rtkCreated |-> TRUE, daemonPinned |-> TRUE,
         rawArm |-> ArmSeen, rtkArm |-> ArmSeen]
BuiltDispatch(g, obs, ev, run) == BuildDispatch(Bridged, g, Dispatched[g - 1], obs, ev, run)
Three(x) == <<x, x, x>>
Repetitions(passed) == [raw |-> Three(CargoStreams(passed).raw), rtk |-> Three(CargoStreams(passed).rtk),
                 rawCaptured |-> Three(CargoStreams(passed).raw), rtkCaptured |-> Three(CargoStreams(passed).rtk)]
CoreutilsFacts == [lock |-> <<"Cargo.lock">>, binaries |-> ProvenBinary, rtk |-> ProvenRtk,
                   arms |-> [qualified |-> TRUE, deterministic |-> TRUE, argv |-> TRUE,
                             rawRuns |-> Repetitions(10).raw, rtkRuns |-> Repetitions(10).rtk]]
CoreutilsSeen(w) == ProbeCoreutils(w, AllHold(CoreutilsGates), CoreutilsFacts)
CoreutilsBuilt(w, passed, run) == BuildCoreutils(w, CoreutilsSeen(w), Repetitions(passed), run)

(* gin's record is of the generation before: it is carried by the bridge.  *)
GenericRecords ==
    [i \in DOMAIN Generics |->
        LET r == Built(Generics[i], Run(RunIds[i])).written[1]
        IN  IF Generics[i] = Gin THEN [r EXCEPT !.hash = <<>>, !.manifest = OldManifest, !.manifestGeneration = 2] ELSE r]
DispatchRecords ==
    [i \in DOMAIN Dispatched |-> BuiltDispatch(i + 1, Seen, EvidenceOf(Dispatched[i]), Run(RunIds[i + 7])).written[1]]
Good ==
    [Bridged EXCEPT !.records = GenericRecords \o DispatchRecords,
                    !.store.qualification = Seal(CoreutilsBuilt(Bridged, 10, Run("r12")).written[1]),
                    !.store.qualStreams = CargoStreams(10)]

(* The honest world closes, and twelve cases pass.                         *)
ASSUME TwelvePass ==
    /\ ClosureHolds(Good.store) /\ VerifyManifest(Good, Good.manifest)
    /\ VerifyBridge(Good, Good.manifest, Good.store.bridge[1])
    /\ Aggregate(Good) = <<[passes |-> 12, twelve |-> TRUE]>>

-----------------------------------------------------------------------------
(* What makes the aggregation refuse.                                      *)

Without(s, i) == SubSeq(s, 1, i - 1) \o SubSeq(s, i + 1, Len(s))
(* A missing record leaves the count short and never a pass.               *)
ASSUME MissingRecordsAreCounted ==
    /\ \A i \in DOMAIN Good.records :
          Aggregate([Good EXCEPT !.records = Without(@, i)]) = <<[passes |-> 11, twelve |-> FALSE]>>
    /\ Aggregate([Good EXCEPT !.store.qualification = <<>>]) = <<[passes |-> 11, twelve |-> FALSE]>>
    /\ Aggregate([Good EXCEPT !.records = Append(@, @[1])]) = <<>>

(* Any field of a record that the verdict rests on, edited and sealed      *)
(* again: the whole aggregation refuses, whatever the other eleven say.    *)
EditsOf(r) ==
    {[r EXCEPT !.type = CoreutilsType, !.claimed = FALSE], [r EXCEPT !.claimed = FALSE], [r EXCEPT !.canon = "c2"],
     [r EXCEPT !.generation = 2], [r EXCEPT !.kind = "another"], [r EXCEPT !.dialect = @ \o <<"d">>],
     [r EXCEPT !.oracle = @ \o <<"o">>], [r EXCEPT !.hash = <<Good.manifest.cases[1].hash>>],
     [r EXCEPT !.hash = <<>>, !.manifest = Good.manifest], [r EXCEPT !.acceptance.complete = FALSE],
     [r EXCEPT !.acceptance.run = "diagnostic-run"], [r EXCEPT !.acceptance.impl = "diagnostic-impl"],
     [r EXCEPT !.acceptance.run = "r12"], [r EXCEPT !.acceptance.artifact = "r12"],
     [r EXCEPT !.digests = [f \in DOMAIN @ \ {"rtk", "shown"} |-> @[f]] @@ [f \in {"rtk", "shown"} |-> r.capsule]],
     [r EXCEPT !.dispatchIdentity = IF @ = <<>> THEN Good.records[Len(Good.records)].dispatchIdentity ELSE <<>>]}
    \cup (IF r.dispatch = 0 THEN {[r EXCEPT !.identity = <<>>], [r EXCEPT !.deterministic = FALSE]}
          ELSE {[r EXCEPT !.barred = TRUE], [r EXCEPT !.recordKind = "diagnostic"], [r EXCEPT !.importPath = TRUE],
                [r EXCEPT !.dispatch = 7 - @], [r EXCEPT !.identity = <<Good.records[1].identity[1]>>]})
ASSUME EditedRecordsAreRefused ==
    \A i \in DOMAIN Good.records : \A r \in EditsOf(Good.records[i]) \ {Good.records[i]} :
        Aggregate([Good EXCEPT !.records[i] = r]) = <<>>
ASSUME EditedEvidenceIsRefused ==
    \A i \in DOMAIN Good.records : \A f \in DOMAIN Good.records[i].digests :
        LET caseId == Good.records[i].case
            lost == [Good EXCEPT !.evidence[caseId] = [x \in DOMAIN @ \ {f} |-> @[x]]]
        IN  Aggregate(lost) = <<>>

(* A bound field cannot be a diagnostic's, and twelve passes name twelve   *)
(* runs and twelve artifacts: swapping two runs changes nothing.           *)
ASSUME SwappedRunsStillPass ==
    Aggregate([Good EXCEPT !.records[1].acceptance = Good.records[2].acceptance,
                           !.records[2].acceptance = Good.records[1].acceptance]) = Aggregate(Good)

-----------------------------------------------------------------------------
(* The manifest, the registries, and the code.                             *)

ManifestEdits ==
    LET m == Good.manifest
    IN  {[m EXCEPT !.ok = FALSE], [m EXCEPT !.generation = 2], [m EXCEPT !.pins.lock = <<"another lock">>],
         [m EXCEPT !.pins.base = OldContract], [m EXCEPT !.cardinality = 11], [m EXCEPT !.ids = Tail(@), !.cases = Tail(@)],
         [m EXCEPT !.ids = Reverse(@), !.cases = Reverse(@)], [m EXCEPT !.ids[2] = Tokio], [m EXCEPT !.cases[2].entry.dispatch = 2],
         [m EXCEPT !.cases[2].entry.dialect = <<"rtk-js-vitest-summary-v1">>], [m EXCEPT !.cases[2].entry.canon = "cargo-test-v3"],
         [m EXCEPT !.cases[2].hash = m.cases[3].hash], OldManifest}
ASSUME EditedManifestsAreRefused == \A m \in ManifestEdits : Aggregate([Good EXCEPT !.manifest = m]) = <<>>
ASSUME EditedRegistriesAreRefused ==
    \A g \in 2..5 : \A r \in {[Good.registries[g] EXCEPT !.ok = FALSE], [Good.registries[g] EXCEPT !.generation = 7 - @],
                               [Good.registries[g] EXCEPT !.entries = <<>>], [Good.registries[g] EXCEPT !.entries = @ \o @],
                               [Good.registries[g] EXCEPT !.entries[1].cases = @ \cup {"a family"}, !.entries[1].caseScoped = FALSE],
                               [Good.registries[g] EXCEPT !.entries[1].cases = @ \cup {Tokio}]} :
        Aggregate([Good EXCEPT !.registries[g] = r]) = <<>>

(* When the code of a dialect, an oracle or a dispatch changes under a     *)
(* frozen record, the manifest is stale at once for what its entry hash    *)
(* covers.  Derived again, with its bridge, the records themselves refuse  *)
(* the new code -- but for coreutils, whose record names no code.          *)
Drifted(w, id) == [w EXCEPT !.code.proof[id] = 2]
Refreshed(w) == Rebridged(Remanifested(w))
ASSUME CodeDriftIsRefused ==
    /\ \A id \in ProofIds : Aggregate(Drifted(Good, id)) = <<>>
    /\ \A id \in ProofIds \ {DialectId} : Aggregate(Refreshed(Drifted(Good, id))) = <<>>
    /\ \A g \in 2..5 : Aggregate([Good EXCEPT !.code.dispatch[g] = 2]) = <<>>
    /\ Aggregate([Good EXCEPT !.code.parser = 2]) = <<>> /\ Aggregate([Good EXCEPT !.code.recompute = 2]) = <<>>
    /\ Aggregate([Good EXCEPT !.code.verifier = 2]) = <<>> /\ Aggregate([Good EXCEPT !.execution.mode = "passthrough"]) = <<>>
ASSUME CoreutilsNamesNoCode ==
    Aggregate(Refreshed([Drifted(Good, DialectId) EXCEPT !.records = SelectSeq(@, LAMBDA r : r.case # Gin)]))
      = <<[passes |-> 11, twelve |-> FALSE]>>

(* The bridge carries a record of the generation before only when nothing  *)
(* that decides the case changed; it carries code drift, since both of its *)
(* sides are computed with the code of today.  The number of the old       *)
(* generation is compared by the aggregation, not by the bridge's verifier.*)
BridgeEdits ==
    LET b == Good.store.bridge[1].body
    IN  {[b EXCEPT !.gen3.manifest = OldManifest], [b EXCEPT !.gen2.manifest = Good.manifest], [b EXCEPT !.gen2.generation = 1],
         [b EXCEPT !.carry[Gin].carried = FALSE], [b EXCEPT !.carry[Gin].new = b.carry[Vue].new],
         [b EXCEPT !.carry = [c \in DOMAIN @ \ {Gin} |-> @[c]]], [b EXCEPT !.type = "another"]}
ASSUME LegacyRecordsNeedTheBridge ==
    /\ Aggregate([Good EXCEPT !.store.bridge = <<>>]) = <<>>
    /\ \A b \in BridgeEdits : Aggregate([Good EXCEPT !.store.bridge = Seal(b)]) = <<>>
    /\ \A b \in BridgeEdits : VerifyBridge(Good, Good.manifest, [ok |-> TRUE, body |-> b]) <=> b.gen2.generation = 1
ASSUME DeclaredCasesAreNotCarried ==
    /\ CarriedIn(CarryOf(Good, Good.manifest)) = ToSet(TheTwelve) \ DeclaredChanged
    /\ BuildBridge([Good EXCEPT !.records[1].hash = <<>>], Good.manifest) = <<>>
ASSUME BridgeCarriesCodeDrift ==
    LET w == Drifted(Good, "rtk-go-vet-oracle-v1")
    IN  Gin \in CarriedIn(CarryOf(w, w.manifest)) /\ VerifyBridge(Refreshed(w), Refreshed(w).manifest, Refreshed(w).store.bridge[1])

-----------------------------------------------------------------------------
(* The closure.                                                            *)

SealedFiles == {"membership", "registry", "scenarios", "contract", "pubenv", "toolchain", "scenario", "overlay", "depsnap", "binid",
          "dialect", "qualification"}
Lost(name) == [Good.store EXCEPT ![name] = <<>>]
ASSUME ClosureNeedsEveryFile ==
    /\ \A n \in SealedFiles : ~ClosureHolds([Good.store EXCEPT ![n] = <<[ok |-> FALSE, body |-> @[1].body]>>])
    /\ \A n \in {"lock", "frozenLock", "frozenGraph", "installed"} : ~ClosureHolds(Lost(n))
    /\ ClosureHolds(Lost("qualification"))
Rebuilt(name, body) == [Good.store EXCEPT ![name] = Seal(body)]
ClosureEdits ==
    LET s == Good.store
        m == Body(s, "membership")  ds == Body(s, "depsnap")  b == Body(s, "binid")
        d == Body(s, "dialect")     q == Body(s, "qualification")
    IN  {Rebuilt("membership", [m EXCEPT !.blocker = TRUE]), Rebuilt("membership", [m EXCEPT !.items[2].case = Tokio]),
         Rebuilt("depsnap", [ds EXCEPT !.snapshots[1].count = 1]), Rebuilt("depsnap", [ds EXCEPT !.run = "diagnostic-run"]),
         Rebuilt("depsnap", [ds EXCEPT !.base = Registry]), Rebuilt("depsnap", [ds EXCEPT !.snapshots[1].lock = "another"]),
         Rebuilt("binid", [b EXCEPT !.roles[1].invoked = b.roles[1].path]), Rebuilt("binid", [b EXCEPT !.roles[1].role = "cargo"]),
         Rebuilt("binid", [b EXCEPT !.roles[2].measured = "another"]), Rebuilt("binid", [b EXCEPT !.run = "another"]),
         Rebuilt("dialect", [d EXCEPT !.streams.raw = d.streams.rtk]), Rebuilt("dialect", [d EXCEPT !.raw.passed = 2]),
         Rebuilt("dialect", [d EXCEPT !.run = "diagnostic-run"]), Rebuilt("dialect", [d EXCEPT !.case = Tokio]),
         Rebuilt("qualification", [q EXCEPT !.acceptance.impl = "diagnostic-impl"]), Rebuilt("qualification", [q EXCEPT !.claimed = FALSE]),
         Rebuilt("qualification", [q EXCEPT !.contract = OldContract]), [s EXCEPT !.qualStreams = CargoStreams(9)],
         [s EXCEPT !.dialectStreams = CargoStreams(2)],
         [s EXCEPT !.frozenGraph[1].host.nodes = {n \in @ : n.id = 1}], [s EXCEPT !.bridge = <<>>]}
ASSUME EditedClosuresAreRefused == \A s \in ClosureEdits : ~ClosureHolds(s)
(* The overlays hold on the contract they were written for, and on its     *)
(* successor only over the bridge.                                         *)
ASSUME OverlaysOutliveTheirContractByTheBridge ==
    /\ ClosureHolds([Good.store EXCEPT !.contract = OldContract, !.bridge = <<>>])
    /\ ~ClosureHolds([Good.store EXCEPT !.bridge = <<>>])

(* The replacement comes whole from its overlays, everything else from the *)
(* base, and the replaced case is in no scope but the base.                *)
ASSUME BundlesNeverMix ==
    /\ LoadCaseBundle(Good.store, Coreutils, "resolved")[1].source = "replacement_overlay"
    /\ LoadCaseBundle(Good.store, Coreutils, "base") = <<>> /\ LoadCaseBundle(Good.store, Tokio, "resolved") = <<>>
    /\ \A c \in ToSet(BaseTwelve), scope \in {"base", "resolved"} :
          LoadCaseBundle(Good.store, c, scope) # <<>> => LoadCaseBundle(Good.store, c, scope)[1].source = "frozen_base"
    /\ \A s \in ClosureEdits, c \in ToSet(TheTwelve) : LoadCaseBundle(s, c, "resolved") = <<>>

-----------------------------------------------------------------------------
(* Qualifying.                                                             *)

Failing(gates, out) == [g \in DOMAIN AllHold(gates) |-> g \notin out]
(* Only a probe that passed every gate can be built upon, and then the     *)
(* record it builds recomputes.                                            *)
ASSUME OnlyObservationsBuild ==
    \A i \in DOMAIN Generics : \A out \in {{}} \cup {{CaseGates[g][1]} : g \in DOMAIN CaseGates} :
        LET probe == Probed(Generics[i], Failing(CaseGates, out))
            built == BuildCase(Bridged, Generics[i], probe.record, probe.evidence, Run("r"))
        IN  IF out = {} THEN built.pass ELSE probe.evidence = [x \in {} |-> 0] /\ built = Refused
ASSUME UnequalStreamsBuildNothing ==
    LET probe == Probed(Lombok, AllHold(CaseGates))
        other == [probe.evidence EXCEPT !.rtk = ReadEvidence("q").rtk]
    IN  /\ BuildCase(Bridged, Lombok, [probe.record EXCEPT !.digests = other], other, Run("r")) = Refused
        /\ BuildCase(Bridged, Lombok, probe.record, other, Run("r")) = Refused
(* The case is named by the caller: what was observed on one files-read    *)
(* case builds, and passes, as the other.                                  *)
ASSUME AnotherCasesObservationBuilds ==
    LET probe == Probed(Lombok, AllHold(CaseGates))
    IN  BuildCase(Bridged, Preact, probe.record, probe.evidence, Run("r")).pass

(* A dispatch builder writes before it recomputes: evidence that is not    *)
(* what was observed leaves a refused record, which stops the aggregation  *)
(* until someone removes it.  Only the log builder compares the two.       *)
OtherEvidence(g) ==
    CASE g = 2 -> [rtk |-> [summary |-> TRUE, totals |-> [Totals EXCEPT !.error = 9]]]
      [] g = 3 -> [ShowEvidence EXCEPT !.shortstat = <<2, 2, 1>>]
      [] g = 4 -> [CommitEvidence EXCEPT !.rtkHead = ObjectId(6)]
      [] g = 5 -> [ImageEvidence EXCEPT !.rows = <<>>]
ASSUME RefusedRecordsStay ==
    \A g \in 2..5 :
        LET built == BuiltDispatch(g, Seen, OtherEvidence(g), Run("r"))
            after == [Good EXCEPT !.records[5 + g + 1] = built.written[1], !.evidence[Dispatched[g - 1]] = OtherEvidence(g)]
        IN  IF g = 2 THEN built = Refused
            ELSE built.written # <<>> /\ ~built.pass /\ Aggregate(after) = <<>>
ASSUME BarredRunsBuildNothing ==
    \A g \in 2..5 : BuiltDispatch(g, Seen, EvidenceOf(Dispatched[g - 1]), [Run("r") EXCEPT !.impl = "diagnostic-impl"]) = Refused

(* A coreutils qualification that no longer matches -- or that was refused *)
(* after it was written -- breaks the closure the next probe, verification *)
(* and build ask for: nothing can be requalified until it is deleted.      *)
ASSUME StaleQualificationBlocksItsSuccessor ==
    LET stale == [Good EXCEPT !.store.qualStreams = CargoStreams(9)]
        clear == [stale EXCEPT !.store.qualification = <<>>]
    IN  /\ CoreutilsSeen(stale).outcome = "COREUTILS_QUAL_CLOSURE_FAILURE"
        /\ ~VerifyCoreutils(stale, CoreutilsSeen(clear), Repetitions(10)) /\ CoreutilsBuilt(stale, 10, Run("r")) = Refused
        /\ CoreutilsSeen(clear).outcome = CoreutilsObserved /\ CoreutilsBuilt(clear, 10, Run("r")).pass
(* The builder takes any run; only the loader refuses a barred one.        *)
ASSUME BarredCoreutilsRunIsWrittenAndRefused ==
    LET built == CoreutilsBuilt(Bridged, 10, Run("diagnostic-run"))
        after == [Bridged.store EXCEPT !.qualification = Seal(built.written[1]), !.qualStreams = CargoStreams(10)]
    IN  built.written # <<>> /\ ~built.pass /\ ~ClosureHolds(after)
ASSUME OtherCountsNeverQualify == \A n \in 0..12 : CoreutilsBuilt(Bridged, n, Run("r")).pass <=> n = 10
=============================================================================
