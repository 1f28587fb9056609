---------------------------- MODULE MCIdentityLock ----------------------------
(***************************************************************************)
(* The identity lock from the capture of a pair to the closure.  The       *)
(* workspaces of the capture jobs end with their run: once the pair is     *)
(* accepted and its evidence recorded, only the records change.            *)
(*                                                                         *)
(* Before it, what the source freeze, the canonicalizers, the gates of a   *)
(* capture, the pair and matrix verifiers and the token measurement        *)
(* compute, checked over the real registry and over bounded inputs.        *)
(***************************************************************************)
EXTENDS EvidenceChain, PilotPair, SourceRegistry, TLC

-----------------------------------------------------------------------------
(* The selection over the real registry, the acquisition, the acceptance   *)
(* of the matrix and the token measurement.                                *)

A == INSTANCE SourceAcquisition
S == INSTANCE Stage2Acceptance
T == INSTANCE TokenMeasurement WITH Cases <- {"c", "d", "u"}, NonUtf8Cases <- {"u"}

Ids(seq) == [i \in DOMAIN seq |-> seq[i].id]
Chosen(candidates) == RunSelection(Eligible(candidates), SelectionPolicy, QuotaContract)

(* The selection of the real registry is the one its record keeps: final,  *)
(* with two swaps for the dotnet minimum, and repo-helm-values, thirteenth *)
(* of the alternates, as the replacement.                                  *)
ASSUME SelectionReproducesItsRecord ==
    LET s == Chosen(Candidates)
    IN  /\ s.status = "FINAL" /\ s.enoughAlternates /\ Unfilled(s.plan) = {} /\ s.toppedUp = <<>>
        /\ s.swaps = <<[removed |-> "repo-terraform-example-module", added |-> "repo-kubeops-generator"],
                       [removed |-> "ci-log-nlohmann-json", added |-> "ci-log-nlog"]>>
        /\ SubSeq(Ids(s.primary), 1, 8) = <<"repo-hyperfine", "repo-rustlings", "repo-moshi", "repo-docker-java-parser",
               "repo-pyflakes", "repo-requests", "repo-dockerfile-parser-rs", "repo-spotless">>
        /\ Ids(s.alternates)[13] = "repo-helm-values" /\ Len(s.alternates) = 20
        /\ Ids(Considered(s)) = <<"repo-helm-values", "repo-detekt">>
        /\ LET made == BuildReplacement("files", "eligible", s, "asset")
           IN  /\ made # <<>> /\ VerifyReplacement(made[1], "files", "eligible", s, [c \in {"repo-helm-values"} |-> "asset"])
               /\ ~VerifyReplacement(made[1], "other files", "eligible", s, [c \in {"repo-helm-values"} |-> "asset"])

(* Before the first acquisition no repository has its tree.  The choice is *)
(* the same when all trees are folded in, or none; when the acquisition of *)
(* one of the chosen fails, the score of the others rises above its own    *)
(* and another selection comes out.                                        *)
WithTree(candidates, has(_)) ==
    {IF c.kind = "repository-execution" THEN [c EXCEPT !.tree = IF has(c.id) THEN "sha" ELSE "none"] ELSE c : c \in candidates}
ASSUME FoldingOneFailureMovesTheSelection ==
    LET before == Chosen(WithTree(Candidates, LAMBDA id : FALSE))
        partly == Chosen(WithTree(Candidates, LAMBDA id : id # "repo-hyperfine"))
    IN  /\ Ids(before.primary) = Ids(Chosen(Candidates).primary)
        /\ {c.id : c \in Range(partly.primary)} # {c.id : c \in Range(before.primary)}

-----------------------------------------------------------------------------
(* A small pool: every subset of seven candidates of two buckets. *)

Small(id, ecosystem, origin, tie) ==
    [RepoCandidate(id, ecosystem, "test", tie) EXCEPT !.bucket = origin]
Pool == {Small("a", "rust", "x", 1), Small("b", "rust", "x", 2), Small("c", "dotnet", "x", 3), Small("d", "dotnet", "y", 4),
         Small("e", "python", "y", 5), Small("f", "rust", "y", 6), Small("g", "python", "x", 7)}
SmallContract ==
    [primaryTarget |-> 4, minAlternates |-> 1, quotas |-> [bucket |-> "x" :> 2 @@ "y" :> 1],
     originTargets |-> "repository-miner" :> 4, familyTargets |-> "test" :> 4,
     minimums |-> "dotnet" :> 1 @@ "python" :> 1 @@ "rust" :> 1, nameOrder |-> "dotnet" :> 0 @@ "python" :> 1 @@ "rust" :> 2]
Bucketed(seq) == [b \in {"x", "y"} |-> CountIn(seq, "bucket", b)]

(* Whatever the pool: nothing is lost or chosen twice, the plan fills no   *)
(* quota twice over, a swap keeps the count of every bucket, and a minimum *)
(* that was met stays met.                                                 *)
ASSUME SelectionPartitionsItsPool ==
    \A pool \in SUBSET Pool :
        LET s == RunSelection(pool, SelectionPolicy, SmallContract)
            before == s.plan.proposed \o s.toppedUp
        IN  /\ Range(s.primary) \cap Range(s.alternates) = {} /\ Range(s.primary) \cup Range(s.alternates) = pool
            /\ Len(s.primary) + Len(s.alternates) = Cardinality(pool)
            /\ CountIn(s.plan.proposed, "bucket", "x") <= 2 /\ CountIn(s.plan.proposed, "bucket", "y") <= 1
            /\ Bucketed(s.primary) = Bucketed(before)
            /\ Unmet(s.primary, "ecoGroup", SmallContract.minimums, FALSE)
                   \subseteq Unmet(before, "ecoGroup", SmallContract.minimums, FALSE)

(* A report names the first rule that fails, and no rule set applies to a  *)
(* runtime dataset that says it is a repository's.                         *)
ASSUME ReportsNameTheFirstFailure ==
    LET c == RepoCandidate("a", "rust", "test", 1)
        of(d) == Evaluate(d)[1].reason
    IN  /\ of(c) = "none" /\ of([c EXCEPT !.commit = "ref"]) = "not_floating_ref"
        /\ of([c EXCEPT !.commit = "short", !.entry = FALSE]) = "has_immutable_commit"
        /\ of([c EXCEPT !.license.redistribution = "no"]) = "none"
        /\ of([c EXCEPT !.license.redistribution = "no", !.ecosystem = InfraNeutral]) = "redistribution_basis_clear"
        /\ Evaluate([c EXCEPT !.ecosystem = "go"]) = <<>>
        /\ \A d \in ArtifactCandidates : Evaluate(d)[1].eligible = ~d.gated
        /\ \A d \in RejectedCandidates : of(d) = "has_explicit_license"

(* A candidate that was ineligible, or frozen, is selected again only by a *)
(* step that gives a reason and a version of its own.                      *)
Statuses == {"discovered", "inspected", "eligible", "ineligible", "frozen"} \cup SelectedStatuses
ASSUME NoSilentRevival ==
    \A mid, end \in Statuses, v \in {1, 2}, o \in {<<>>, <<"">>, <<"r">>} :
        LET at(s, version, override) == [status |-> s, version |-> version, override |-> override]
            history(first) == <<at(first, 1, <<>>), at(mid, v, o), at(end, v, <<>>)>>
        IN  \A first \in {"ineligible", "frozen"} :
                ValidHistory(history(first), end, AllowedTransitions, RestrictedTransitions) => v = 2 /\ o = <<"r">>

-----------------------------------------------------------------------------
(* Acquisition. *)

Paths == SeqOf({"a", "..", "."}, 4) \ {<<>>}
Depth(path) == FoldLeft(LAMBDA d, p : IF p = "." THEN d ELSE IF p = ".." THEN d - 1 ELSE d + 1, 0, path)
Name(path) == [absolute |-> FALSE, drive |-> FALSE, path |-> path]
(* A link leaves the root exactly when, followed from where it lies, some  *)
(* prefix of it climbs higher than the root.                               *)
ASSUME EscapesAreFound ==
    \A path \in Paths : \A at \in {<<"l">>, <<"a", "l">>} :
        A!EscapesRoot(Name(at), Name(path)) = \E n \in 1..Len(path) : Len(at) - 1 + Depth(SubSeq(path, 1, n)) < 0
(* The same link in a zip is not looked at. *)
Link == [kind |-> "link", name |-> Name(<<"l">>), link |-> Name(<<"..", "a">>), encrypted |-> FALSE]
ASSUME ZipLinksAreNotInspected ==
    LET archive(t) == [type |-> t, readable |-> TRUE, members |-> {Link}]
    IN  ~A!SafeArchive(archive("tar")) /\ A!SafeArchive(archive("zip"))

Job(id, duration) == [id |-> id, duration |-> duration]
Response(jobs, logs) == [jobs |-> jobs, logs |-> logs, commit |-> <<"c">>, metadata |-> jobs]
CiCase(jobs) == [id |-> "ci", kind |-> "ci-run-artifact", jobs |-> jobs]
(* A job that was locked in is acquired again or nothing is: when upstream *)
(* has dropped it, or its log, no other takes its place.                   *)
ASSUME LockedJobIsNeverReplaced ==
    \A jobs \in SUBSET {Job(1, 5), Job(2, 9), Job(3, -1)}, logged \in SUBSET {1, 2, 3} :
        LET got(locked) == A!AcquireCiRun(CiCase(locked), Response(jobs, [i \in logged |-> <<"log", i>>]))
        IN  /\ \A i \in {1, 2, 3} : got(<<i>>) # <<>> => got(<<i>>)[1].jobs = <<i>> /\ got(<<i>>)[1].content = <<<<"log", i>>>>
            /\ (\A j \in jobs : j.id # 2) => got(<<2>>) = <<>>
            /\ got(<<>>) # <<>> => got(<<>>)[1].jobs = <<IF Job(2, 9) \in jobs THEN 2 ELSE IF Job(1, 5) \in jobs THEN 1 ELSE 3>>

Values == {<<>>, <<"v">>, <<"w">>}
Identity == [metadata : Values, content : Values, normalized : Values]
(* Folding the same results twice changes nothing more; a value once       *)
(* locked never changes, drift or not; and what is new is locked.          *)
ASSUME FoldingIsALock ==
    \A identity \in Identity, c \in Values, n \in Values :
        LET registry == [ds |-> [kind |-> "dataset-artifact", identity |-> identity]]
            result == [id |-> "ds", metadata |-> <<"v">>, content |-> c, normalized |-> n]
            once == A!FoldOrVerify(registry, <<result>>)
            twice == A!FoldOrVerify(once.registry, <<result>>)
        IN  /\ twice.registry = once.registry /\ twice.updated = {} /\ twice.drift = once.drift
            /\ \A f \in DOMAIN identity : identity[f] # <<>> => once.registry["ds"].identity[f] = identity[f]
            /\ once.drift = {} => \A f \in DOMAIN identity : result[f] = <<>> \/ once.registry["ds"].identity[f] = result[f]

(* A receipt says complete of a case whose manifest was never written, and *)
(* the manifest of a case that changed roles stays where it was.           *)
ASSUME CompleteIsOfTheRegistryOnly ==
    LET registry == [r |-> [kind |-> "repository-execution", identity |-> [archive |-> <<"x">>]]]
        empty == [manifests |-> {}, records |-> {}]
        made(role) == A!GenerateAll(empty, [r |-> role], [r |-> TRUE], [r |-> TRUE])
        moved == A!GenerateAll(made("alternate"), [r |-> "primary"], [r |-> TRUE], [r |-> TRUE])
    IN  /\ A!FreezeReceipt(registry, {"r"}, <<>>, empty).complete /\ A!FreezeReceipt(registry, {"r"}, <<>>, empty).manifests = {}
        /\ moved.manifests = {<<"alternate", "r">>, <<"primary", "r">>}
        /\ A!FreezeReceipt(registry, {"r"}, <<>>, made("alternate")).manifests = {}

(* Two receipts that both lack a required field do not agree on it.        *)
ASSUME AbsenceIsNotAgreement ==
    \A a, b \in {<<>>, <<"">>, <<"none">>, <<"h">>} :
        A!Reproducible([sha |-> a], [sha |-> b], {"sha"}, {"sha"}) = (a = <<"h">> /\ b = <<"h">>)

-----------------------------------------------------------------------------
(* The acceptance of the matrix. *)

Manifest(entries) ==
    S!SealedBody([run |-> S!RunId, head |-> S!Trigger, branch |-> S!TriggerBranch, entries |-> entries])
AllNames == S!CaptureNames \cup S!PairNames \cup S!OtherNames
Changed(sign, text) == [sign |-> sign, text |-> text, headerLike |-> FALSE]
Patch == [files |-> {S!WorkflowFile}, lines |-> <<Changed("+", "push:"), Changed("+", S!TriggerBranch)>>]
World ==
    [git |-> [commits |-> {S!BaseMain, S!Implementation, S!Trigger, "head"}, head |-> "head",
              ancestors |-> [c \in {S!BaseMain, S!Implementation, S!Trigger, "head"} |->
                  CASE c = S!BaseMain -> {c} [] c = S!Implementation -> {c, S!BaseMain}
                    [] c = S!Trigger -> {c, S!Implementation, S!BaseMain} [] c = "head" -> {c, S!Implementation, S!BaseMain}]],
     replacement |-> S!SealedBody([replacement |-> "repo-helm-values", rejected |-> "repo-spotless"]), replacementHolds |-> TRUE,
     jobs |-> Manifest(S!JobEntries(AllNames)), artifacts |-> Manifest(S!Artifacts(AllNames)),
     policies |-> [p \in S!PolicyNames |-> <<"policy", p>>], pinned |-> [p \in S!PolicyNames |-> <<"policy", p>>],
     intact |-> [p \in S!PolicyNames |-> TRUE], patch |-> Patch]
AcceptedRecord == S!BuildRecord(World, [c \in S!RequiredCases |-> <<"input", c>>])
SealedAgain(body) == S!SealedBody(body)

(* What the builder writes, the verifier accepts; an edit of any field it  *)
(* reads is refused, unsealed or sealed again.                             *)
ASSUME MatrixRecordHolds == S!BuildPossible(World) /\ S!Verify(AcceptedRecord, World)
ASSUME MatrixEditsAreRefused ==
    LET b == AcceptedRecord.body
        altered == {[b EXCEPT !.status = "REJECTED"], [b EXCEPT !.tested = S!Trigger], [b EXCEPT !.workflow.conclusion = "failure"],
                  [b EXCEPT !.inPullRequest = TRUE], [b EXCEPT !.pairJobs = b.jobs], [b EXCEPT !.notYet["tokens"] = TRUE],
                  [b EXCEPT !.jobs = (b.jobs \ {CHOOSE j \in b.jobs : TRUE}) \cup {CHOOSE j \in b.pairJobs : TRUE}],
                  [b EXCEPT !.artifacts = {[a EXCEPT !.digest = <<"malformed">>] : a \in b.artifacts}],
                  [b EXCEPT !.policies["maven"] = <<"other">>], [b EXCEPT !.claims.unexplained = {"x"}],
                  [b EXCEPT !.cases["repo-moshi"].input["capture_b"] = <<"other">>], [b EXCEPT !.final["repo-moshi"] = <<"other">>],
                  [b EXCEPT !.requests.summary["capture_a"].counts = "passed" :> 619], [b EXCEPT !.requests.replacements = 2],
                  [b EXCEPT !.sinkApprovals["repo-requests"] = S!NetworkApproval], [b EXCEPT !.replacement.record.rejected = "other"],
                  [b EXCEPT !.manifests.jobs.run = "other"], [b EXCEPT !.rederivation["repo-moshi"]["identical"] = FALSE]}
    IN  \A e \in altered : ~S!Verify([AcceptedRecord EXCEPT !.body = e], World) /\ ~S!Verify(SealedAgain(e), World)
(* A world that moved under the record is refused: a policy on disk, a     *)
(* manifest, a trigger merged into the history.                            *)
ASSUME MovedWorldIsRefused ==
    \A w \in {[World EXCEPT !.policies["maven"] = <<"edited">>], [World EXCEPT !.intact["maven"] = FALSE],
               [World EXCEPT !.jobs = Manifest(S!JobEntries(S!CaptureNames))], [World EXCEPT !.replacementHolds = FALSE],
               [World EXCEPT !.git.ancestors["head"] = @ \cup {S!Trigger}], [World EXCEPT !.patch.lines = Append(@, Changed("+", "run:"))]} :
        ~S!Verify(AcceptedRecord, w)
(* What the record says of the artifact of a capture, nothing compares     *)
(* with the artifacts of the run; and a removed line that reads like a     *)
(* file header is not seen in the patch.                                   *)
ASSUME UncheckedEditsPass ==
    /\ S!Verify(SealedAgain([AcceptedRecord.body EXCEPT !.cases["repo-moshi"].artifact["capture_a"] = <<"other">>]), World)
    /\ LET patch == [Patch EXCEPT !.lines = Append(@, [sign |-> "-", text |-> "-- old", headerLike |-> TRUE])]
       IN  S!PatchHolds(patch) /\ S!BuildPatchProof(patch, S!WorkflowFile, S!TriggerLines) # <<>>

-----------------------------------------------------------------------------
(* The token measurement: three cases, "u" the one that may be refused. *)

Encoded(in, out, restored) == [exit |-> 0, out |-> <<"bytes", in, out>>, tin |-> in, tout |-> out, encoded |-> out < in,
                               restored |-> restored, nonUtf8 |-> FALSE]
Refusal == [Encoded(0, 0, TRUE) EXCEPT !.exit = 2, !.nonUtf8 = TRUE]
Filtered(exit) == [exit |-> exit, out |-> "filtered"]
Row(case, leg, in, out) == T!MeasureCaseLeg(case, leg, case, Encoded(in, out, TRUE), Filtered(0), Encoded(in, out, TRUE))[1]
NotText(leg) == T!MeasureCaseLeg("u", leg, "u", Refusal, Filtered(0), Refusal)[1]
Rows(a, b) == {Row("c", "a", 4, a), Row("c", "b", 4, a), Row("d", "a", 6, b), Row("d", "b", 6, b), NotText("a"), NotText("b")}

(* A case that is not authorised to be refused, a filter that fails, or a  *)
(* round trip that loses something leaves no row.                          *)
ASSUME OnlyForeseenRowsAreWritten ==
    /\ T!MeasureCaseLeg("c", "a", "c", Refusal, Filtered(0), Refusal) = <<>>
    /\ T!MeasureCaseLeg("c", "a", "c", Encoded(4, 2, TRUE), Filtered(1), Encoded(4, 2, TRUE)) = <<>>
    /\ T!MeasureCaseLeg("c", "a", "c", Encoded(4, 2, FALSE), Filtered(0), Encoded(4, 2, TRUE)) = <<>>
    /\ T!MeasureCaseLeg("c", "a", "c", Encoded(4, 2, TRUE), Filtered(0), Encoded(4, 2, FALSE)) = <<>>
    /\ NotText("a").status = "UNMEASURABLE_NON_UTF8"

(* The weighted saving of a benchmark is of the totals of its measured     *)
(* cases, and the supplement's point is that saving.                       *)
ASSUME WeightedSavingIsOfTheTotals ==
    \A a \in 0..4, b \in 0..6 :
        LET made == T!BuildBenchmark(T!PairsOf(Rows(a, b))[1])[1]
            more == T!BuildSupplement(made, {<<"c", "d">>, <<"c", "c">>, <<"d", "d">>})[1]
        IN  /\ made.arms["qodec"].weighted = <<10 - a - b, 10>> /\ more.point["qodec"] = made.arms["qodec"].weighted
            /\ made.corpus.measurable = 2 /\ made.corpus.refusals = 1
            /\ more.spread["qodec"] = {<<10 - a - b, 10>>, <<8 - 2 * a, 8>>, <<12 - 2 * b, 12>>}

(* Two legs that differ in any number, or in whether they were refused,    *)
(* make no benchmark; nor does a case with one leg, or a missing case.     *)
ASSUME DisagreeingLegsMakeNoBenchmark ==
    LET rows == Rows(2, 3)
        swapped(old, new) == (rows \ {old}) \cup {new}
        benchmark(r) == LET pairs == T!PairsOf(r) IN IF pairs = <<>> THEN <<>> ELSE T!BuildBenchmark(pairs[1])
    IN  /\ benchmark(rows) # <<>>
        /\ \A n \in 0..4 : n # 2 => benchmark(swapped(Row("c", "b", 4, 2), Row("c", "b", 4, n))) = <<>>
        /\ benchmark(swapped(NotText("b"), Row("u", "b", 4, 2))) = <<>>
        /\ benchmark((swapped(NotText("a"), Row("u", "a", 4, 2)) \ {NotText("b")}) \cup {Row("u", "b", 4, 2)}) = <<>>
        /\ benchmark(rows \ {NotText("b")}) = <<>> /\ benchmark(rows \ {NotText("a"), NotText("b")}) = <<>>

(* The canary calls a case deterministic only when every repetition of     *)
(* both legs gave the same; one in which the filter failed never does,     *)
(* even when it fails every time.                                          *)
ASSUME CanaryNeedsEveryRepetition ==
    \A x, y, z \in {2, 3}, f \in {0, 1} :
        LET rep(n) == T!RunOneRepetition(Encoded(4, n, TRUE), Filtered(f), Encoded(4, n, TRUE))
            a == T!RunLeg("a", <<rep(x), rep(y)>>)
            b == T!RunLeg("b", <<rep(z), rep(z)>>)
        IN  T!CombineLegs(a, b).all = (f = 0 /\ x = y /\ y = z)

-----------------------------------------------------------------------------
(* The canonicalizers, the capture and the pair verifier. *)

Hit(trigger, token) == [trigger |-> trigger, token |-> token]
Line(kept, whole, hits, nl) == [kept |-> kept, whole |-> whole, hits |-> hits, nl |-> nl]
Text(lines) == [utf8 |-> TRUE, lines |-> lines]

MavenLines ==
    {Line(<<k>>, w, h, TRUE) : k \in {"x"}, w \in BOOLEAN,
       h \in {<<>>, <<Hit("compile in ", "0.1")>>, <<Hit("compile in ", "12.34")>>, <<Hit("compile in ", Elapsed)>>,
              <<Hit("compile in ", "soon")>>, <<Hit("Time elapsed:", "0.1")>>,
              <<Hit("compile in ", "0.1"), Hit("Time elapsed:", "0.1")>>, <<Hit("Finished at:", "0.1")>>}}
MavenTexts == {Text(<<a, b>>) : a, b \in MavenLines} \cup {[utf8 |-> FALSE, lines |-> <<>>]}

(* Canonicalizing twice changes nothing more. *)
ASSUME MavenIsIdempotent ==
    \A t \in MavenTexts : CanonicalizeMaven(t).ok =>
        LET again == CanonicalizeMaven(Text(CanonicalizeMaven(t).lines))
        IN  again.ok /\ again.lines = CanonicalizeMaven(t).lines /\ again.replaced = {}

(* Two accepted captures are equal afterwards exactly when they differ in  *)
(* volatile tokens only: the kept pieces and the places are never merged.  *)
Erased(t) == [i \in DOMAIN t.lines |->
                [t.lines[i] EXCEPT !.hits = [j \in DOMAIN @ |-> [trigger |-> @[j].trigger, token |-> "*"]]]]
ASSUME MavenMergesNothingElse ==
    \A t, u \in MavenTexts : (CanonicalizeMaven(t).ok /\ CanonicalizeMaven(u).ok) =>
        ((CanonicalizeMaven(t).lines = CanonicalizeMaven(u).lines) <=> (Erased(t) = Erased(u)))

(* A line that is detected and is not of the required form refuses the     *)
(* capture, whatever the rest of it says.                                  *)
ASSUME OddLinesRefuse ==
    \A t \in MavenTexts : (\E i \in DOMAIN t.lines : t.lines[i].hits # <<>> /\ ~t.lines[i].whole)
                          => ~CanonicalizeMaven(t).ok
ASSUME CargoKeepsVerdicts ==
    \A v, w \in {"1 passed", "2 passed"} :
       LET of(x, d) == CanonicalizeCargo(Text(<<Line(<<x>>, TRUE, <<Hit("test result: ", d)>>, TRUE)>>))
       IN  (of(v, "12.34").lines = of(w, Elapsed).lines) <=> v = w

(* The two generations of the pytest rules: the rejected one rewrote what  *)
(* the accepted one leaves alone.                                          *)
AddressLine(token) == Line(<<"obj">>, TRUE, <<Hit(" at 0x", token)>>, TRUE)
ASSUME RejectedRulesHideAddresses ==
    /\ CanonicalizeRejectedPytest(Text(<<AddressLine("7f01")>>)).lines = <<AddressLine("0xADDR")>>
    /\ ~CanonicalizeRejectedPytest(Text(<<AddressLine("7F01")>>)).ok
    /\ CanonicalizePytestDuration(Text(<<AddressLine("7f01")>>)).lines = <<AddressLine("7f01")>>

-----------------------------------------------------------------------------
(* Gradle. *)

Banner(token) == Line(<<"BUILD SUCCESSFUL">>, TRUE, <<[trigger |-> "BUILD SUCCESSFUL in ", token |-> token]>>, TRUE)
Took(d) == [kind |-> "duration", duration |-> d]
Truncated == [kind |-> "truncated", duration |-> Unprinted]
Instants == {0, 7, 999, 1000, 1001, 59999, 60000, 61000, 3599999, 3600000, 3601000, 3660000, 7384005}
GridUnits == {-1, 0, 1, 59, 60}
Grid == [h : GridUnits, m : GridUnits, s : GridUnits, ms : {-1, 0, 999, 1000}]

(* Every duration Gradle prints is of the second grammar; some are not of  *)
(* the first; and a day's grammar admits nothing Gradle would not print.   *)
ASSUME GrammarIsTheFormatter ==
    /\ \A ms \in Instants : FormatDurationTerse(ms) \in GradleDurationsV2
    /\ \E ms \in Instants : FormatDurationTerse(ms) \notin GradleDurationsV1
    /\ \A d \in Grid : d \in GradleDurationsV2 =>
         LET of(u) == IF u = -1 THEN 0 ELSE u
         IN  FormatDurationTerse(of(d.ms) + 1000 * of(d.s) + 60000 * of(d.m) + 3600000 * of(d.h)) = d

(* A banner cut before its duration is refused, except by version 1. *)
ASSUME CutBanners ==
    /\ CanonicalizeGradleV1(Text(<<Banner(Truncated)>>)).ok
    /\ ~CanonicalizeGradleV2(Text(<<Banner(Truncated)>>)).ok
    /\ ~CanonicalizeGradleHelmValues(Text(<<Banner(Truncated)>>)).ok
ASSUME GradleIsIdempotent ==
    \A ms \in Instants :
       LET once == CanonicalizeGradleV2(Text(<<Banner(Took(FormatDurationTerse(ms)))>>))
       IN  once.ok /\ CanonicalizeGradleV2(Text(once.lines)).lines = once.lines

-----------------------------------------------------------------------------
(* The completion pair of kubeops. *)

Project(p) == Line(<<p>>, TRUE, <<>>, TRUE)
G == Project(MsbuildProjectOrder[1])
E == Project(MsbuildProjectOrder[2])
Blank == Line(<<>>, TRUE, <<>>, TRUE)
Other == Line(<<"warning">>, TRUE, <<>>, TRUE)
NoNewline(l) == [l EXCEPT !.nl = FALSE]
VstestTexts == {Text(s) : s \in UNION {[1..n -> {G, E, Blank, Other, NoNewline(G)}] : n \in 1..3}}

(* With an ending on every line the swap is undone by nothing: the result  *)
(* is stable and is a permutation of the input.                            *)
ASSUME SwapIsIdempotent ==
    \A t \in VstestTexts : (CanonicalizeVstest(t).ok /\ \A i \in DOMAIN t.lines : t.lines[i].nl) =>
        LET once == CanonicalizeVstest(t).lines
        IN  /\ CanonicalizeVstest(Text(once)).ok /\ CanonicalizeVstest(Text(once)).lines = once
            /\ \A l \in {G, E, Blank, Other} : Cardinality({i \in DOMAIN once : once[i] = l})
                                               = Cardinality({i \in DOMAIN t.lines : t.lines[i] = l})

(* Without one on the last line, the swap glues two lines. *)
ASSUME SwapGlues ==
    LET once == CanonicalizeVstest(Text(<<E, NoNewline(G)>>))
    IN  once.ok /\ Len(Joined(once.lines)) = 1
ASSUME OtherLinesBetweenRefuse == ~CanonicalizeVstest(Text(<<E, Other, G>>)).ok /\ CanonicalizeVstest(Text(<<E, Blank, G>>)).ok

-----------------------------------------------------------------------------
(* Policies. *)

Edits(p) == {[p EXCEPT !.body.type = "other"], [p EXCEPT !.body.cases = {}], [p EXCEPT !.body.rules = {}]}
Resealed(p) == [p EXCEPT !.seal = p.body]

(* Each verifier accepts what its builder writes and nothing edited by     *)
(* hand; resealed, an edit of the type alone passes where it is not pinned. *)
ASSUME BuiltPoliciesHold ==
    /\ MavenPolicyHolds(MavenPolicy) /\ GradlePolicyV1Holds(GradlePolicyV1) /\ GradlePolicyV2Holds(GradlePolicyV2)
    /\ GradlePolicyHelmValuesHolds(GradlePolicyHelmValues) /\ CargoPolicyHolds(CargoPolicy)
    /\ VstestPolicyHolds(VstestPolicy) /\ PytestDurationPolicyHolds(PytestDurationPolicy)
    /\ RejectedPytestPolicyHolds(RejectedPytestPolicy)
ASSUME EditedPoliciesDoNot ==
    /\ \A e \in Edits(MavenPolicy) : ~MavenPolicyHolds(e)
    /\ \A e \in Edits(GradlePolicyV1) : ~GradlePolicyV1Holds(e)
    /\ \A e \in Edits(GradlePolicyV2) : ~GradlePolicyV2Holds(e) /\ ~GradlePolicyV2Holds(Resealed(e))
    /\ \A e \in Edits(CargoPolicy) : ~CargoPolicyHolds(e) /\ ~CargoPolicyHolds(Resealed(e))
    /\ \A e \in Edits(VstestPolicy) : ~VstestPolicyHolds(e)
    /\ \A e \in Edits(PytestDurationPolicy) : ~PytestDurationPolicyHolds(e)
    /\ \A e \in Edits(RejectedPytestPolicy) : ~RejectedPytestPolicyHolds(Resealed(e))
    /\ VstestPolicyHolds(Resealed([VstestPolicy EXCEPT !.body.type = "other"]))
(* One policy's rules never satisfy another's verifier. *)
ASSUME PoliciesAreNotInterchangeable ==
    /\ ~GradlePolicyV2Holds(GradlePolicyHelmValues) /\ ~GradlePolicyHelmValuesHolds(GradlePolicyV2)
    /\ ~PytestDurationPolicyHolds(RejectedPytestPolicy) /\ ~GradlePolicyV1Holds(GradlePolicyV2)
    /\ RejectionRecord(RejectedPytestPolicy, "v1", "run").rejected = RejectedPytestPolicy

-----------------------------------------------------------------------------
(* Jobs, and the pair verifier on two captures made whole.                 *)

Timed(kept, token) == Text(<<Line(<<kept>>, TRUE, <<Hit("compile in ", token)>>, TRUE)>>)
Toolchain(version) == [missing |-> {}, requested |-> "17", resolved |-> version, inRange |-> TRUE, executable |-> "java"]
Good == [name |-> "job", case |-> "repo-docker-java-parser", ecosystem |-> "jvm-maven", venv |-> FALSE, ambientOpts |-> {},
         lockfile |-> "not-required", archive |-> "sha", pinnedArchive |-> "sha", erratum |-> <<>>, frozenArgv |-> <<"mvn">>,
         toolchain |-> Toolchain("17"), setup |-> TRUE, probes |-> <<>>, argv0Exists |-> TRUE,
         output |-> Timed("built", "0.1"), errors |-> <<>>, exit |-> 0, infra |-> FALSE, traceback |-> FALSE,
         marker |-> TRUE, counts |-> <<>>]
MCJobs == {Good,
           [Good EXCEPT !.output = Timed("built", "12.34")],
           [Good EXCEPT !.output = Timed("failed", "0.1")],
           [Good EXCEPT !.exit = 126],
           [Good EXCEPT !.toolchain = Toolchain("18")]}

(* The pair verifier on two captures made whole. *)
Made(job, p) == FoldLeft(LAMBDA dir, w : [dir EXCEPT ![w.file] = File(w.content)], EmptyDir, Writes(job, p))
Vstest(lines) == [Good EXCEPT !.case = "repo-kubeops-generator", !.ecosystem = "dotnet",
                              !.probes = [external |-> [parsed |-> TRUE, reached |-> {}], loopback |-> [parsed |-> TRUE, ok |-> TRUE]],
                              !.output = Text(lines)]

(* A pair whose completion lines come in different orders canonicalizes to *)
(* the same bytes, as the structural rule was written for; and the pair    *)
(* verifier still never accepts it, since only replacements explain a      *)
(* difference.  The same capture twice is accepted.                        *)
ASSUME SwappedPairIsNeverAccepted ==
    LET ab == Made(Vstest(<<G, E>>), VstestPolicy)
        ba == Made(Vstest(<<E, G>>), VstestPolicy)
    IN  /\ ab.receipt.content.canonical = ba.receipt.content.canonical
        /\ CaptureValid(ab, VstestPolicy, TRUE) /\ CaptureValid(ba, VstestPolicy, TRUE)
        /\ ~VerifyPair(ab, ba, VstestPolicy, TRUE) /\ VerifyPair(ab, ab, VstestPolicy, TRUE)

(* Beyond the cap only the diff of the raw texts speaks: one capture may   *)
(* have a whole replaced line more than the other, where no canonical byte *)
(* is compared.  Within the cap it may not.                                *)
ASSUME TailsMayDifferInLength ==
    LET timed == Timed("built", "0.1").lines
        of(lines) == Made([Good EXCEPT !.output = Text(lines)], MavenPolicy)
        kept == [i \in 1..ByteCap |-> Other]
        short == [i \in 1..(ByteCap - 1) |-> Other]
    IN  /\ VerifyPair(of(kept), of(kept \o timed), MavenPolicy, TRUE)
        /\ ~VerifyPair(of(short), of(short \o timed), MavenPolicy, TRUE)

(* Negative probes that print nothing readable pass as blocked. *)
Probes(p, r) == [external |-> [parsed |-> p, reached |-> r], loopback |-> [parsed |-> TRUE, ok |-> TRUE],
                 sink |-> [parsed |-> TRUE, ok |-> TRUE]]
ASSUME UnreadableProbesPass ==
    /\ NetworkVerified(Probes(FALSE, {"8.8.8.8"})) /\ SinkVerified(Probes(FALSE, {}))
    /\ ~NetworkVerified(Probes(TRUE, {"8.8.8.8"})) /\ ~SinkVerified(Probes(TRUE, {"8.8.8.8"}))

(* The gates, one by one. *)
Gradle == [Good EXCEPT !.case = "repo-moshi", !.ecosystem = "jvm-gradle", !.probes = Probes(TRUE, {}),
                       !.output = Text(<<Banner(Took(FormatDurationTerse(61000)))>>)]
ASSUME GatesStop ==
    /\ BeforeTheRun([Gradle EXCEPT !.ambientOpts = {"org.gradle.workers.max"}]).gate = "scheduling-conflict"
    /\ BeforeTheRun([Gradle EXCEPT !.case = "repo-spotless", !.ambientOpts = {"org.gradle.parallel"}]) = Proceeds
    /\ BeforeTheRun([Gradle EXCEPT !.probes = Probes(TRUE, {"x"})]).gate = "network-probe"
    /\ BeforeTheRun([Good EXCEPT !.archive = "other"]).gate = "archive-hash"
    /\ BeforeTheRun([Good EXCEPT !.toolchain.missing = {"binary"}]).gate = "toolchain"
    /\ Writes([Good EXCEPT !.lockfile = "required-missing"], MavenPolicy) = <<>>
(* An empty output is a result only under the authorised erratum. *)
Pyflakes(erratum) == [Good EXCEPT !.case = "repo-pyflakes", !.ecosystem = "python", !.venv = TRUE, !.output = Text(<<>>),
                                  !.frozenArgv = <<"python">>, !.erratum = erratum]
Erratum == <<[original |-> <<"python">>, corrected |-> <<"python", "-m">>]>>
ASSUME EmptyNeedsTheErratum ==
    /\ ContentAccepted(Pyflakes(Erratum)) /\ Classification(Pyflakes(Erratum)) = "successful-empty-domain-result"
    /\ ~ContentAccepted(Pyflakes(<<>>)) /\ ~ContentAccepted([Pyflakes(Erratum) EXCEPT !.traceback = TRUE])
    /\ EffectiveArgv(Pyflakes(Erratum)) = <<"venv-python", "-m">>
(* The python identity needs all four runtime fields; the others one each. *)
ASSUME Identities ==
    /\ PythonIdentity({"resolved_version", "binary", "platform"}) = {"runtime_identifier"}
    /\ RustIdentity({}) = JvmIdentity({})
    /\ Classify([missing |-> {}, requested |-> "1", resolved |-> "2", inRange |-> FALSE]) = "unexpected-resolution"
    /\ ~IsHardFailure("unexpected-resolution")
(* Every variable granted as a path is one the runner sets. *)
ASSUME GrantedVariablesAreSet ==
    \A e \in {"rust", "jvm-maven", "jvm-gradle", "dotnet"} :
       (ReadOnlyFromEnvironment(e) \cup WritableFromEnvironment(e)) \ {"RUSTUP_TOOLCHAIN"} \subseteq EnvironmentOf([Good EXCEPT !.ecosystem = e])
ASSUME SandboxIsStrict ==
    /\ SandboxPolicy(Good).mode = "deny" /\ "probe-scripts" \notin SandboxPolicy(Good).ro
    /\ SandboxPolicy(Gradle).mode = "outer-netns-loopback-only"
    /\ \A j \in MCJobs \cup {Gradle} : SandboxPolicy(j).ro \cap SandboxPolicy(j).rw = {}

(* The bytes of a declared range, of a tree that matches its manifest. *)
Tree == ("log" :> <<"a", "b", "c">>) @@ ("doc" :> <<"d">>)
ASSUME RawInputs ==
    LET recipe(i, o, m) == [input |-> i, offset |-> o, max |-> m]
        pin == "log" :> <<"a", "b", "c">>
    IN  /\ DeriveRawInput(Tree, pin, recipe(None, 1, 2)) = [problem |-> FALSE, bytes |-> <<"b", "c">>]
        /\ DeriveRawInput(Tree, pin, recipe(None, 0, 9)).bytes = Tree["log"]
        /\ DeriveRawInput(Tree, Tree, recipe(None, 0, 9)).problem
        /\ DeriveRawInput(Tree, "log" :> <<"x">>, recipe(None, 0, 9)).problem
        /\ DeriveRawInput(Tree, pin, recipe("absent", 0, 9)).problem

-----------------------------------------------------------------------------

VARIABLE phase
lock == <<vars, chain, phase>>

MCRequired == "c" :> "c0"
MCStage2 == [canonical |-> "c" :> "c0", asset |-> "s0", argv |-> "c" :> "cargo test", rest |-> "rust"]
MCDurable == [canonical |-> "u" :> "u0", asset |-> "d0", role |-> "primary",
              path |-> <<"raw.stdout">>, rest |-> "v1"]
MCContract == [identity |-> "nix", meter |-> 0]
Probe == [repeats |-> 20, deterministic |-> TRUE, outputs |-> 1]
MCProbes == [p \in {"git-diff", "cargo-test"} |-> Probe]

(* What the encoder returned for the case that is text, with the tokens it *)
(* ended with, and for the one that is not.                                *)
Encoding(out) == [exit |-> 0, nonUtf8 |-> FALSE, out |-> out, tin |-> 9, tout |-> out, encoded |-> TRUE, restored |-> TRUE]
NotUtf8 == [Encoding(0) EXCEPT !.exit = 1, !.nonUtf8 = TRUE]
RowsOf(a, b) == {MeasureCaseLeg("c", "a", "c0", Encoding(a), [exit |-> 0, out |-> 8], Encoding(4))[1],
                 MeasureCaseLeg("c", "b", "c0", Encoding(b), [exit |-> 0, out |-> 8], Encoding(4))[1]}
                \cup {MeasureCaseLeg("u", l, "u0", NotUtf8, [exit |-> 0, out |-> 8], Encoding(4))[1] : l \in {"a", "b"}}
MCRowSets == {RowsOf(5, 5), RowsOf(6, 6), RowsOf(5, 6)}
MCDraws == {<<"c">>}

Forged(rows) == BuildBenchmark(PairsOf(rows)[1])[1]
MCEdits == [d \in Records |->
    CASE d = "stage2" -> {[MCStage2 EXCEPT !.asset = "other"], [MCStage2 EXCEPT !.argv = "c" :> "cargo build"]}
      [] d = "durable" -> {[MCDurable EXCEPT !.role = "alternate"], [MCDurable EXCEPT !.asset = "other"],
                           [MCDurable EXCEPT !.canonical = "u" :> "other"],
                           [MCDurable EXCEPT !.path = Nothing], [MCDurable EXCEPT !.rest = "v2"]}
      [] d = "contract" -> {[MCContract EXCEPT !.identity = "other"], [MCContract EXCEPT !.meter = 1]}
      [] d = "probes" -> {[MCProbes EXCEPT !["git-diff"].deterministic = FALSE], [MCProbes EXCEPT !["git-diff"].outputs = 2]}
      [] d \in {"rejection", "replacement"} -> {"other"}
      [] d = "rtkmap" -> {[filter |-> [c \in Cases |-> "passthrough"], prohibited |-> {"log"}, probes |-> Seal(MCProbes)]}
      [] d = "n2d2" -> {[case |-> "canary", all |-> b] : b \in BOOLEAN}
      [] d = "run" -> {"other"}
      [] d = "legs" -> {PairsOf(RowsOf(6, 6))[1], [PairsOf(RowsOf(5, 5))[1] EXCEPT !["c"].b.leg = "a"]}
      [] d = "benchmark" -> {[Forged(RowsOf(5, 5)) EXCEPT !.corpus.failures = 1],
                             [Forged(RowsOf(5, 5)) EXCEPT !.arms["qodec"].total = 1]}
      [] d = "supplement" -> {[BuildSupplement(Forged(RowsOf(5, 5)), MCDraws)[1] EXCEPT !.canonical = TRUE]}
      [] OTHER -> {}]

(* Or an earlier run of the matrix has published already. *)
LockInit == Init /\ ChainInit /\ phase \in {"capture", "records"}
Publish == /\ phase = "capture" /\ Passed
           /\ phase' = "records" /\ UNCHANGED chain
           /\ dirs' = [d \in Sides |-> EmptyDir] /\ pending' = [d \in Sides |-> <<>>]
           /\ running' = [d \in Sides |-> NoJob] /\ started' = 0 /\ policy' = Policy
           /\ completed' = [d \in Sides |-> {}]
LockNext == \/ phase = "capture" /\ Next /\ UNCHANGED <<chain, phase>>
            \/ Publish
            \/ phase = "records" /\ ChainNext /\ UNCHANGED <<vars, phase>>
LockSpec == LockInit /\ [][LockNext]_lock
===============================================================================
