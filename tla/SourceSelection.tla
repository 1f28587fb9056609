--------------------------- MODULE SourceSelection ---------------------------
(***************************************************************************)
(* How the sources of the corpus are chosen: the eligibility rules, the    *)
(* score, the greedy quota plan, the top-up and the reconciliation with    *)
(* the ecosystem minimums, and the statuses a registry lets a candidate    *)
(* go through.                                                             *)
(*                                                                         *)
(* A candidate is a record of what the rules read.  A commit is "none",    *)
(* "short", "ref" (forty characters that are not hexadecimal) or a sha;    *)
(* a url is "none", "latest" or "fixed"; tie stands for the hash that      *)
(* breaks ties.  Scores are kept in twentieths: the weights' total is the  *)
(* same for every candidate, so the weighted sum orders them as the mean.  *)
(***************************************************************************)
EXTENDS Integers, FiniteSets, Sequences, SequencesExt

SupportedEcosystems == {"dotnet", "rust", "python", "jvm-maven", "jvm-gradle"}
InfraNeutral == "infrastructure-or-language-neutral"
NonRepositoryOrigins == {"native-upstream-ci-log", "public-runtime-dataset", "kernel-or-infrastructure-bot",
                         "reproducible-research-corpus"}
FullLength(commit) == commit \notin {"none", "short"}
Hexadecimal(commit) == commit \notin {"none", "short", "ref"}

(* A rule is <<its name, whether the candidate passes it>>.                *)
LicensedRule(c) == <<"has_explicit_license", c.license.status = "clear" /\ c.license.spdx # "none">>
CommitRules(c) == << <<"has_immutable_commit", FullLength(c.commit)>>, <<"not_floating_ref", Hexadecimal(c.commit)>> >>
RunnableRules(c) ==
    << <<"no_private_credentials_required", "requires-private-credentials" \notin c.flags>>,
       <<"no_private_package_feed_required", c.feed = "none">>,
       <<"no_docker_socket_required", "docker-socket" \notin c.containers>>,
       <<"no_privileged_execution_required", "requires-privileged-execution" \notin c.flags>>,
       <<"no_uncontrolled_network_during_untrusted_execution", ~c.network>>,
       <<"no_mandatory_external_service", c.services = {}>> >>
PiiFree(c) == "ineliminable-pii-or-secret-exposure" \notin c.flags
BoundedDownloadRule(c) == <<"no_unbounded_runtime_download", "unbounded-runtime-download" \notin c.flags>>
HasEntryPoint(c) == c.entry /\ ~c.ambiguous

FrozenRules(c) ==
    <<LicensedRule(c)>> \o CommitRules(c) \o << <<"redistribution_basis_clear", c.license.status = "clear">> >>
    \o RunnableRules(c)
    \o << <<"no_mandatory_database_without_local_fixture", "requires-database-without-local-fixture" \notin c.flags>>,
          BoundedDownloadRule(c), <<"no_ineliminable_pii_or_secret_exposure", PiiFree(c)>>,
          <<"supported_build_entry_point", c.ecosystem \in SupportedEcosystems /\ HasEntryPoint(c)>> >>

RedistributionRule(c) == <<"redistribution_basis_clear", c.license.status = "clear" /\ c.license.redistribution = "yes">>
RepositoryMinerRules(c) ==
    <<LicensedRule(c)>> \o CommitRules(c) \o <<RedistributionRule(c)>> \o RunnableRules(c)
    \o <<BoundedDownloadRule(c), <<"no_ineliminable_pii_or_secret_exposure", PiiFree(c)>>,
         <<"has_recognizable_static_entry_point", c.ecosystem = InfraNeutral /\ HasEntryPoint(c)>> >>

NonRepositoryRules(c) ==
    <<LicensedRule(c),
      <<"has_immutable_object_identity",
        c.identityKind \in {"immutable-object-or-doi", "immutable-run-or-artifact"} /\ c.objectId>>,
      <<"not_mutable_latest_url", c.url = "fixed">>, RedistributionRule(c),
      <<"no_private_credentials_required", "requires-private-credentials" \notin c.flags>>,
      <<"no_ineliminable_pii_or_secret_exposure", PiiFree(c) /\ ~c.personal>>,
      <<"publisher_identity_present", c.publisher>>, <<"no_interactive_access_gate", ~c.gated>> >>

(* Every rule is evaluated; the first that fails is the reason given.      *)
EligibilityReport(c, ruleSet, rules) ==
    LET failing == SelectSeq(rules, LAMBDA r : ~r[2])
    IN  [id |-> c.id, ruleSet |-> ruleSet, rules |-> rules, eligible |-> failing = <<>>,
         reason |-> IF failing = <<>> THEN "none" ELSE failing[1][1]]

FrozenRulesApply(c) ==
    /\ c.origin \in {"repository-miner", "n2a-reference-only"}
    /\ c.ecosystem \in SupportedEcosystems /\ c.identityKind = "git-commit"

(* Nothing comes back when no rule set applies: the evaluator raises.      *)
EvaluateExtended(c) ==
    IF c.origin = "repository-miner" /\ c.ecosystem = InfraNeutral
    THEN <<EligibilityReport(c, "n2c-extended", RepositoryMinerRules(c))>>
    ELSE IF c.origin \in NonRepositoryOrigins THEN <<EligibilityReport(c, "n2c-extended", NonRepositoryRules(c))>> ELSE <<>>
Evaluate(c) == IF FrozenRulesApply(c) THEN <<EligibilityReport(c, "n2b-frozen", FrozenRules(c))>> ELSE EvaluateExtended(c)
Eligible(candidates) == {c \in candidates : Evaluate(c) # <<>> /\ Evaluate(c)[1].eligible}

-----------------------------------------------------------------------------
(* The score. *)

SizeBucketValue(size) == CASE size = "small" -> 20 [] size = "medium" -> 12 [] size = "large" -> 6 [] OTHER -> 0
ReproValue(class) ==
    CASE class = "expected-byte-reproducible" -> 20 [] class = "expected-semantically-reproducible" -> 12 [] OTHER -> 0
Full(condition) == IF condition THEN 20 ELSE 0
FeatureValues(c) ==
    [license_clarity |-> Full(c.license.status = "clear"),
     immutable_source_completeness |-> IF c.commit = "none" THEN 0 ELSE IF c.tree = "none" THEN 10 ELSE 20,
     offline_execution_feasibility |-> Full(~c.network),
     dependency_lock_quality |-> IF c.lock THEN 20 ELSE 6,
     build_detector_confidence |-> Full(~c.ambiguous),
     expected_family_coverage |-> Full(c.family # "none"),
     expected_ecosystem_coverage |-> Full(c.ecosystem # "none"),
     expected_size_bucket |-> SizeBucketValue(c.size),
     security_risk_inverse |-> Max({0, 20 - 5 * Cardinality(c.flags)}),
     estimated_ci_resource_cost_inverse |-> SizeBucketValue(c.size),
     reproducibility_expectation |-> ReproValue(c.repro),
     source_provenance_completeness |-> IF c.origin # "none" /\ c.evidence THEN 20 ELSE 10]

(* A feature a policy has never heard of is an error, so its features are  *)
(* among these.                                                            *)
ScoreCandidate(c, policy) == SumFunction([f \in DOMAIN policy |-> policy[f] * FeatureValues(c)[f]])

RankCandidates(candidates, policy) ==
    LET scored == {<<ScoreCandidate(c, policy), c.tie, c>> : c \in candidates}
        ahead(x) == {y \in scored : y[1] > x[1] \/ (y[1] = x[1] /\ y[2] < x[2])}
        placed == {<<Cardinality(ahead(x)) + 1, x[3]>> : x \in scored}
    IN  [i \in 1..Cardinality(candidates) |-> (CHOOSE x \in placed : x[1] = i)[2]]
RankOf(ranked, c) == CHOOSE i \in DOMAIN ranked : ranked[i] = c
RankWithinGroup(ranked, c, dimension) ==
    Cardinality({i \in DOMAIN ranked : i <= RankOf(ranked, c) /\ ranked[i][dimension] = c[dimension]})

-----------------------------------------------------------------------------
(* The greedy plan: one walk down the ranking, no way back. *)

DimensionValue(c, dimension) == IF dimension = "repository_miner" THEN "repository-miner" ELSE c[dimension]
Contributes(c, remaining) ==
    {d \in DOMAIN remaining : /\ DimensionValue(c, d) \in DOMAIN remaining[d]
                              /\ remaining[d][DimensionValue(c, d)] > 0}
Filled(c, remaining) ==
    [d \in DOMAIN remaining |->
        IF d \in Contributes(c, remaining) THEN [remaining[d] EXCEPT ![DimensionValue(c, d)] = @ - 1] ELSE remaining[d]]

PlanSelection(ranked, quotas) ==
    FoldLeft(LAMBDA plan, c :
                 IF Contributes(c, plan.remaining) # {}
                 THEN [plan EXCEPT !.proposed = Append(@, c), !.remaining = Filled(c, @)]
                 ELSE [plan EXCEPT !.alternatives = Append(@, c)],
             [proposed |-> <<>>, alternatives |-> <<>>, remaining |-> quotas], ranked)
Unfilled(plan) ==
    {<<d, v>> \in UNION {{d} \X DOMAIN plan.remaining[d] : d \in DOMAIN plan.remaining} : plan.remaining[d][v] > 0}

-----------------------------------------------------------------------------
(* The minimums of the ecosystems, met after the fact by swapping an       *)
(* alternate for a primary of the same origin and family. *)

CountIn(seq, dimension, value) == Len(SelectSeq(seq, LAMBDA c : c[dimension] = value))
Unmet(seq, dimension, targets, exact) ==
    {v \in DOMAIN targets : IF exact THEN CountIn(seq, dimension, v) # targets[v]
                            ELSE CountIn(seq, dimension, v) < targets[v]}

Slack(primary, minimums, ecosystem) ==
    CountIn(primary, "ecoGroup", ecosystem) - (IF ecosystem \in DOMAIN minimums THEN minimums[ecosystem] ELSE 0)

Victims(candidate, primary, minimums) ==
    {p \in Range(primary) : /\ p.bucket = candidate.bucket /\ p.ecoGroup # candidate.ecoGroup
                            /\ Slack(primary, minimums, p.ecoGroup) > 0}
(* The most surplus first, the worst ranked among equals.                  *)
Victim(candidate, primary, ranked, minimums) ==
    LET surplus(p) == Slack(primary, minimums, p.ecoGroup)
    IN  CHOOSE p \in Victims(candidate, primary, minimums) : \A q \in Victims(candidate, primary, minimums) :
            surplus(p) > surplus(q) \/ (surplus(p) = surplus(q) /\ RankOf(ranked, p) >= RankOf(ranked, q))

Swap(state, ecosystem, ranked, minimums) ==
    LET usable == {c \in Range(state.alternates) :
                       c.ecoGroup = ecosystem /\ Victims(c, state.primary, minimums) # {}}
        added == CHOOSE c \in usable : \A d \in usable : RankOf(ranked, c) <= RankOf(ranked, d)
        removed == Victim(added, state.primary, ranked, minimums)
    IN  IF usable = {} THEN state
        ELSE [primary |-> Append(Remove(state.primary, removed), added),
              alternates |-> Append(Remove(state.alternates, added), removed),
              swaps |-> Append(state.swaps, [removed |-> removed.id, added |-> added.id])]

(* The deficits are counted once: largest first, then by name.             *)
ReconcileEcosystemMinimums(primary, alternates, ranked, minimums, nameOrder) ==
    LET deficit(e) == minimums[e] - CountIn(primary, "ecoGroup", e)
        short == SetToSortSeq(Unmet(primary, "ecoGroup", minimums, FALSE),
                     LAMBDA e, f : deficit(e) > deficit(f) \/ (deficit(e) = deficit(f) /\ nameOrder[e] < nameOrder[f]))
        rounds == FlattenSeq([i \in DOMAIN short |-> [n \in 1..deficit(short[i]) |-> short[i]]])
    IN  FoldLeft(LAMBDA state, e : Swap(state, e, ranked, minimums),
                 [primary |-> primary, alternates |-> alternates, swaps |-> <<>>], rounds)

Smaller(a, b) == IF a < b THEN a ELSE b
RunSelection(eligible, policy, contract) ==
    LET ranked == RankCandidates(eligible, policy)
        plan == PlanSelection(ranked, contract.quotas)
        missing == contract.primaryTarget - Len(plan.proposed)
        toppedUp == IF missing <= 0 THEN <<>> ELSE SubSeq(plan.alternatives, 1, Smaller(missing, Len(plan.alternatives)))
        primary == plan.proposed \o toppedUp
        alternates == SelectSeq(plan.alternatives, LAMBDA c : c \notin Range(primary))
        final == IF Unmet(primary, "ecoGroup", contract.minimums, FALSE) = {}
                 THEN [primary |-> primary, alternates |-> alternates, swaps |-> <<>>]
                 ELSE ReconcileEcosystemMinimums(primary, alternates, ranked, contract.minimums, contract.nameOrder)
        satisfied == /\ Len(final.primary) = contract.primaryTarget
                     /\ Unmet(final.primary, "origin", contract.originTargets, TRUE) = {}
                     /\ Unmet(final.primary, "family", contract.familyTargets, TRUE) = {}
                     /\ Unmet(final.primary, "ecoGroup", contract.minimums, FALSE) = {}
    IN  final @@ [status |-> IF satisfied THEN "FINAL" ELSE "QUOTA_CHECK_FAILED", ranked |-> ranked, plan |-> plan,
                  toppedUp |-> toppedUp, enoughAlternates |-> Len(final.alternates) >= contract.minAlternates]

-----------------------------------------------------------------------------
(* The registry.  A history is a sequence of [status, version, override],  *)
(* the override a sequence of at most one reason. *)

SelectedStatuses == {"selected-primary", "selected-alternate"}
AllowedTransitions ==
    {<<"discovered", "inspected">>, <<"inspected", "eligible">>, <<"inspected", "ineligible">>}
    \cup ({"eligible"} \X SelectedStatuses) \cup (SelectedStatuses \X {"frozen", "rejected-after-selection"})
RestrictedTransitions ==
    ({"ineligible"} \X SelectedStatuses) \cup ({"frozen"} \X {"discovered", "eligible"})

(* The framework's own registry has one status of selection.               *)
FrameworkAllowed ==
    {<<"discovered", "inspected">>, <<"inspected", "eligible">>, <<"inspected", "ineligible">>,
     <<"eligible", "selected">>, <<"selected", "frozen">>, <<"selected", "rejected-after-selection">>}
FrameworkRestricted == {<<"ineligible", "selected">>, <<"frozen", "discovered">>, <<"frozen", "eligible">>}

StepHolds(prev, next, allowed, restricted) ==
    \/ <<prev.status, next.status>> \in allowed
    \/ /\ <<prev.status, next.status>> \in restricted
       /\ next.override # <<>> /\ next.override # <<"">> /\ next.version # prev.version
ValidHistory(history, status, allowed, restricted) ==
    /\ history # <<>> /\ Last(history).status = status
    /\ \A i \in 2..Len(history) : StepHolds(history[i - 1], history[i], allowed, restricted)
EligibleStatuses == {"eligible", "frozen"} \cup SelectedStatuses

ForbiddenMarkers == {"raw_tokens", "qodec_tokens", "rtk_tokens", "hybrid_tokens", "token_savings", "compression_ratio",
                     "winner", "preferred_arm", "reader_score", "model_score", "qodec", "rtk"}
(* keys: for each candidate the markers its field names contain.           *)
ForbiddenFields(keys) == {<<c, m>> \in UNION {{c} \X keys[c] : c \in DOMAIN keys} : m \in ForbiddenMarkers}

-----------------------------------------------------------------------------
(* The replacement of a rejected case: the first alternate of its kind,    *)
(* derived by running the selection again.  files holds the content of     *)
(* the six files a record pins. *)

RejectedCase == "repo-spotless"
RequiredReplacement == "repo-helm-values"
AlreadyUsed == {RejectedCase, "repo-moshi"}
Considered(selection) ==
    SelectSeq(selection.alternates,
              LAMBDA c : c.ecosystem = "jvm-gradle" /\ c.origin = "repository-miner" /\ c.id \notin AlreadyUsed)

BuildReplacement(files, eligible, selection, asset) ==
    LET considered == Considered(selection)
    IN  IF considered = <<>> THEN <<>>
        ELSE IF considered[1].id # RequiredReplacement THEN <<>>
        ELSE LET body == [rejected |-> RejectedCase, files |-> files, eligible |-> eligible, selection |-> selection,
                          considered |-> considered, replacement |-> RequiredReplacement, commit |-> considered[1].commit,
                          position |-> RankOf(selection.alternates, considered[1]), asset |-> asset,
                          signals |-> FALSE, deterministic |-> TRUE]
             IN  <<[body |-> body, seal |-> body]>>

(* durable maps a case to the asset that keeps its bytes.                  *)
VerifyReplacement(record, files, eligible, selection, durable) ==
    /\ record.seal = record.body /\ record.body.rejected = RejectedCase
    /\ ~record.body.signals /\ record.body.deterministic /\ record.body.files = files
    /\ record.body.eligible = eligible /\ record.body.selection = selection
    /\ Considered(selection) # <<>> /\ Considered(selection)[1].id = RequiredReplacement
    /\ record.body.replacement = RequiredReplacement /\ record.body.considered = Considered(selection)
    /\ RequiredReplacement \in DOMAIN durable /\ record.body.asset = durable[RequiredReplacement]
===============================================================================
