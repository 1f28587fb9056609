---------------------------- MODULE SourceRegistry ----------------------------
(***************************************************************************)
(* The candidates of the corpus as the registry's builder writes them, and *)
(* the quotas: the instance the selection is really run on.  The tie of a  *)
(* candidate is the place of its hash among the hashes.                    *)
(***************************************************************************)
EXTENDS SourceSelection

EcosystemQuotaGroup(ecosystem) == IF ecosystem \in {"jvm-maven", "jvm-gradle"} THEN "jvm" ELSE ecosystem
QuotaFields(c) == c @@ [ecoGroup |-> EcosystemQuotaGroup(c.ecosystem), bucket |-> <<c.origin, c.family>>]

ClearLicense == [status |-> "clear", spdx |-> "permissive", redistribution |-> "yes"]
RepoCandidate(id, ecosystem, family, tie) ==
    QuotaFields([id |-> id, kind |-> "repository-execution", origin |-> "repository-miner", ecosystem |-> ecosystem,
        family |-> family, license |-> ClearLicense, identityKind |-> "git-commit", commit |-> "sha", tree |-> "sha",
        objectId |-> FALSE, url |-> "fixed", publisher |-> TRUE, gated |-> FALSE, personal |-> FALSE, flags |-> {},
        feed |-> "none", containers |-> {}, services |-> {}, network |-> FALSE, entry |-> TRUE, ambiguous |-> FALSE,
        lock |-> FALSE, size |-> "small", repro |-> "expected-byte-reproducible", evidence |-> TRUE, tie |-> tie])
ArtifactKind(origin) ==
    CASE origin = "native-upstream-ci-log" -> "ci-run-artifact" [] origin = "public-runtime-dataset" ->
        "dataset-artifact"
      [] origin = "kernel-or-infrastructure-bot" -> "bot-output-artifact"
      [] origin = "reproducible-research-corpus" -> "research-corpus-artifact"
ArtifactCandidate(id, origin, ecosystem, family, identityKind, gated, commit, tie) ==
    QuotaFields([id |-> id, kind |-> ArtifactKind(origin), origin |-> origin, ecosystem |-> ecosystem,
        family |-> family, license |-> ClearLicense, identityKind |-> identityKind, commit |-> commit, tree |->
            "none",
        objectId |-> TRUE, url |-> "fixed", publisher |-> TRUE, gated |-> gated, personal |-> FALSE, flags |-> {},
        feed |-> "none", containers |-> {}, services |-> {}, network |-> FALSE, entry |-> FALSE, ambiguous |-> FALSE,
        lock |-> FALSE, size |-> "medium", repro |-> "expected-byte-reproducible", evidence |-> TRUE, tie |-> tie])
(* One that was turned down during the research: it has no clear licence.  *)
RejectedCandidate(id, ecosystem, family, tie) ==
    [RepoCandidate(id, ecosystem, family, tie) EXCEPT
        !.license = [status |-> "missing", spdx |-> "none", redistribution |-> "no"], !.tree = "none"]

ArtifactCandidates ==
    {ArtifactCandidate("ci-log-curl-linux", "native-upstream-ci-log", "infrastructure-or-language-neutral",
        "ci-build", "immutable-run-or-artifact", TRUE, "none", 5),
     ArtifactCandidate("ci-log-jq-ci", "native-upstream-ci-log", "infrastructure-or-language-neutral",
         "ci-build", "immutable-run-or-artifact", TRUE, "none", 11),
     ArtifactCandidate("ci-log-rust-lang-rust-ci", "native-upstream-ci-log", "rust", "ci-build",
         "immutable-run-or-artifact", TRUE, "none", 26),
     ArtifactCandidate("ci-log-nlohmann-json", "native-upstream-ci-log", "infrastructure-or-language-neutral",
         "ci-build", "immutable-run-or-artifact", FALSE, "sha", 29),
     ArtifactCandidate("ci-log-spdlog", "native-upstream-ci-log", "infrastructure-or-language-neutral",
         "ci-build", "immutable-run-or-artifact", FALSE, "sha", 24),
     ArtifactCandidate("ci-log-jansson", "native-upstream-ci-log", "infrastructure-or-language-neutral",
         "ci-build", "immutable-run-or-artifact", FALSE, "sha", 16),
     ArtifactCandidate("ci-log-nlog", "native-upstream-ci-log", "dotnet", "ci-build",
         "immutable-run-or-artifact", FALSE, "sha", 38),
     ArtifactCandidate("dataset-loghub-v8", "public-runtime-dataset", "infrastructure-or-language-neutral",
         "runtime", "immutable-object-or-doi", FALSE, "none", 42),
     ArtifactCandidate("dataset-lanl-unified-2017", "public-runtime-dataset",
         "infrastructure-or-language-neutral", "runtime", "immutable-object-or-doi", TRUE, "none", 35),
     ArtifactCandidate("dataset-rtn-traffic-ids", "public-runtime-dataset",
         "infrastructure-or-language-neutral", "runtime", "immutable-object-or-doi", FALSE, "none", 13),
     ArtifactCandidate("bot-syzbot-do-mkdirat", "kernel-or-infrastructure-bot",
         "infrastructure-or-language-neutral", "search-listing-diagnostic", "immutable-run-or-artifact", FALSE,
         "none", 3),
     ArtifactCandidate("bot-dependabot-black-5206", "kernel-or-infrastructure-bot", "python",
         "dependency-package-manager", "immutable-run-or-artifact", FALSE, "none", 1),
     ArtifactCandidate("research-corpus-loghub2", "reproducible-research-corpus",
         "infrastructure-or-language-neutral", "search-listing-diagnostic", "immutable-object-or-doi", FALSE,
         "none", 33)}

RepositoryCandidates ==
    {RepoCandidate("repo-kubeops-generator", "dotnet", "container-orchestration-deployment", 20),
     RepoCandidate("repo-dockerfile-parser-rs", "rust", "container-orchestration-deployment", 19),
     RepoCandidate("repo-helm-values", "jvm-gradle", "container-orchestration-deployment", 36),
     RepoCandidate("repo-moq", "dotnet", "test", 34),
     RepoCandidate("repo-rustlings", "rust", "test", 8),
     RepoCandidate("repo-moshi", "jvm-gradle", "test", 9),
     RepoCandidate("repo-fd", "rust", "runtime", 18),
     RepoCandidate("repo-flake8", "python", "static-analysis-lint-compiler", 28),
     RepoCandidate("repo-spotless", "jvm-gradle", "static-analysis-lint-compiler", 23)}

AlternateCandidates ==
    {RepoCandidate("repo-hyperfine", "rust", "runtime", 6),
     RepoCandidate("repo-procs", "rust", "search-listing-diagnostic", 15),
     RepoCandidate("repo-anyhow", "rust", "static-analysis-lint-compiler", 44),
     RepoCandidate("repo-requests", "python", "test", 17),
     RepoCandidate("repo-pyflakes", "python", "static-analysis-lint-compiler", 14),
     RepoCandidate("repo-pip-tools", "python", "dependency-package-manager", 12),
     RepoCandidate("repo-gson", "jvm-maven", "test", 43),
     RepoCandidate("repo-classgraph", "jvm-maven", "search-listing-diagnostic", 25),
     RepoCandidate("repo-detekt", "jvm-gradle", "static-analysis-lint-compiler", 40),
     RepoCandidate("repo-kubernetes-validate", "python", "container-orchestration-deployment", 21),
     RepoCandidate("repo-dockerfile-parse", "python", "container-orchestration-deployment", 22),
     RepoCandidate("repo-docker-java-parser", "jvm-maven", "container-orchestration-deployment", 10),
     RepoCandidate("repo-dotnet-outdated", "dotnet", "search-listing-diagnostic", 37),
     RepoCandidate("repo-nuget-samples-cpm", "dotnet", "dependency-package-manager", 39),
     RepoCandidate("repo-terraform-example-module", "infrastructure-or-language-neutral",
         "container-orchestration-deployment", 7),
     RepoCandidate("repo-hadolint-example", "infrastructure-or-language-neutral",
         "container-orchestration-deployment", 31),
     RepoCandidate("repo-fzf", "infrastructure-or-language-neutral", "search-listing-diagnostic", 32),
     RepoCandidate("repo-bats-core", "infrastructure-or-language-neutral", "test", 27),
     RepoCandidate("repo-sds", "infrastructure-or-language-neutral", "ci-build", 4)}

RejectedCandidates ==
    {RejectedCandidate("rejected-burntsushi-xsv", "rust", "test", 41),
     RejectedCandidate("rejected-ziggyrafiq-dotnet8-xunit", "dotnet", "test", 2),
     RejectedCandidate("rejected-devantler-kubernetes-validator", "dotnet", "container-orchestration-deployment", 30)}

Candidates == ArtifactCandidates \cup RepositoryCandidates \cup AlternateCandidates \cup RejectedCandidates

SelectionPolicy ==
    [license_clarity |-> 10, immutable_source_completeness |-> 8, offline_execution_feasibility |-> 10,
        dependency_lock_quality |-> 8, build_detector_confidence |-> 8, expected_family_coverage |-> 6,
        expected_ecosystem_coverage |-> 6, expected_size_bucket |-> 4, security_risk_inverse |-> 8,
        estimated_ci_resource_cost_inverse |-> 4, reproducibility_expectation |-> 6, source_provenance_completeness
        |-> 6]
QuotaContract ==
    [primaryTarget |-> 17, minAlternates |-> 8,
     quotas |-> [bucket |-> <<"repository-miner", "container-orchestration-deployment">> :> 3 @@
         <<"repository-miner", "test">> :> 3 @@ <<"repository-miner", "runtime">> :> 1 @@ <<"repository-miner",
         "static-analysis-lint-compiler">> :> 2 @@ <<"native-upstream-ci-log", "ci-build">> :> 3 @@
         <<"public-runtime-dataset", "runtime">> :> 2 @@ <<"kernel-or-infrastructure-bot",
         "search-listing-diagnostic">> :> 1 @@ <<"kernel-or-infrastructure-bot", "dependency-package-manager">> :> 1
         @@ <<"reproducible-research-corpus", "search-listing-diagnostic">> :> 1],
     originTargets |-> "repository-miner" :> 9 @@ "native-upstream-ci-log" :> 3 @@ "public-runtime-dataset" :> 2
         @@ "kernel-or-infrastructure-bot" :> 2 @@ "reproducible-research-corpus" :> 1,
     familyTargets |-> "ci-build" :> 3 @@ "test" :> 3 @@ "runtime" :> 3 @@ "container-orchestration-deployment"
         :> 3 @@ "static-analysis-lint-compiler" :> 2 @@ "search-listing-diagnostic" :> 2 @@
         "dependency-package-manager" :> 1,
     minimums |-> "dotnet" :> 2 @@ "rust" :> 3 @@ "python" :> 3 @@ "jvm" :> 3 @@
         "infrastructure-or-language-neutral" :> 4,
     nameOrder |-> "dotnet" :> 0 @@ "infrastructure-or-language-neutral" :> 1 @@ "jvm" :> 2 @@ "python" :> 3 @@
         "rust" :> 4]
===============================================================================
