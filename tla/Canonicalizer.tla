---------------------------- MODULE Canonicalizer ----------------------------
(***************************************************************************)
(* The capture canonicalizers of the D1 identity lock: which volatile      *)
(* tokens of a command's output are replaced before two captures of it are *)
(* compared, and the self-hashed policies that authorise each of them.     *)
(*                                                                         *)
(* A line is [kept, whole, hits, nl]: the pieces no rule may touch, whether *)
(* they have the shape the line's rule requires, the occurrences [trigger, *)
(* token] of volatile places in it, and whether a line ending follows.     *)
(***************************************************************************)
EXTENDS Integers, Sequences, FiniteSets, SequencesExt

Elapsed == "<ELAPSED>"
Timestamp == "<TIMESTAMP>"
Rule(name, trigger, tokens, placeholder) ==
    [name |-> name, trigger |-> trigger, tokens |-> tokens \cup {placeholder}, placeholder |-> placeholder]

Refused == [ok |-> FALSE, line |-> "none"]
Accepted(line) == [ok |-> TRUE, line |-> line]

(* An anchored rule looks only at lines with its trigger; such a line must *)
(* match as a whole.  The placeholder matches too.                         *)
ApplyAnchored(rule, line) ==
    IF \A i \in DOMAIN line.hits : line.hits[i].trigger # rule.trigger THEN Accepted(line)
    ELSE IF line.whole /\ Len(line.hits) = 1 /\ line.hits[1].token \in rule.tokens
         THEN Accepted([line EXCEPT !.hits[1].token = rule.placeholder])
         ELSE Refused

(* A substring rule replaces every occurrence it detects, and refuses the  *)
(* line when one of them is not of the expected form.                      *)
ApplySubstring(rule, line) ==
    LET detected == {i \in DOMAIN line.hits : line.hits[i].trigger = rule.trigger
                                              /\ line.hits[i].token \in rule.detects \cup rule.tokens}
    IN  IF \E i \in detected : line.hits[i].token \notin rule.tokens THEN Refused
        ELSE Accepted([line EXCEPT !.hits = [i \in DOMAIN @ |->
                          IF i \in detected THEN [@[i] EXCEPT !.token = rule.placeholder] ELSE @[i]]])

(* A report names the replaced lines by their content, without the ending. *)
Content(line) == [line EXCEPT !.nl = TRUE]
Replaced(before, after) == {Content(before[i]) : i \in {n \in DOMAIN before : after[n].line # before[n]}}
RefusedText == [ok |-> FALSE, lines |-> <<>>, replaced |-> {}]

(* Every rule in turn on every line; one refusal refuses the capture. *)
Apply(rule, anchored, line) == IF anchored THEN ApplyAnchored(rule, line) ELSE ApplySubstring(rule, line)
ApplyAll(rules, anchored, line) ==
    LET after[n \in 0..Len(rules)] ==
          IF n = 0 THEN Accepted(line)
          ELSE IF after[n - 1].ok THEN Apply(rules[n], anchored, after[n - 1].line) ELSE after[n - 1]
    IN  after[Len(rules)]
Canonicalize(rules, anchored, text) ==
    LET out == [i \in DOMAIN text.lines |-> ApplyAll(rules, anchored, text.lines[i])]
    IN  IF ~text.utf8 \/ \E i \in DOMAIN out : ~out[i].ok THEN RefusedText
        ELSE [ok |-> TRUE, lines |-> [i \in DOMAIN out |-> out[i].line],
              replaced |-> Replaced(text.lines, out)]

-----------------------------------------------------------------------------
(* The rules of each tool.  A count, a verdict or a test name is kept.     *)

Decimal == {"0.1", "12.34"}
MavenRules == <<Rule("buildnumber_timestamp", "Storing buildNumber:", {"1784"}, Timestamp),
                Rule("scala_compile_duration", "compile in ", Decimal, Elapsed),
                Rule("surefire_time_elapsed", "Time elapsed:", Decimal, Elapsed),
                Rule("maven_total_time", "Total time:", {"12.34 s"}, Elapsed),
                Rule("maven_finished_at", "Finished at:", {"2026-07-16T00:00:00Z"}, Timestamp)>>
CargoRules == <<Rule("cargo_test_summary_duration", "test result: ", {"12.34"}, Elapsed)>>
VstestRules == <<Rule("vstest_duration", "Duration: ", Decimal \cup {"3"}, Elapsed)>>
PytestDurationRules == <<Rule("pytest_final_summary_duration", "= in =", {"12.34"}, "<DURATION>")>>

(* The rejected rules rewrote addresses, idents and durations anywhere. *)
RejectedPytestRules ==
    LET Sub(name, trigger, detects, tokens, placeholder) ==
          [name |-> name, trigger |-> trigger, detects |-> detects,
           tokens |-> tokens \cup {placeholder}, placeholder |-> placeholder]
    IN  <<Sub("python_object_repr_address", " at 0x", {"7f01", "7F01"}, {"7f01"}, "0xADDR"),
          Sub("pytest_session_summary_duration", "s =", {"1.2", "12.34"}, {"12.34"}, "ELAPSED"),
          Sub("python_thread_repr_ident", ", stopped ", {"1401", "?"}, {"1401"}, "IDENT")>>

(* A printed duration; a unit that is not printed is -1. *)
Printed == Nat \cup {-1}
Unprinted == [h |-> -1, m |-> -1, s |-> -1, ms |-> -1]
Durations == [h : Printed, m : Printed, s : Printed, ms : Printed]
GradleDurationsV2 ==
    {d \in Durations :
        /\ d.h # 0 /\ d.m # 0 /\ d.s # 0 /\ d.m <= 59 /\ d.s <= 59 /\ d.ms <= 999
        /\ IF d.ms # -1 THEN d.h = -1 /\ d.m = -1 /\ d.s = -1
                        ELSE d.h # -1 \/ d.m # -1 \/ d.s # -1}
GradleDurationsV1 == {d \in Durations : d.s # -1 /\ d.ms = -1}
GradleDurationsHelmValues == GradleDurationsV2

(* What Gradle prints: milliseconds only below a second, a zero unit never. *)
FormatDurationTerse(ms) ==
    LET unit(n) == IF n = 0 THEN -1 ELSE n
    IN  IF ms < 1000 THEN [h |-> -1, m |-> -1, s |-> -1, ms |-> ms]
        ELSE [h |-> unit(ms \div 3600000), m |-> unit((ms \div 60000) % 60),
              s |-> unit((ms \div 1000) % 60), ms |-> -1]

(* Version 1 does not look at a banner that ends before its duration: its  *)
(* trigger has the space that follows.                                     *)
GradleRule(name, grammar, loose) ==
    [name |-> name, trigger |-> IF loose THEN "BUILD SUCCESSFUL in" ELSE "BUILD SUCCESSFUL in ",
     tokens |-> {grammar}, placeholder |-> Elapsed, loose |-> loose]
GradleRuleV1 == GradleRule("gradle_build_duration", "seconds required", FALSE)
GradleRuleV2 == GradleRule("gradle_build_duration_v2", "as formatted", TRUE)
GradleRuleHelmValues == GradleRule("gradle_build_duration_helm_values_v1", "as formatted", TRUE)

(* The banner's token is [kind, duration]: one kind is the placeholder,    *)
(* another that the line ends before it.                                   *)
ApplyGradle(rule, durations, line) ==
    IF line.hits = <<>> \/ (line.hits[1].token.kind = "truncated" /\ ~rule.loose) THEN Accepted(line)
    ELSE LET token == line.hits[1].token
         IN  IF line.whole /\ (token.kind = "placeholder" \/ (token.kind = "duration" /\ token.duration \in durations))
             THEN Accepted([line EXCEPT !.hits[1].token = [kind |-> "placeholder", duration |-> Unprinted]])
             ELSE Refused

CanonicalizeGradle(rule, durations, text) ==
    LET out == [i \in DOMAIN text.lines |-> ApplyGradle(rule, durations, text.lines[i])]
    IN  IF ~text.utf8 \/ \E i \in DOMAIN out : ~out[i].ok THEN RefusedText
        ELSE [ok |-> TRUE, lines |-> [i \in DOMAIN out |-> out[i].line],
              replaced |-> Replaced(text.lines, out)]

CanonicalizeMaven(text) == Canonicalize(MavenRules, TRUE, text)
CanonicalizeCargo(text) == Canonicalize(CargoRules, TRUE, text)
CanonicalizePytestDuration(text) == Canonicalize(PytestDurationRules, TRUE, text)
CanonicalizeRejectedPytest(text) == Canonicalize(RejectedPytestRules, FALSE, text)
CanonicalizeGradleV1(text) == CanonicalizeGradle(GradleRuleV1, GradleDurationsV1, text)
CanonicalizeGradleV2(text) == CanonicalizeGradle(GradleRuleV2, GradleDurationsV2, text)
CanonicalizeGradleHelmValues(text) == CanonicalizeGradle(GradleRuleHelmValues, GradleDurationsHelmValues, text)

(* Two projects finish compiling in either order.  Their completion lines  *)
(* are put in the declared order, as whole lines with their endings: each  *)
(* at most once, both or neither, nothing but blank lines in between.      *)
MsbuildProjectOrder == <<"KubeOps.Generator", "KubeOps.Generator.Test.Entities">>
Swapped(lines, i, j) == [n \in DOMAIN lines |-> CASE n = i -> lines[j] [] n = j -> lines[i] [] OTHER -> lines[n]]
ReorderCompletionPair(lines) ==
    LET at(project) == {i \in DOMAIN lines : lines[i].kept = <<project>>}
        first == at(MsbuildProjectOrder[1])
        second == at(MsbuildProjectOrder[2])
        i == CHOOSE n \in first : TRUE
        j == CHOOSE n \in second : TRUE
        between == {n \in DOMAIN lines : (i < n /\ n < j) \/ (j < n /\ n < i)}
    IN  CASE first = {} /\ second = {} -> [ok |-> TRUE, lines |-> lines]
          [] Cardinality(first) = 1 /\ Cardinality(second) = 1 /\ (\A n \in between : lines[n].kept = <<>>) ->
               [ok |-> TRUE, lines |-> IF i < j THEN lines ELSE Swapped(lines, i, j)]
          [] OTHER -> [ok |-> FALSE, lines |-> <<>>]
CanonicalizeVstest(text) ==
    LET c == Canonicalize(VstestRules, TRUE, text)
        r == ReorderCompletionPair(c.lines)
    IN  IF ~c.ok \/ ~r.ok THEN RefusedText ELSE [c EXCEPT !.lines = r.lines]

(* The bytes of a text: a line without an ending runs into the next one. *)
Joined(lines) ==
    FoldLeft(LAMBDA out, l : IF out # <<>> /\ ~Last(out).nl
                             THEN Append(Front(out), [l EXCEPT !.kept = Last(out).kept \o @, !.whole = FALSE,
                                                               !.hits = Last(out).hits \o @])
                             ELSE Append(out, l), <<>>, lines)

-----------------------------------------------------------------------------
(* A policy names its type, its rules and its cases, and carries the hash  *)
(* of the rest of itself.  It holds when it was not edited and says what   *)
(* the code does.  Some canonicalizers also pin the type and the cases.    *)

Documented(rule) == [name |-> rule.name, trigger |-> rule.trigger, grammar |-> rule.tokens, placeholder |-> rule.placeholder]
BuildPolicy(type, rules, cases) ==
    LET body == [type |-> type, rules |-> {Documented(r) : r \in Range(rules)}, cases |-> cases]
    IN  [body |-> body, seal |-> body]
PolicyHolds(policy, rules) ==
    /\ policy.seal = policy.body
    /\ policy.body.rules = {Documented(r) : r \in Range(rules)}
    /\ policy.body.cases # {}
Pins(policy, type, cases) == policy.body.type = type /\ policy.body.cases = cases

MavenPolicy == BuildPolicy("capture-v1", MavenRules, {"repo-docker-java-parser"})
GradlePolicyV1 == BuildPolicy("gradle-v1", <<GradleRuleV1>>, {"repo-moshi"})
GradlePolicyV2 == BuildPolicy("gradle-v2", <<GradleRuleV2>>, {"repo-moshi"})
GradlePolicyHelmValues == BuildPolicy("gradle-helm-values-v1", <<GradleRuleHelmValues>>, {"repo-helm-values"})
CargoPolicy == BuildPolicy("cargo-test-v1", CargoRules, {"repo-dockerfile-parser-rs", "repo-rustlings"})
VstestPolicy == BuildPolicy("vstest-v2", VstestRules, {"repo-kubeops-generator"})
PytestDurationPolicy == BuildPolicy("pytest-requests-duration-v1", PytestDurationRules, {"repo-requests"})
RejectedPytestPolicy == BuildPolicy("pytest-requests-v1", RejectedPytestRules, {"repo-requests"})

MavenPolicyHolds(p) == PolicyHolds(p, MavenRules)
GradlePolicyV1Holds(p) == PolicyHolds(p, <<GradleRuleV1>>)
GradlePolicyV2Holds(p) == PolicyHolds(p, <<GradleRuleV2>>) /\ Pins(p, "gradle-v2", {"repo-moshi"})
GradlePolicyHelmValuesHolds(p) ==
    PolicyHolds(p, <<GradleRuleHelmValues>>) /\ Pins(p, "gradle-helm-values-v1", {"repo-helm-values"})
CargoPolicyHolds(p) ==
    PolicyHolds(p, CargoRules) /\ Pins(p, "cargo-test-v1", {"repo-rustlings", "repo-dockerfile-parser-rs"})
VstestPolicyHolds(p) == PolicyHolds(p, VstestRules)
PytestDurationPolicyHolds(p) == PolicyHolds(p, PytestDurationRules)
RejectedPytestPolicyHolds(p) == PolicyHolds(p, RejectedPytestRules) /\ Pins(p, "pytest-requests-v1", {"repo-requests"})

(* A rejection record pins what it rejects; both files stay as they were. *)
RejectionRecord(policy, module, run) == [rejected |-> policy, module |-> module, run |-> run, classification |-> "REJECTED"]
=============================================================================
