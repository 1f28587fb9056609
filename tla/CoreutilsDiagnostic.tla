------------------------ MODULE CoreutilsDiagnostic ------------------------
(***************************************************************************)
(* The focused coreutils diagnostic (probe_coreutils_diagnostic): two      *)
(* independent acquisitions of the same commit, classified by comparison;  *)
(* the finalized input; three repetitions per arm; the record and the      *)
(* retained evidence.  And its verifier, which derives the verdict again   *)
(* from the retained evidence.                                             *)
(*                                                                         *)
(* A hash stands for what it hashes.  A lock is <<>> when absent, else     *)
(* <<packages>>; an acquisition carries both its retained and its private  *)
(* parts.  A world says what the machine answered.                         *)
(***************************************************************************)
EXTENDS Integers, Sequences, FiniteSets, SequencesExt

Base == "base"
Reps3 == 1..3                       \* REPS
Labels2 == {"A", "B"}
AllOf(checks) == \A k \in DOMAIN checks : checks[k]

-----------------------------------------------------------------------------
(* Cargo's home.  A file is [path, content]; the content of a sparse index *)
(* entry is its header and its null-separated fields: the transport        *)
(* revision, then pairs of a version and a package.                        *)

DepContentRoots == {<<"registry", "src">>, <<"registry", "cache">>, <<"git", "checkouts">>, <<"git", "db">>}
EphemeralRoots == {<<".global-cache">>, <<".package-cache">>, <<".package-cache-mutate">>,
                   <<".crates2.json.lock">>, <<".crates.toml.lock">>}
UnderIndex(path) == Len(path) >= 2 /\ SubSeq(path, 1, 2) = <<"registry", "index">>
IsEphemeral(path) ==
    /\ path # <<>> /\ ~(Len(path) >= 2 /\ SubSeq(path, 1, 2) \in DepContentRoots)
    /\ \/ path \in EphemeralRoots
       \/ UnderIndex(path) /\ Len(path) = 4 /\ path[4] = "config.json.lock"
       \/ UnderIndex(path) /\ Len(path) = 5 /\ path[4] = ".cache" /\ path[5] = "config.json.lock"
IsSparseIndexCachePath(path) == UnderIndex(path) /\ Len(path) >= 5 /\ path[4] = ".cache"

ParseEntry(d) ==
    LET n == Len(d.fields)
        pairs == 1..((n - 1) \div 2)
    IN  IF /\ d.version = 3 /\ d.schema = 2 /\ d.terminated
           /\ n > 0 /\ n % 2 = 1 /\ \A i \in pairs : d.fields[2 * i + 1][1] = "package"
        THEN <<[revision |-> d.fields[1], versions |-> {<<d.fields[2 * i], d.fields[2 * i + 1]>> : i \in pairs}]>>
        ELSE <<>>

StableFiles(home) == {f \in home : ".git" \notin ToSet(f.path) /\ ~IsEphemeral(f.path)}
CacheManifests(home) ==
    LET stable == StableFiles(home)
        index  == {f \in stable : IsSparseIndexCachePath(f.path)}
        parsed == {f \in index : ParseEntry(f.content) # <<>>}
        payloads == {<<f.path, ParseEntry(f.content)[1].versions>> : f \in parsed}
    IN  [full |-> {<<f.path, f.content>> : f \in stable},
         semantic |-> payloads \cup {<<f.path, f.content>> : f \in stable \ index},
         validator |-> {<<f.path, ParseEntry(f.content)[1].revision>> : f \in parsed},
         payloads |-> payloads, unparseable |-> {f.path : f \in index \ parsed}]
PathsOf(pairs) == {p[1] : p \in pairs}
DifferingPaths(m, n) == PathsOf((m \ n) \cup (n \ m))
ValidatorOnly(a, b) == DifferingPaths(a.validator, b.validator) \ DifferingPaths(a.semantic, b.semantic)

-----------------------------------------------------------------------------
(* The resolved graph: nodes are [id, deps], an id is <<root, name>>; the  *)
(* roots of the machine's own paths are replaced by their tokens.          *)

RECURSIVE Reached(_, _)
Reached(seen, nodes) ==
    LET next == seen \cup UNION {n.deps : n \in {m \in nodes : m.id \in seen}}
    IN  IF next = seen THEN seen ELSE Reached(next, nodes)
NodeIds(nodes) == {n.id : n \in nodes}
Reachable(roots, nodes) == Reached(roots, nodes) \cap NodeIds(nodes)
Token(id) == IF id[1] \in {"/work/A", "/work/B"} THEN <<"<ROOT>", id[2]>> ELSE id
NormalizeResolve(meta) ==
    LET nodes == {[id |-> Token(n.id), deps |-> {Token(d) : d \in n.deps}] : n \in meta.nodes}
        roots == {Token(r) : r \in meta.members \cup ToSet(meta.root)}
    IN  [roots |-> roots, nodes |-> nodes, reachable |-> Reachable(roots, nodes), scope |-> "host-filtered"]

FetchFailure == "COREUTILS_DEPENDENCY_FETCH_FAILURE"
FetchMutation == "COREUTILS_DEPENDENCY_FETCH_LOCK_MUTATION"
(* cargo fetch --locked between the install and the snapshot.              *)
DependencyFetch(pre, run, post) ==
    [status |-> IF pre = <<>> \/ run.exit # 0 \/ run.timedOut \/ post = <<>> THEN FetchFailure
                ELSE IF pre # post THEN FetchMutation ELSE "ok",
     run |-> IF pre = <<>> THEN <<>> ELSE <<run>>, pre |-> pre,
     post |-> IF pre = <<>> \/ run.exit # 0 \/ run.timedOut THEN <<>> ELSE post]

(* capture_dependency_state_passive, and the metadata of a disposable copy.*)
DependencyState(tracked, diff, tomls, lock, config, toolchain) ==
    [tracked |-> tracked, diff |-> diff, tomls |-> tomls, lock |-> lock, config |-> config, toolchain |-> toolchain]
DisposableMembers(exit, members) == IF exit = 0 THEN <<members>> ELSE <<>>
Snapshot(w, lock) ==
    [ok |-> w.metadataExit = 0, lock |-> lock, graph |-> IF w.metadataExit = 0 THEN <<NormalizeResolve(w.meta)>> ELSE <<>>]

(* One acquisition.  A failed fetch ends it before any metadata; a failed  *)
(* checkout only shows in fetchExit and headOk.                            *)
Acquire(w) ==
    LET fetch == DependencyFetch(w.generated, w.fetchRun, w.fetched)
        terminal == fetch.status \in {FetchFailure, FetchMutation}
    IN  [fetchExit |-> w.fetchExit, headOk |-> w.head = Base, install |-> w.install,
         pristine |-> w.pristine, post |-> [w.post EXCEPT !.lock = w.fetched], fetch |-> fetch,
         snapshot |-> IF terminal THEN <<>> ELSE <<Snapshot(w, fetch.post)>>,
         caches |-> IF terminal THEN <<>> ELSE <<CacheManifests(w.home)>>,
         members |-> IF terminal THEN <<>> ELSE DisposableMembers(w.membersExit, w.members)]

NonLock(a) == (a.post.tracked \ a.pristine.tracked) \ {"Cargo.lock"}
StateParity(a, b) ==
    [manifests |-> a.post.tomls = b.post.tomls, lock |-> a.post.lock = b.post.lock,
     config |-> a.post.config = b.post.config, toolchain |-> a.post.toolchain = b.post.toolchain,
     tracked |-> a.post.tracked = b.post.tracked, diff |-> a.post.diff = b.post.diff,
     members |-> a.members = b.members, install |-> a.install = b.install]
EvidenceParity(a, b) ==
    [fetch |-> a.fetch.status = "ok" /\ b.fetch.status = "ok",
     unchanged |-> a.fetch.pre = a.fetch.post /\ b.fetch.pre = b.fetch.post,
     cache |-> DifferingPaths(a.caches[1].semantic, b.caches[1].semantic) = {},
     metadata |-> a.snapshot[1].ok /\ b.snapshot[1].ok,
     graph |-> a.snapshot[1].ok /\ b.snapshot[1].ok /\ a.snapshot[1].graph = b.snapshot[1].graph,
     generated |-> a.snapshot[1].lock = b.snapshot[1].lock]

InstallFailure == "COREUTILS_ACQUISITION_INSTALL_FAILURE"
Unparseable == "COREUTILS_CARGO_INDEX_CACHE_UNPARSEABLE"
Unauthorized == "COREUTILS_ACQUISITION_UNAUTHORIZED_MUTATION"
Nondeterministic == "COREUTILS_ACQUISITION_NONDETERMINISTIC"
Frozen == "publisher_install_resolved_dependency_snapshot"
PristineState == "pristine_dependency_state"
Eligible == {Frozen, PristineState}

(* The common ladder of the producer and of the verifier.                  *)
Ladder(a, b, unparseable, others, lockPresent) ==
    LET state == StateParity(a, b)
        statuses == {a.fetch.status, b.fetch.status}
    IN  IF a.install.exit # 0 \/ b.install.exit # 0 THEN InstallFailure
        ELSE IF FetchFailure \in statuses THEN FetchFailure
        ELSE IF FetchMutation \in statuses THEN FetchMutation
        ELSE IF unparseable THEN Unparseable
        ELSE IF ~(state.config /\ state.toolchain) \/ NonLock(a) # {} \/ NonLock(b) # {} THEN Unauthorized
        ELSE IF ~(AllOf(state) /\ others) THEN Nondeterministic
        ELSE IF lockPresent THEN Frozen ELSE PristineState
Complete(a, b) == a.caches # <<>> /\ b.caches # <<>>
ClassifyAcquisitions(a, b) ==
    Ladder(a, b, Complete(a, b) /\ a.caches[1].unparseable \cup b.caches[1].unparseable # {},
           Complete(a, b) /\ AllOf(EvidenceParity(a, b)),
           Complete(a, b) /\ a.snapshot[1].lock # <<>> /\ b.snapshot[1].lock # <<>>)

(* The declared patches over an acquisition, and the comparison of both.   *)
Finalize(w) == [state |-> w.final, members |-> w.finalMembers, ok |-> w.gold /\ w.test /\ w.resetFailed = {}]
FinalParity(fa, fb) == fa.ok /\ fb.ok /\ fa.state = fb.state /\ fa.members = fb.members

-----------------------------------------------------------------------------
(* The measured arms.  A stream is [tests, summary, status, duration]: the *)
(* tests shown as executed and passed, the result line, how many of        *)
(* cargo's status lines, and its duration.  The policy drops the last two. *)

Argv(role) == IF role = "rtk" THEN <<"rtk-bin", "cargo", "test">> ELSE <<"cargo", "test">>
ContractEnv == [toolchain |-> "1.81.0", offline |-> "true", threads |-> "1"]
Canonical(stream) == [stream EXCEPT !.status = 0, !.duration = 0]
RemovedDiag(stream) == stream.status
ExecutedOk(stream, exit) == exit = 0 /\ "target" \in stream.tests /\ stream.summary = "ok"
MutationOk(r) == r.repoOk /\ r.cacheOk /\ r.toolchainOk

MeasureArm(role, reps, env) ==
    [argv |-> Argv(role), env |-> env, reps |-> 3,
     runs |-> [i \in Reps3 |-> [exit |-> reps[i].exit, timedOut |-> reps[i].timedOut, raw |-> reps[i].stream,
                                canonical |-> Canonical(reps[i].stream), removed |-> RemovedDiag(reps[i].stream)]],
     mutation |-> [i \in Reps3 |-> [repoOk |-> reps[i].repoOk, cacheOk |-> reps[i].cacheOk,
                                    toolchainOk |-> reps[i].toolchainOk]]]
Deterministic(arm) == \A i, j \in Reps3 : arm.runs[i].canonical = arm.runs[j].canonical
ExitStable(arm) == \A i, j \in Reps3 : arm.runs[i].exit = arm.runs[j].exit
RawQualified(arm) ==
    /\ Deterministic(arm) /\ ExitStable(arm) /\ arm.argv = Argv("raw")
    /\ \A i \in Reps3 : /\ ~arm.runs[i].timedOut /\ MutationOk(arm.mutation[i])
                        /\ ExecutedOk(arm.runs[i].raw, arm.runs[i].exit)
    /\ \A i, j \in Reps3 : arm.runs[i].raw.tests = arm.runs[j].raw.tests

-----------------------------------------------------------------------------
(* The toolchain pins, and the chain of RTK's own sources: a source file   *)
(* is [path, roles, defs, refs].                                           *)

Pins == [manifest |-> "m", date |-> "d", cargo |-> "c", rustc |-> "r", rust |-> "t", host |-> "h", channel |-> "1.81.0"]
EnforceToolchain(t) == (\A k \in DOMAIN Pins : t.pins[k] = Pins[k]) /\ t.installed /\ t.binaries
DeriveToolchain(t) == (\A k \in DOMAIN Pins : t.pins[k] = Pins[k]) /\ t.binaries

ChainOrder == <<"cli_dispatch_cargo_test", "cargo_filter", "cargo_parser", "summary_formatter">>
EdgeCandidates(files, from, to) ==
    {<<f.path, t.path, s>> : f \in {x \in files : from \in x.roles}, t \in {x \in files : to \in x.roles},
                             s \in UNION {x.defs : x \in files}}
Resolved(files, e) ==
    /\ e[1] # e[2]
    /\ \E f, t \in files : f.path = e[1] /\ t.path = e[2] /\ e[3] \in t.defs /\ e[3] \in f.refs
ResolveEdge(files, from, to) ==
    LET found == {e \in EdgeCandidates(files, from, to) : Resolved(files, e)}
    IN  IF found = {} THEN <<>> ELSE <<CHOOSE e \in found : TRUE>>
RtkChain(files) ==
    [head |-> "pinned", anchored |-> {r \in ToSet(ChainOrder) : \E f \in files : r \in f.roles},
     edges |-> [i \in 1..3 |-> ResolveEdge(files, ChainOrder[i], ChainOrder[i + 1])]]
ChainHolds(chain, retained) ==
    /\ chain.head = "pinned" /\ ToSet(ChainOrder) \subseteq chain.anchored
    /\ \A i \in 1..3 : chain.edges[i] # <<>> /\ Resolved(retained, chain.edges[i][1])

-----------------------------------------------------------------------------
(* The record.  files is everything under the evidence directory, the      *)
(* manifest what the record lists of it.                                   *)

RawUnqualified == "COREUTILS_RAW_NOT_QUALIFIED"
Unproven == "RTK_DIALECT_UNPROVEN"
PinsUnverified == "COREUTILS_TOOLCHAIN_PINS_UNVERIFIED"
NoIsolation == "REJECTED_NO_ISOLATION"
FinalFailure == "COREUTILS_FINAL_INPUT_PARITY_FAILURE"
AcquisitionFailures == {InstallFailure, Nondeterministic, Unauthorized, PinsUnverified, FinalFailure, NoIsolation,
                        Unparseable, FetchFailure, FetchMutation}

StreamFiles(arm, role) ==
    [p \in {role} \X {"capture", "canonical", "mutation"} \X Reps3 |->
        CASE p[2] = "capture" -> <<arm.runs[p[3]].raw>> [] p[2] = "canonical" -> <<arm.runs[p[3]].canonical>>
          [] p[2] = "mutation" -> <<arm.mutation[p[3]]>>]
CacheFiles(acq) ==
    [p \in {q \in Labels2 \X {"cache", "graph", "lock"} : q[2] = "lock" => acq[q[1]].fetch.post # <<>> /\ acq[q[1]].snapshot # <<>>} |->
        LET a == acq[p[1]]
        IN  CASE p[2] = "cache" -> IF a.caches = <<>> THEN <<>> ELSE <<a.caches[1].payloads>>
              [] p[2] = "graph" -> IF a.snapshot = <<>> THEN <<>> ELSE <<a.snapshot[1].graph, a.snapshot[1].lock>>
              [] p[2] = "lock"  -> a.snapshot[1].lock]
Joined(f, g) == [p \in DOMAIN f \cup DOMAIN g |-> IF p \in DOMAIN g THEN g[p] ELSE f[p]]
Manifest(files) == {<<p, files[p]>> : p \in DOMAIN files}

Nothing == <<>>
Diagnostic(outcome, w, acq, final, arms, files) ==
    [rec |-> [outcome |-> outcome, pass |-> FALSE, eligibility |-> "UNDETERMINED", toolchain |-> w.toolchain, acq |-> acq,
              classification |-> IF acq = <<>> THEN "none" ELSE ClassifyAcquisitions(acq[1].A, acq[1].B),
              final |-> final, arms |-> arms, chain |-> RtkChain(w.rtkSources), env |-> w.env, manifest |-> Manifest(files)],
     files |-> files, rtkSources |-> w.rtkSources]

Diagnose(w) ==
    LET acq   == [l \in Labels2 |-> Acquire(w[l])]
        class == ClassifyAcquisitions(acq.A, acq.B)
        final == [l \in Labels2 |-> Finalize(w[l])]
        raw   == MeasureArm("raw", w.raw, w.env)
        rtk   == MeasureArm("rtk", w.rtk, w.env)
        kept  == CacheFiles(acq)
        rawKept == Joined(kept, StreamFiles(raw, "raw"))
    IN  IF ~EnforceToolchain(w.toolchain) THEN Diagnostic(PinsUnverified, w, Nothing, Nothing, Nothing, Nothing)
        ELSE IF ~w.isolated THEN Diagnostic(NoIsolation, w, Nothing, Nothing, Nothing, Nothing)
        ELSE IF class \notin Eligible THEN Diagnostic(class, w, <<acq>>, Nothing, Nothing, kept)
        ELSE IF ~FinalParity(final.A, final.B) THEN Diagnostic(FinalFailure, w, <<acq>>, final, Nothing, kept)
        ELSE IF ~RawQualified(raw) THEN Diagnostic(RawUnqualified, w, <<acq>>, final, [raw |-> raw], rawKept)
        ELSE Diagnostic(Unproven, w, <<acq>>, final, [raw |-> raw, rtk |-> rtk], Joined(rawKept, StreamFiles(rtk, "rtk")))

-----------------------------------------------------------------------------
(* The verifier. *)

RequiredPaths(rec) ==
    LET roles == IF rec.outcome = Unproven THEN {"raw", "rtk"} ELSE IF rec.outcome = RawUnqualified THEN {"raw"} ELSE {}
    IN  (roles \X {"capture", "canonical", "mutation"} \X Reps3)
        \cup (IF roles = {} THEN {} ELSE Labels2 \X {"cache", "graph"})
        \cup (IF roles # {} /\ rec.classification = Frozen THEN Labels2 \X {"lock"} ELSE {})
ManifestHolds(rec, files, external) ==
    /\ rec.manifest # {} /\ Cardinality(PathsOf(rec.manifest)) = Cardinality(rec.manifest)
    /\ \A e \in rec.manifest : e[1] \in DOMAIN files /\ files[e[1]] = e[2]
    /\ RequiredPaths(rec) \subseteq PathsOf(rec.manifest)
    /\ rec.outcome \in {Unproven, RawUnqualified} => external # <<>>
    /\ external # <<>> =>
          /\ \A e \in external[1] : e[1] \in DOMAIN files => files[e[1]] = e[2]
          /\ RequiredPaths(rec) \subseteq PathsOf(external[1])
          /\ \A e \in rec.manifest, f \in external[1] : e[1] = f[1] => e[2] = f[2]

AcquisitionHolds(a) ==
    /\ a.fetchExit = 0 /\ a.headOk /\ a.pristine.tracked = {}
    /\ \A k \in {"tomls", "config", "toolchain"} : a.pristine[k] = a.post[k]
    /\ NonLock(a) = {}

At(files, p) == IF p \in DOMAIN files THEN files[p] ELSE <<>>
RederiveArm(arm, files, role) ==
    LET capture(i) == At(files, <<role, "capture", i>>)
        canonical(i) == At(files, <<role, "canonical", i>>)
    IN  \A i \in Reps3 :
          /\ capture(i) # <<>> /\ canonical(i) # <<>>
          /\ capture(i)[1] = arm.runs[i].raw /\ Canonical(capture(i)[1]) = canonical(i)[1]
          /\ canonical(i)[1] = arm.runs[i].canonical /\ RemovedDiag(capture(i)[1]) = arm.runs[i].removed
          /\ role = "raw" => ExecutedOk(capture(i)[1], arm.runs[i].exit) = ExecutedOk(canonical(i)[1], arm.runs[i].exit)
DeterministicCaptures(files, role) ==
    /\ \A i \in Reps3 : At(files, <<role, "capture", i>>) # <<>>
    /\ \A i, j \in Reps3 : Canonical(files[<<role, "capture", i>>][1]) = Canonical(files[<<role, "capture", j>>][1])
TargetFromCaptures(arm, files) ==
    \A i \in Reps3 : /\ At(files, <<"raw", "capture", i>>) # <<>>
                     /\ ExecutedOk(files[<<"raw", "capture", i>>][1], arm.runs[i].exit)

GraphStructure(g) ==
    /\ g.roots # {} /\ g.roots \subseteq NodeIds(g.nodes)
    /\ Cardinality(NodeIds(g.nodes)) = Cardinality(g.nodes)
    /\ \A n \in g.nodes : n.deps \subseteq NodeIds(g.nodes)
    /\ Reachable(g.roots, g.nodes) = NodeIds(g.nodes)
DependencyFetchHolds(a, lock) ==
    a.fetch.status = "ok" /\ a.fetch.run = <<[exit |-> 0, timedOut |-> FALSE]>> /\ a.fetch.pre = lock /\ a.fetch.post = lock
(* Everything of one acquisition that the retained files must confirm.     *)
LabelHolds(a, files, l) ==
    LET lock == At(files, <<l, "lock">>)
        kept == At(files, <<l, "graph">>)
    IN  /\ lock # <<>> /\ kept # <<>> /\ a.snapshot # <<>>
        /\ kept[1] # <<>> /\ GraphStructure(kept[1][1])
        /\ kept[1][1].scope = "host-filtered" /\ kept[1][1].reachable = Reachable(kept[1][1].roots, kept[1][1].nodes)
        /\ a.snapshot[1].graph # <<>>
        /\ Cardinality(a.snapshot[1].graph[1].reachable) = Cardinality(kept[1][1].reachable)
        /\ a.post.lock = lock /\ a.snapshot[1].lock = lock /\ kept[2] = lock
        /\ DependencyFetchHolds(a, lock)
EqualAcross(files, k) == LET f == At(files, <<"A", k>>) IN f # <<>> /\ f = At(files, <<"B", k>>)
EqualGraphs(files) ==
    LET f == At(files, <<"A", "graph">>)
        g == At(files, <<"B", "graph">>)
    IN  f # <<>> /\ g # <<>> /\ f[1] = g[1] /\ f[1] # <<>>
DeriveClassification(rec, files) ==
    LET a == rec.acq[1].A
        b == rec.acq[1].B
        holds == \A l \in Labels2 : LabelHolds(rec.acq[1][l], files, l)
    IN  Ladder(a, b, Complete(a, b) /\ a.caches[1].unparseable \cup b.caches[1].unparseable # {},
               /\ \A l \in Labels2 : At(files, <<l, "lock">>) # <<>> /\ DependencyFetchHolds(rec.acq[1][l], At(files, <<l, "lock">>))
               /\ EqualAcross(files, "cache") /\ EqualAcross(files, "lock") /\ EqualGraphs(files), holds)

RawGates(rec, files) ==
    [determinism |-> DeterministicCaptures(files, "raw"),
     target |-> TargetFromCaptures(rec.arms.raw, files),
     mutation |-> \A i \in Reps3 : MutationOk(rec.arms.raw.mutation[i]),
     exit |-> ExitStable(rec.arms.raw), argv |-> rec.arms.raw.argv = Argv("raw"), env |-> rec.env = ContractEnv]
(* <<accepted, normative evidence eligible>>                               *)
Verify(d, external) ==
    LET rec == d.rec
        complete == rec.outcome \in {Unproven, RawUnqualified}
        common == rec.pass = FALSE /\ rec.eligibility = "UNDETERMINED"
        listed == rec.outcome \in {PinsUnverified, NoIsolation} \/ ManifestHolds(rec, d.files, external)
        acquired == \A l \in Labels2 : AcquisitionHolds(rec.acq[1][l])
        derived == DeriveClassification(rec, d.files)
        proven == /\ common /\ listed /\ acquired /\ DeriveToolchain(rec.toolchain)
                  /\ derived \in Eligible /\ derived = rec.classification
                  /\ \A l \in Labels2 : LabelHolds(rec.acq[1][l], d.files, l)
                  /\ FinalParity(rec.final.A, rec.final.B)
                  /\ \A r \in {"raw", "rtk"} : /\ rec.arms[r].argv = Argv(r) /\ rec.arms[r].reps = 3
                                               /\ \A i \in Reps3 : MutationOk(rec.arms[r].mutation[i])
                                               /\ RederiveArm(rec.arms[r], d.files, r)
                                               /\ DeterministicCaptures(d.files, r)
                  /\ rec.env = ContractEnv /\ rec.arms.raw.env = rec.arms.rtk.env
                  /\ TargetFromCaptures(rec.arms.raw, d.files) /\ ChainHolds(rec.chain, d.rtkSources)
    IN  IF rec.outcome \in AcquisitionFailures
        THEN <<common /\ listed /\ (rec.outcome \in {PinsUnverified, NoIsolation} \/ rec.acq # <<>>), FALSE>>
        ELSE IF rec.outcome = RawUnqualified
        THEN <<common /\ listed /\ acquired /\ RederiveArm(rec.arms.raw, d.files, "raw") /\ ~AllOf(RawGates(rec, d.files)), FALSE>>
        ELSE IF rec.outcome = Unproven THEN <<proven, proven>> ELSE <<FALSE, FALSE>>
=============================================================================
