# A TLA+ model of qodec

qodec turns repetitive text into a shorter, self-describing artifact and back.
Around the codecs stand an evidence path (an artifact is opened as a store, a
model may only query it, every answer is verified against the result it cites)
and a body of evaluation tools that decide, from journals, receipts and sealed
records, which measurements may be believed. This directory models the three,
checks the models with TLC and proves the central results with TLAPS.

Run inside this directory, e.g. `tlc -workers 2 -config MCPanelSession.cfg
MCPanelSession` or `tlapm SessionProofs.tla`.

## The system

Rust sources are under `src/src/`; Python under `src/evals/interop/`, where
*d1* is `v2/n2/d1-identity-lock/tools` and *n2e* is
`v2/n2/e-rtk-native-corpus/tools`.

| Component | Source | State it keeps | Operations | Model |
|---|---|---|---|---|
| canonical store | `store.rs` | records, sections, indexes; immutable once open | `StorePlan::new`, `open`, `lookup`, `intersect`, `scan_*`, `materialize` | `StoreOpen`, `CanonicalStore`, `IntersectScan` |
| identities | `canon.rs` | none | canonical bytes and digests | operators of `QueryExecution`, `CanonicalStore` |
| query, registry | `query.rs` | issued results by handle | `execute`, `issue`, `evict`, `verify` | `QueryExecution`, `QueryRegistry` |
| panel session | `panel.rs` | registry, scope per handle, transcript, counter | the six tool calls, `evict` | `PanelSession`, `EvidencePromise` |
| forced-query cell | `cell.rs` | turns, accounting, outcome | `run_forced_query_cell`, `dispatch`, `finish` | `ForcedCell` |
| provider crossing | `provider.rs` | attempts of one crossing | `deliver`, `exchange` | `ForcedCell` |
| container, decoding | `container.rs`, `lib.rs` | none | `emit`, `parse`, `decode_once`, `decode_all` | `ArtifactText` |
| encoding pipeline | `main.rs`, `mine.rs`, `legend.rs`, `rules.rs`, `mosaic.rs`, `alias.rs` | text, commits, key | `cmd_encode` and its stages | `EncodePipeline` |
| profile memory | `profile.rs`, `main.rs` | a JSON file, a temporary file | `load`, `learn_from`, `save`, `learn`, `train` | `ProfileFile` |
| reader benchmark | `run_reader.py`, `score_reader.py`, `bench/` | journal, receipt, manifest, run state | preflight, two passes, resume, scoring | `BenchMatrix`, `ReaderScoring` |
| loss analysis | `bench/failure_decomp.py`, `analyze_ablation.py` | none | labels, verdicts, ranking | `LossMechanism`, `AblationAnalysis` |
| capture, canonicalization | d1: `run_pilot_case.py`, `generic_capture.py`, canonicalizers, `verify_pilot_pair.py` | a capture directory | capture, receipt, pair verification | `Canonicalizer`, `D1Capture`, `PilotPair` |
| evidence records | d1: builders and verifiers | sealed JSON records that pin one another | build, verify, close | `TokenMeasurement`, `Stage2Acceptance`, `EvidenceChain` |
| source freeze | `v2/n2` selection and acquisition tools | registry, manifests, receipt | select, replace, acquire, freeze | `SourceSelection`, `SourceRegistry`, `SourceAcquisition` |
| case runner | n2e: `run_canary_case.py` | working tree, arms, record | acquire, repeat, guard, decide, audit | `CanaryCase` |
| oracles | n2e: `n2e_oracles.py`, dialects, adapters, policies | none | summarise, compare | `CaseOracles` |
| coreutils diagnostic | n2e: `probe_`, `verify_coreutils_diagnostic.py` | evidence directory | observe, classify, verify | `CoreutilsDiagnostic` |
| resolved twelve | n2e: loader, probes, builders, aggregator | records and retained evidence | load, qualify, aggregate | `ResolvedClosure`, `ResolvedTwelve` |

What is left out of each, and the components that are left out whole, are at
the end.

How they meet: the cell drives the session and the crossing; the session owns
one store and one registry; a store decodes an artifact by the same rules as
the command line. Learn and train runs meet only in the file system. In the
evaluation, processes meet only in files: a journal outlives the process that
wrote it, a receipt pins a prefix of it, a record carries the hash of what it
was built from, and every consumer recomputes the hash before it believes.

What is hard: bounds met half way through a scan; handles that went stale or
belong elsewhere; two maps that must move together; bills and transcripts that
must survive refusals; retries that must not buy a second generation;
processes that overlap, die or lose power between two steps; answers of two
experiments in one journal; a measured command that edits the very tree it is
measured on; records rebuilt after something else linked to them; payloads
that look like the format they are wrapped in. `PROJECT.json` lists each at its
line under `hazards`.

## The modules

### Evidence path

**CanonicalStore** holds operators only: ids, key extraction, indexes, bounded
scans, materialization, and the *reference* reads `LookupAll` and
`IntersectAll`, which look at records and not at indexes. Names and keys enter
the code only through equality and byte order, so they are numbers (ranks). A
digest is the value it digests: `canon.rs` frames every component and separates
the domains, and SHA-256 is taken to be injective.

**StoreOpen** is `StorePlan::new`, `open` and `segment` step by step: the plan
check, one `decode_once` per declared layer, one step per line. An artifact is
the sequence of texts that decoding it again and again leaves, so a payload that
looks like a container has one more reading. **IntersectScan** extends it with
the loop of `scan_intersect`, one step per index key, over any open store.

**QueryExecution** is `execute` and `verify` with the identities they compute;
**QueryRegistry** runs them over several stores, plans, schemas and limits that
share one registry, with eviction.

**PanelSession** is one session. Each public method is one action, since the
methods take `&mut self`. A refusal is an event like any other.
**EvidencePromise** is what the session is for, with no registry, handle, bound
or transcript: bytes are disclosed only as evidence of an open question, and an
answer is accepted only if it is the one true answer of an open question.
`PanelSession!KeepsPromise` is the refinement: a question is a canonical query,
open while a result for it is issued.

**ForcedCell** extends `PanelSession` with the loop of the cell, `deliver` and
`exchange`. Network and model are the environment: a send is lost, loses its
body after the headers, or brings an envelope that is accepted, refused or
unreadable, with or without counters and a model name; a reply holds any calls
over the handles given so far. `wire` is a history variable, what every send
came to.

### Codec

**ArtifactText** is an artifact as a sequence of symbols, and how it is read:
`parse` on whatever the header says, one layer, all layers, mosaic frames, the
dictionary of `mine`, and the two pinned keys. A number in a header or a frame
is a row of tallies: of decimal numerals only that different ones differ is
used. **EncodePipeline** is
`cmd_encode` as steps: pre-pass with a key, first stage, the miner's commits,
acceptance, wrapper. Whatever the token meter decides (which phrase, which
alias, whether a stage pays) is a choice, so a result holds for every meter.
`Jobs` are the inputs: a text and the key the caller gives, as `legend.rs` and
`rules.rs` would have loaded it (`JobsAssumption`). Recursion is written as
functions over texts, which TLC evaluates and the proofs reason about.

**ProfileFile** is `qodec learn` and `qodec train`: load, one step per input, and
`save` as the system calls it makes: open (which truncates), write in pieces,
rename. Files are inodes with two names, so a rename publishes whatever the
temporary name leads to by then. A process may start while another runs (the
code takes no lock) and may stop anywhere. `load` checks the version and the
shape of the entries and nothing else (`profile.rs:52-106`): it refuses half a
text, but a file in which two overlapping saves left their pieces may parse, as
either or as what neither wrote. A file therefore keeps, at each place, every
piece written there, and a mixed one is refused or read as one of its writers or
as one of `Splices` (`Readings`): more readings than bytes of one length would
allow. A spliced text that lists a phrase twice is not among them. Templates
merge and are capped exactly as phrases and are left out.

### Evaluation

**BenchMatrix** is a run directory over time: `matrix.py` over the journal of
`durability.py`. The page cache holds the whole journal; a loss of power keeps
what was synced and perhaps some lines after it, possibly a torn last one. A
process starts fresh or resumes, negotiates a contract with whichever endpoint
listens, answers what is due, writes the pass-1 receipt,
flags repeats, closes. `Crash`, `PowerLoss` and `Damage` (something else edits a
finished first pass) happen at any step. **ReaderScoring** says what the journal
comes to.

**D1Capture** is one capture by one process, gate by gate; **PilotPair** runs it
into two directories, again and again, with processes that die between two
writes while the policy of the case is edited; **EvidenceChain** builds, edits
and verifies the records of the identity lock in every order. `MCIdentityLock`
composes the last two: records may be built once a pair has passed, or from an
earlier run.

**CanaryCase** is one native-corpus case from its gates to its record: the
acquisition routes in the publisher's order, three repetitions per arm in fresh
copies, guards, decision, and the verifier of the acquisition order over the
record. A file is the set of edits made to its committed version; what a
measured command does to the frozen tree is not undone.

**CoreutilsDiagnostic**, **ResolvedClosure** and **ResolvedTwelve** are functions
from a *world* (what the machine answers, what is on disk) to a record or a
refusal, with the verifiers that read it back. The remaining modules of the
table are pure algorithms; their checks are assumptions that TLC evaluates over
bounded inputs (below).

## The runs

| Run | Bounds | What it asks |
|---|---|---|
| `store_open` | 2 opens over the artifacts of `MCStoreOpen` (nested and container-shaped payloads, bad and repeated markers, depth 0 to 2); every text of 2 + 2 records over 3 keys scanned under 3 candidate and 4 support budgets | every line is one record; opening gives exactly what is declared; ids resolve in their own store only; the scanning loop agrees with its one-expression definition and is complete exactly when it met no bound |
| `query_registry` | 2 live results, 1 remembered verdict, two artifacts, two plans, several limits, a schema with no encoder | a valid verdict proves the sole answer in *that* store; asking again never gives another verdict except "stale" |
| `panel_session` | 3 calls in every order, eviction, a foreign handle | accepted answers are true, reads are downstream of queries, no gap in the transcript, only live handles authorize; refinement of `EvidencePromise` |
| `forced_cell_wire` | 3 turns, 2 attempts, 1 call per reply, 7 kinds of envelope | record against wire, the bill, comparability, termination |
| `forced_cell_dialogue` | 2 turns, 2 calls per reply, 3 queries, a foreign handle | protocol, scoring, completeness of the transcript |
| `profile_file` | 2 processes, 3 runs, 3 phrases of which 2 are kept | memory across runs and crashes; what overlap can do, also through a file of two mixed saves |
| `profile_overlap` | the same | *violated*: see Findings |
| `encode_pipeline` | 17 jobs (repeats, alias symbols, sigils and delimiters already in the text, containers, a header but for its sigil; no key, two legends, two rule sets), 2 commits, phrases of 2, one glyph, one sigil index, mosaics of two regions | decoding gives the input back; the reader is asked for the key that was used; miscounted mosaics are refused |
| `rules_key` | one job | *violated*: see Findings |
| `bench_matrix` | 2 questions, 2 repeats, `SyncEvery` 2, 2 crashes, 1 damage, 4 endpoints, 1 answer that breaks its line | what the receipt, the resumed run, "complete" and the verdict may be trusted for; that a run is scored in the end, unless that answer was journalled before a death |
| `identity_lock` | 5 jobs, 3 attempts, 1 edit of a record | a passed pair is two accepted captures; accepted counts follow from the legs on disk; a closure that is stale in what a verifier compares is refused |
| `canary_case` | 5 routes, 2 variants, 3 gold patches, 3 repetitions | an audited pass was measured on the declared input; a mutation verdict is never about a declared patch |

Why the bounds are enough. A verdict depends on one result and a result on one
query, so two stores, two plans and two live results show every mix-up of
identities. The scan is checked for every text of its instance. The cell needs
two turns for an order and three for a middle one. A phrase of two symbols
inside a text that repeats it gives a second commit that contains the alias of
the first, which is what the order of expansion is about. Two questions give a
flagged and an unflagged one; `SyncEvery` 2 leaves one answer in the cache; two
crashes let an unsynced tail be lost twice. Two captures make a pair, three
attempts leave one directory captured into again. Three repetitions is the
code's own `REPS`. `ProvenCount` 2 stands for the 346 packages of the proven
dependency closure: the code only compares it.

`MaxCalls`, `MaxLive`, `MaxVerdicts`, `MaxOpens`, `MaxRuns`, `CallsPerReply`,
`MaxEntries`, `MaxPhrase`, `MaxBreaking`, `MaxCrashes`, `MaxDamage`, `Attempts` and `MaxEdits`
bound the exploration and are not in the code; `MaxTurns`, `MaxAttempts`,
`Repeats`, `SyncEvery`, `ByteCap` and `Reps` are the code's own parameters.
`CHECK_DEADLOCK FALSE` stands where the system ends.

**Fairness.** `Terminates` assumes weak fairness of the cell's next-state
relation: sequential code that waits only for a send, on a transport that cannot
be built without a timeout of at least a second (`provider.rs:1832`).
`EventuallyScored` assumes that a live process goes on (`WF(Step)`) and that
somebody starts an unfinished run again under an endpoint the run can go on with
(`WF(Retry)`), which is how the runner is meant to be used; crashes and damage
are bounded, as no run finishes under endless ones. A loss of power keeps what
`fsync` returned for. No fairness helps a run whose process died after an answer
with U+0085, U+2028 or U+2029 was journalled (see Findings): resuming it is
refused for ever. Such answers are among the outcomes of `bench_matrix`, at most
`MaxBreaking` in a journal, and the property names them as the one other end: a
run is scored, or damaged, or stays off with such an answer in its journal.

**Mutants.** Every property of a passing run has a mutant in `PROJECT.json`: a
plausible slip in the code that breaks it. They stand beside the definition they
replace and are used nowhere else.

### Checked as assumptions

`MCBenchMatrix`, `MCIdentityLock`, `MCCanary` and `MCEncodePipeline` state facts
about algorithms as named ASSUMEs, each with a comment; a false one fails the run. Among them: a passed
score has no confirmed loss (`PassHasNoConfirmedLoss`); canonicalizing twice is
canonicalizing once; a policy edited after it was sealed refuses;
a swapped pair is never accepted; the selection of sources reproduces the
committed record; every edit of a manifest, record, closure or piece of evidence
in the instance is refused, except those listed as unchecked; an honest
diagnostic verifies, and one with exchanged evidence does not.

## Findings

* `profile_overlap`: `profile.rs:133` calls `save` an atomic replace that an
  interruption cannot turn into a corrupt profile. The temporary name is the
  same for every save, so two overlapping saves share a file: the first rename
  publishes it while the second is still filling it, and if the second stops
  there the profile stays unreadable. Without overlap the claim holds for every
  crash (`RemembersSavedRuns`).
* `rules_key`: a later rule that matches wholly inside a value of an earlier
  span nests a span in a span, and decoding under the right key silently gives
  other bytes, against `rules.rs:19`, `rules.rs:142` and `tests/rules.rs:222`.
  `DecodesToTheInput` holds for keys whose rules do not meet inside a value.

Met while modelling, with no run of their own (those with a name are assumptions
that hold):

* Legend: `legend.rs:222` asks whether an alias is *contained in* the recorded
  aliases put together. With a hand-edited legend of overlapping aliases an
  unused one is expanded, against `legend.rs:17` (`OverlappingAliasesMisread`).
  A pre-pass can turn a malformed header into a container's
  (`PrepassMakesAContainer`).
* `cell.rs:166` says `operation_call_count` is the wire count minus the answer;
  a call of an unknown tool is on the wire and is neither (`cell.rs:760`).
* Journal: a line holding U+2028, U+2029 or U+0085 raises a corruption error on
  every resume, since the reader splits on more than the writer ends lines with
  (`durability.py:147` and `:104`), and a run resumed after one is never finished
  (the second disjunct of `EventuallyScored`). One that was not interrupted
  finishes, but its scorers split the same way (`score_reader.py:228`,
  `failure_decomp.py:83`). `score_reader.py:166` reads a retention of
  0.0 as 1.
* Captures: a repeated capture that fails before its run keeps the old receipt;
  the pair verifier ignores the failure file and the exit code. A network probe
  that cannot be read counts as blocked (`UnreadableProbesPass`). Swapping two
  vstest lines of which the last has no line ending glues them (`SwapGlues`).
  The pair verifier compares canonical bytes only up to the cap of 4 MiB and
  never the two identities from before it
  (`verify_pilot_pair_reproducibility.py:427`), so beyond the cap one capture may
  have a whole replaced line more than the other (`TailsMayDifferInLength`). The
  attempt to prove that the outputs differ in tokens only found it; the property
  now says so of the part that is kept, and of the rest that a line the other
  output does not have is one the report replaced.
* Evidence chain: the closure copies more than its verifier compares. Of
  `n2d1-contract.json` the builder copies the build mechanism, the invocation
  and the selected identity and compares the meter's hash with it
  (`build_n2d_current_identity_closure.py:417`, `:418`, `:430`, `:442`); the
  verifier asks only that the file is there
  (`verify_n2d_current_identity_closure.py:104`). Of a case it copies the input
  path, release tag, asset name, size and selection rule or ecosystem
  (`:132-138`, `:152-157`, `:169-173`) and of the rejection record its
  classification (`:408`), none of which is compared either. After an edit of
  one of these a closure verifies that the builder would no longer write.
  And after an edit of `rust-toolchain.toml` or the loss of a static case's
  input path it verifies although nothing can be built any more (`:365`,
  `:148`). `StaleClosureIsRefused` speaks of what is compared (`Compared`) and
  names the rest. `identity_lock` makes these edits, but for those of the stage-2
  record, which the verifier holds to a pinned seal: there it takes an edit before
  the build and another that undoes it.
* Source freeze: a failed acquisition while others fold moves the recomputed
  selection (`FoldingOneFailureMovesTheSelection`); links in zip archives are
  not inspected (`ZipLinksAreNotInspected`); a complete receipt says nothing of
  manifests (`CompleteIsOfTheRegistryOnly`).
* Case runner: exceptions before the main `try` leave no record; the guard after
  a measurement reads the frozen tree, by status line, so a second change of an
  already changed file is unseen; a failed reset of a test file is only in the
  list the audit reads.
* Oracles: a passing snapshot needs no recognised summary
  (`PassingNeedsNoSummary`); some agreements are nearly vacuous (`WeakOracles`);
  dialect equivalence of Go and of tiered vitest ignores which tests failed.
* Diagnostic: one of its outcomes cannot occur (`PristineIsUnreachable`); RTK's
  guards and determinism are checked only by its verifier.
* Resolved twelve: a record refused after it was written stays and stops the
  aggregation (`RefusedRecordsStay`); a stale coreutils qualification blocks its
  own successor (`StaleQualificationBlocksItsSuccessor`); the generic builder
  takes the case from `--case` and never compares it with the observation
  (`AnotherCasesObservationBuilds`); the coreutils record names no code
  (`CoreutilsNamesNoCode`), and the migration bridge carries code drift
  (`BridgeCarriesCodeDrift`).
* `run_ablation.py --resume` compares no identity at all.

## What is proved

TLAPS checks every leaf; nothing is taken on trust.

**StoreProofs**, the store, for any artifacts, requests, indexes and budgets: every property
of the `store_open` run. `Divided` says what reading k lines of a text leaves,
and two lemmas without any state show that a line of either kind keeps it. That
needs more than the property: the last marker is the largest, no two markers
carry one name, and the next record's section and ordinal are those of its place.
From it, the place of a line is never taken (`PlacesDiffer`), so
`insert_record`'s refusal of an occupied place is never reached from `segment`.
`OpenReturnsWellFormed` says that what `open` returns is `WellFormed`, the
property the theorems below assume of a store. For the scan, `Collected` says
that the keys visited all precede those pending, that the qualifying ones among
them are stored whole and fit, and that the running total is the cardinality of
their union: two keys of an index share no record. `FitsIsDownward` then makes the
first key that does not fit the end of the whole scan.

**QueryExecutionProofs.** `ExecuteIsSound`: for every well-formed store, query
it does not refuse and positive limits, an exhausted execution has exactly the
true candidates and the true evidence for each, and any execution has only true
ones. `SpellingsShareAHandle`: spelling a query in another order or with
repetitions gives the same handle.

**StoreProofs**, the registry, for any stores, plans, queries and limits.
`RegistryHoldsExecutions`: under a handle is what a call with that handle
executed. `ValidVerdictsAreTrue` follows with `ExecuteIsSound`.
`RetriesNeverImprove` is not inductive: a verdict given before an eviction has
to agree with one on whatever is issued under the handle later. Its invariant
`GivenOnExecutions` says that a verdict was stale or is the one some execution
with that handle gives, and `SameHandleSameVerdict` that all of them decide
alike: support is bound to its store and the store's name is in the handle, so
the handle determines all a verdict reads.

**SessionProofs**, the session, for any store, limits and calls: `TypeCorrect`,
`AcceptedAnswersCorrect`, `ReadsCorrect`, `GaplessCorrect`,
`LiveHandlesCorrect`, `SessionKeepsPromise`. A verdict is
computed from the registry, and the registry is not the transcript; the
inductive invariant `LiveResults` ties them: registry and scope have the same
handles, what is stored is the result of executing some query here under its own
identity, its scope is its support, and the transcript has the event that issued
it.

**SessionProofs**, the cell, for any model, network, envelopes and budgets: every
safety property of the two cell runs. `CellDrivesASession`: every step of a cell
is a step of a session or leaves it alone, so the session's theorems hold in
every cell (`CellAnswersTrue`, `CellReadsDownstream`), and
`ScoredAnswersCorrect`: a cell scored correct has the expected answer proved
about its store. The rest goes through two summaries of the actions. Of the
record, a step is `Quiet`, `Resent` (one attempt more) or `Recorded` (the end of
a turn), and from that follow the budgets (`CellTypeCorrect`), the agreement of
record and wire (`RecordIsTheWire`, with `InOrder`: what was sent for a finished
turn came first, and headers end a turn), and `BilledSoFar` and `OneModelSoFar`,
which say of every moment what `BillsAreWhole` and `ComparableCellsHadOneModel`
say of the end. `BilledSoFar` is stronger than the property: the running bill is
known exactly when every generation so far told its price, and is then their sum.
Of the dialogue, a step is one of `Steps`; `Conversing` says
that a cell that is not done has heard operations only, and gives
`OneAnswerEndsACell`; `OperationsAreTranscribed` counts events against the calls
dispatched, where dropping the first of the calls waiting shifts the others.

**ProfileFileProofs**, for any number of processes and runs, any lessons and any
caps. `MemoriesAreHistories` lets runs overlap: each memory, and each piece in
any file, is of what some of the lessons taught so far add up to, in their order
(`Remembered`), until a run loads from a mixed file what no save had written
(`spliced`); after that nothing is claimed. That a run which overlaps no other
never does is part of the same proof.
`SavedRunsAreRemembered` and `ProfilesOnlyGrow` hold as long as no two runs have
overlapped, through any crashes: `Alone` says that then one process at most is
running, its memory is what the saved lessons and its own add up to, the
profile's name leads to the text of the saved ones, and the temporary file, which
is never the profile, holds the beginning of the text of the one memory.

**IdentityLockProofs**, the pair, for any jobs, number of attempts and cap:
`PairsAreTwoCaptures`. Three arguments meet. Of the directories, `PairInv`: what
a running capture has still to write is what its job and policy make of it, with
the output before the receipt, so a receipt always lies beside an output and is
that of a capture that completed, whoever else has written there since. The
verifier compares the receipt with that output, hence the output is the job's.
Of the alignment, `MatchedLinesAreEqual`: whatever block is the longest at each
depth, lines that are aligned are equal, so a line the verifier finds covered is
there on the other side or replaced. Of the canonicalizers, `AllRulesVariant`:
whatever the rules, a line comes out with its pieces, its places and its triggers,
and only tokens changed; so equal canonical lines mean outputs that differ in
tokens only.

**IdentityLockProofs**, the records, for any corpus, measurements and number of edits.
`AcceptedCountsHold` follows from what the verifiers compare: a seal is of one
body only, so the benchmark, the legs and the supplement that were linked are
the ones on disk. `NoStaleClosure` needs `ChainInv`: while nobody has touched
the closure it is one the builder can have `Written`, from whatever was on disk
then. Such a record has few free parts; the verifier compares with the disk, or
with a pin, each of those that `Compared` keeps.

Facts about sums and foldings of lists (`Bill`, `Charged`, `FlattenSeq`,
`Learnt`, the rules of a canonicalizer, the depths of an alignment) are proved by a least counterexample: the library's theorem that a
well-founded relation has minima takes no operator, and gives that values
computed one from the other exist (`RecursionExists`) and are unique
(`RecursionAgrees`).

**BenchMatrixProofs**, for any tasks, endpoints, outcomes, repeats, sync interval
and bounds on crashes and damage: every safety property of the run. The argument
is in layers, each using those before it. `Typed` gives the shapes; `Pinned`
that an undamaged receipt's prefix is synced, so no loss of power reaches it, and
that a process past its start has compared receipt and journal; `Bounded` counts
unsynced answers by process; `One` that in an undamaged directory every answer
was given under the manifest's contract, each key once, repeats only for what
the first pass flags; `Done` that what is closed has every wanted key and is
synced.

**CanaryCaseProofs**, for any routes, variants, gold patches and number of
repetitions: `AuditedPassesAreDeclared`, `MutationVerdictsHold`. The argument
follows the case. While the publisher's steps run, the tree without the install
step's edits is what the scenario has declared so far, provided no step failed
(`Acquiring`), and the boundaries tell whether the install step touched a
protected file (`InstallShows`). From the warm gate on, the tree and every copy
an arm read lie between the locked tree and the locked tree with measured edits
(`Measured`), and a passing record keeps that (`Passed`). One thing the runner
alone does not establish: after a reset that failed the test files are whatever
the install step left. The acquisition-order verifier refuses exactly those
records (`Audited`), which is why the property is about audited passes.

**EncodePipelineProofs**, for any text, key, glyphs, sigils and delimiters, any
first stage the model has and any decision of the meter: `EncodingDecodes`,
`AsksForItsKey`, `MosaicsAreWhole`. Three parts. About texts, that the recursive
functions exist and obey their equations (over the length of their argument),
that `replace` is undone by the inverse `replace` when the alias shares nothing
with the text (`ReplaceInverts`), and that `parse` gives back what `emit` wrote
(`ParseEmit`). About decoding, that it ends, since what is inside a layer has
fewer newlines than the layer, and that a mosaic body has one segmentation, of
which no prefix has one (`OneSegmentation`, `PrefixesMiscount`). About the
encoder, the inductive invariant `EncodeIInv`. At every step it says how to undo
what was done so far: the legend entries applied are those the header will list,
each alias absent from the text before it (`LegendAt`); the commits expand, last
first, to the staged text, and every alias in it was in none of what came before
(`Dictionary`); what is staged, mined or wrapped decodes to the same text.
`EncodingDecodes` excepts exactly the artifacts that pin a rules key, of which
`rules_key` refutes it; `AsksForItsKey` is about both kinds. For legends it
needs what their aliases may not share (`HandedOut`). Those that
`qodec legend` generates satisfy it; for a hand-edited legend the theorem is
false (`OverlappingAliasesMisread`).

**Assumptions.** The named ASSUMEs of the modules, evaluated by TLC in the runs:
readings are sequences of lines, equal digests mean equal readings, two different
stores differ in identity and each is well formed (`OpenReturnsWellFormed`),
limits are natural numbers (positive where the session needs it), queries are
lookups or intersections, budgets are at least one, tasks have natural numbers
as ids, outcomes are scores. `EnvelopesAssumption`: a usage counter that is
reported is a natural number (`u64` in `provider.rs`). `RunsAssumption` and
`ProfileAssumption`: finitely many processes, runs that are lists of inputs, an
input with finitely many phrases; `SplicesAssumption`: what a mixed file is read
as has the shape of a profile. `PinsAssumption`: the canonical inputs that the
closure's verifier pins are those the second stage accepted; of the records in
the repository that is so (the nine pins of the verifier are the
`canonical_benchmark_input_sha256_final` of `stage2-full-matrix-acceptance.json`),
and the verifier compares the closure with its pins, not with that record.
`AliasesAssumption` and `DelimitersAssumption`: glyphs, digits and sigils are
different characters and none is `=` or a newline, as in the tables of `alias.rs`
and `rules.rs`. `JobsAssumption`: a key is one the loader accepts (no white space
in an alias, no empty phrase, a template that begins with fixed text), and a
legend's aliases are as `qodec legend` hands them out.
`OutputsAssumption` and `BytesAssumption`: what a command prints is a text of
lines, and whether it is UTF-8 depends on its bytes alone.

**Only model-checked.** `Terminates` and `EventuallyScored` (liveness and ENABLED
are out of the prover's reach); that an artifact of a single rule, or of rules
that do not meet inside a value, decodes with its key (the jobs of
`encode_pipeline`); and `ResolvedClosure` and `CoreutilsDiagnostic`, which have no
run of their own and whose RECURSIVE operators allow no theorem. The algorithms
stated as assumptions are checked over their bounded inputs. The two claims that
are violated are refuted by a run.

## Not modelled

* **Structural codecs** (`fold`, `grep`, `toon`, `tmpl`, `sam`, `paper`, `diag`):
  layout conversions of one text with no state between calls. Their hazards lie
  in single characters, which the models abstract; their tests round-trip
  generated texts. In `ArtifactText` their layers refuse.
* **Probe ranker, edge costs, readability risk, token meter**: floating point,
  character classes or an external vocabulary. They order what is tried and
  decide nothing that is kept; the encoding model allows every decision.
* **Parts of modelled components**: the direct arm of the cell and request
  sealing (one-to-one renderings); generating and parsing key files, and
  carriage returns in converted containers; mosaics of more than two regions and
  the ranking of candidates; the fitted ranker in a profile; the ablation's
  driver (no identity to check); one-off corrections, errata and the builders of
  frozen manifests; container runtimes, git, toolchains and the network.
* **Bulk script, corpus builders and probes, evaluation helpers, agent, reader
  and gate harnesses, migration provenance**: single passes over fixed inputs
  with no state but their output; the gates restate, of committed transcripts,
  what `PanelSession` and `ForcedCell` say of every transcript.
