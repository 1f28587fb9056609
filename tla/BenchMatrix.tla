----------------------------- MODULE BenchMatrix -----------------------------
(***************************************************************************)
(* The Level-2 reader matrix of evals/interop: run_reader.py drives        *)
(* bench/matrix.py, whose journal is bench/durability.py.  One process at  *)
(* a time works on a run directory; it may die at any point, the machine   *)
(* may lose power, and a later process resumes from the files.             *)
(*                                                                         *)
(* A journal line is the record of one request.  The page cache holds all  *)
(* of journal; a loss of power keeps the first synced lines and perhaps    *)
(* some of those after them.  torn is an unterminated last line.           *)
(***************************************************************************)
EXTENDS Naturals, Sequences, FiniteSets, ReaderScoring

-----------------------------------------------------------------------------
(* What a process finds out about an endpoint before its first scored      *)
(* request (bench/preflight.py, bench/reader.py): a few probes decide which *)
(* parameters every later request carries.  The contract is part of the    *)
(* identity a resumed run is held to.                                      *)

Params == {"stream", "seed", "stream_options", "json_schema", "json_object"}

(* An endpoint answers a request with an HTTP error when the request holds *)
(* a parameter it rejects.  usage says in which replies it bills tokens.   *)
Endpoint == [up : BOOLEAN, encodes : BOOLEAN, rejects : SUBSET Params, usage : SUBSET {"stream", "body"}]

(* The body of a request under a contract. *)
Body(c) == (IF c.stream THEN {"stream"} ELSE {}) \cup (IF c.seed THEN {"seed"} ELSE {})
           \cup (IF c.stream /\ c.usage THEN {"stream_options"} ELSE {})
           \cup ({c.format} \ {"text"})

Contract(stream, seed, usage, format) ==
    [stream |-> stream, seed |-> seed, usage |-> usage, format |-> format]
Contracts == [stream : BOOLEAN, seed : BOOLEAN, usage : BOOLEAN,
              format : {"json_schema", "json_object", "text"}]

Chat(e, c) == LET ok == Body(c) \cap e.rejects = {}
              IN  [ok |-> ok,
                   usage |-> ok /\ IF c.stream THEN c.usage /\ "stream" \in e.usage
                                               ELSE "body" \in e.usage]

(* Everything streamed with seed and usage; without the seed if that was   *)
(* refused; the matrix streams only when a streamed reply was billed.      *)
Negotiate(e) ==
    LET full   == Chat(e, Contract(TRUE, TRUE, TRUE, "text"))
        noSeed == Chat(e, Contract(TRUE, FALSE, TRUE, "text"))
        trials == {full} \cup (IF full.ok THEN {} ELSE {noSeed})
        billed == \E t \in trials : t.ok /\ t.usage
    IN  Contract(billed, full.ok, billed, "text")

OnlyTheFirstFormat(e, c) == IF Chat(e, [c EXCEPT !.format = "json_schema"]).ok THEN "json_schema" ELSE "none"

(* The first answer format the endpoint returns an answer object under. *)
StructuredJson(e, c) ==
    LET works(f) == Chat(e, [c EXCEPT !.format = f]).ok
    IN  IF works("json_schema") THEN "json_schema"
        ELSE IF works("json_object") THEN "json_object" ELSE "text"

Effective(e) == LET c == Negotiate(e) IN [c EXCEPT !.format = StructuredJson(e, c)]

(* One streamed sample must come back, and the codec must run. *)
Ready(e) == /\ e.up
            /\ e.encodes
            /\ Chat(e, Contract(TRUE, Negotiate(e).seed, FALSE, "text")).ok

-----------------------------------------------------------------------------
(* The matrix. *)

CONSTANTS
    Tasks,       \* the questions, a sequence of [case, id] in file order
    Repeats,     \* --repeats
    SyncEvery,   \* RecordLog.sync_every
    Endpoints,   \* what may be listening when a process starts
    Outcomes,    \* how a primary answer is scored, a subset of Scores
    RepeatOutcomes, \* the same for repeats, which decide nothing in the matrix
    MaxBreaking, \* bound: answers in a journal that splitlines cuts in two
    MaxCrashes,  \* bound: process deaths and losses of power
    MaxDamage    \* bound: edits of a finished pass 1 by something else

Scores == [score : {"right", "wrong", "flawed"}, breaks : BOOLEAN]

ASSUME TasksAssumption == Tasks \in Seq([case : Nat, id : Nat])
ASSUME BoundsAssumption == /\ SyncEvery \in Nat \ {0}
                           /\ {Repeats, MaxBreaking, MaxCrashes, MaxDamage} \subseteq Nat
ASSUME EndpointsAssumption == Endpoints \subseteq Endpoint
ASSUME OutcomesAssumption == Outcomes \cup RepeatOutcomes \subseteq Scores

VARIABLES
    manifest,  \* run-manifest.json: the contract of the run, or None
    journal,   \* records.jsonl
    synced,    \* how many of its lines survive a loss of power
    torn,      \* it ends in a fragment
    receipt,   \* pass1-complete.json
    progress,  \* the phase in run-state.json
    scored,    \* meta.json is there
    pc,        \* where the process is
    endpoint,  \* what it talks to
    asking,    \* the key in flight or just written
    since,     \* appends since the last fsync
    ended,     \* how the last process ended
    crashes, damage

disk == <<manifest, journal, synced, torn, receipt, progress, scored>>
process == <<pc, endpoint, asking, since, ended>>
vars == <<manifest, journal, synced, torn, receipt, progress, scored,
          pc, endpoint, asking, since, ended, crashes, damage>>

None == "none"
NoContract == [stream |-> FALSE, seed |-> FALSE, usage |-> FALSE, format |-> None]
NoEndpoint == [up |-> FALSE, encodes |-> FALSE, rejects |-> {}, usage |-> {}]
Arms == <<"raw", "raw+brief", "encoded+brief">>
Questions == DOMAIN Tasks
Key == [q : Questions, arm : 1..Len(Arms), repeat : Nat]
NoKey == [q |-> 0, arm |-> 0, repeat |-> 0]

-----------------------------------------------------------------------------
(* The order of the requests. *)

PrimaryKeys == [q : Questions, arm : 1..Len(Arms), repeat : {0}]
RepeatKeys(qs) == [q : qs, arm : 1..Len(Arms), repeat : 1..(Repeats - 1)]

(* Repeat by repeat; cases by their first question; arm by arm. *)
FirstOf(q) == CHOOSE p \in Questions : /\ Tasks[p].case = Tasks[q].case
                                       /\ \A r \in Questions : Tasks[r].case = Tasks[q].case => p <= r
Rank == LET n == Len(Tasks) + 1
        IN  [k \in PrimaryKeys \cup RepeatKeys(Questions) |->
               ((k.repeat * n + FirstOf(k.q)) * (Len(Arms) + 1) + k.arm) * n + k.q]

Keys(j) == {j[i].key : i \in DOMAIN j}
NextKey(todo) == CHOOSE k \in todo : \A l \in todo : Rank[k] <= Rank[l]

(* The primary answer to a question in an arm. *)
Primary(j, q, arm) == j[CHOOSE i \in DOMAIN j : j[i].key = [q |-> q, arm |-> arm, repeat |-> 0]].score

(* The journal as the scorer reads it. *)
AnswersOf(j) ==
    [k \in Keys(j) |-> LET s == j[CHOOSE i \in DOMAIN j : j[i].key = k].score
                       IN  [correct |-> s = "right", format |-> s # "flawed", leaks |-> {}, invalid |-> {},
                            server |-> NoCount, local |-> 0]]

FlaggedByTheBrief(j) ==
    {q \in Questions : \/ \E a \in 1..Len(Arms) : Primary(j, q, a) = "flawed"
                       \/ (Primary(j, q, 1) = "right") # (Primary(j, q, 2) = "right")}

(* A flawed answer (no JSON, a leaked alias, an invented identifier), arms  *)
(* raw and raw+brief that disagree, or one the encoded artifact loses.      *)
Flagged(j) ==
    {q \in Questions :
        LET s == [a \in 1..Len(Arms) |-> Primary(j, q, a)]
        IN  \/ \E a \in DOMAIN s : s[a] = "flawed"
            \/ (s[1] = "right") # (s[2] = "right")
            \/ s[2] = "right" /\ s[3] # "right"}

Wanted(j) == IF PrimaryKeys \subseteq Keys(j) THEN PrimaryKeys \cup RepeatKeys(Flagged(j)) ELSE PrimaryKeys

-----------------------------------------------------------------------------
(* Starting. *)

EffectiveOf == [e \in Endpoints |-> Effective(e)]
IsReady == [e \in Endpoints |-> Ready(e)]

NoReceipt == [prefix |-> <<>>, manifest |-> NoContract]
HasReceipt == receipt # NoReceipt
Kept(j, p) == Len(p) <= Len(j) /\ SubSeq(j, 1, Len(p)) = p

Init == /\ manifest = NoContract /\ journal = <<>> /\ synced = 0 /\ torn = FALSE
        /\ receipt = NoReceipt /\ progress = None /\ scored = FALSE
        /\ pc = "off" /\ endpoint = NoEndpoint /\ asking = NoKey /\ since = 0 /\ ended = None
        /\ crashes = 0 /\ damage = 0

(* The process ends: what it held in memory is gone. *)
Stop(why) == /\ pc' = "off" /\ endpoint' = NoEndpoint
             /\ asking' = NoKey /\ since' = 0 /\ ended' = why

Occupied == manifest # NoContract \/ journal # <<>> \/ progress # None

(* A new run refuses a directory that holds one; the probes come next and  *)
(* leave only their own receipt behind.                                    *)
StartFresh(e) ==
    /\ pc = "off" /\ ~Occupied
    /\ IF IsReady[e] THEN pc' = "manifest" /\ endpoint' = e /\ ended' = None
                   ELSE ended' = "not_ready" /\ UNCHANGED <<pc, endpoint>>
    /\ UNCHANGED <<disk, asking, since, crashes, damage>>

WriteManifest ==
    /\ pc = "manifest"
    /\ manifest' = EffectiveOf[endpoint]
    /\ progress' = "pass1"
    /\ pc' = "pass1"
    /\ UNCHANGED <<journal, synced, torn, receipt, scored, endpoint, asking, since, ended, crashes, damage>>

(* Each completed line must parse; str.splitlines also ends a line at the  *)
(* separators U+0085, U+2028 and U+2029, which json.dumps leaves in text.   *)
Readable(j) == /\ \A i \in DOMAIN j : ~j[i].breaks
               /\ Cardinality(Keys(j)) = Len(j)

ReceiptNamesPrimaries == {k \in Keys(journal) : k.repeat = 0} = PrimaryKeys
ReceiptHolds == /\ Kept(journal, receipt.prefix)
                /\ {k \in Keys(journal) : k.repeat = 0} = PrimaryKeys
                /\ receipt.manifest = manifest

(* The contract now must be the recorded one. *)
AnyReadyEndpoint(e) == IsReady[e]
IdentityHolds(e) == EffectiveOf[e] = manifest

(* --resume: directory, probes, identity, journal, receipt, in this order. *)
StartResume(e) ==
    /\ pc = "off" /\ manifest # NoContract
    /\ LET why == CASE ~IsReady[e] -> "not_ready"
                    [] IsReady[e] /\ ~IdentityHolds(e) -> "mismatch"
                    [] OTHER -> IF ~Readable(journal) THEN "corrupt"
                                ELSE IF HasReceipt /\ ~ReceiptHolds THEN "damaged" ELSE None
           goes == why = None
       IN  /\ IF goes THEN pc' = "pass1" /\ endpoint' = e /\ progress' = "pass1" /\ ended' = None
                      ELSE ended' = why /\ UNCHANGED <<pc, endpoint, progress>>
           /\ torn' = IF why \in {None, "damaged"} THEN FALSE ELSE torn
    /\ since' = 0 /\ asking' = NoKey
    /\ UNCHANGED <<manifest, journal, synced, receipt, scored, crashes, damage>>

-----------------------------------------------------------------------------
(* Asking. *)

TodoAgain == IF pc = "pass1" THEN PrimaryKeys ELSE RepeatKeys(Flagged(journal))
Todo == IF pc = "pass1" THEN PrimaryKeys \ Keys(journal)
        ELSE RepeatKeys(Flagged(journal)) \ Keys(journal)

Ask ==
    /\ pc \in {"pass1", "pass2"} /\ asking = NoKey /\ Todo # {}
    /\ asking' = NextKey(Todo)
    /\ UNCHANGED <<disk, pc, endpoint, since, ended, crashes, damage>>

(* The answer is appended and flushed to the operating system. *)
RecordAnswer(o) ==
    /\ asking # NoKey /\ asking \notin Keys(journal)
    /\ o \in (IF asking.repeat = 0 THEN Outcomes ELSE RepeatOutcomes)
    /\ o.breaks => Cardinality({i \in DOMAIN journal : journal[i].breaks}) < MaxBreaking
    /\ journal' = Append(journal, [key |-> asking, score |-> o.score, breaks |-> o.breaks,
                                   by |-> EffectiveOf[endpoint]])
    /\ since' = since + 1
    /\ UNCHANGED <<manifest, synced, torn, receipt, progress, scored, pc, endpoint, asking, ended, crashes, damage>>

SyncOverdue == since > SyncEvery
SyncDue == since >= SyncEvery

(* Every SyncEvery appends the file is synced; then the progress receipt. *)
Settle ==
    /\ asking # NoKey /\ asking \in Keys(journal)
    /\ IF SyncDue THEN synced' = Len(journal) /\ since' = 0
                             ELSE UNCHANGED <<synced, since>>
    /\ asking' = NoKey
    /\ progress' = pc
    /\ UNCHANGED <<manifest, journal, torn, receipt, scored, pc, endpoint, ended, crashes, damage>>

(* The primary keys must be exactly the questions in every arm. *)
EndPass1 ==
    /\ pc = "pass1" /\ asking = NoKey /\ Todo = {}
    /\ IF {k \in Keys(journal) : k.repeat = 0} = PrimaryKeys
       THEN pc' = (IF HasReceipt THEN "flag" ELSE "sync") /\ UNCHANGED <<endpoint, asking, since, ended>>
       ELSE Stop("incomplete")
    /\ UNCHANGED <<disk, crashes, damage>>

FlushForReceipt ==
    /\ pc = "sync"
    /\ pc' = "receipt" /\ since' = 0
    /\ UNCHANGED <<disk, endpoint, asking, ended, crashes, damage>>

SyncForReceipt ==
    /\ pc = "sync"
    /\ synced' = Len(journal) /\ since' = 0
    /\ pc' = "receipt"
    /\ UNCHANGED <<manifest, journal, torn, receipt, progress, scored, endpoint, asking, ended, crashes, damage>>

WriteReceipt ==
    /\ pc = "receipt"
    /\ receipt' = [prefix |-> journal, manifest |-> manifest]
    /\ pc' = "flag"
    /\ UNCHANGED <<manifest, journal, synced, torn, progress, scored, endpoint, asking, since, ended, crashes, damage>>

StartPass2 ==
    /\ pc = "flag"
    /\ progress' = "pass2" /\ pc' = "pass2"
    /\ UNCHANGED <<manifest, journal, synced, torn, receipt, scored, endpoint, asking, since, ended, crashes, damage>>

CloseUnsynced ==
    /\ pc = "pass2" /\ asking = NoKey /\ Todo = {}
    /\ pc' = "closed"
    /\ UNCHANGED <<disk, endpoint, asking, since, ended, crashes, damage>>

Close ==
    /\ pc = "pass2" /\ asking = NoKey /\ Todo = {}
    /\ synced' = Len(journal) /\ pc' = "closed"
    /\ UNCHANGED <<manifest, journal, torn, receipt, progress, scored, endpoint, asking, since, ended, crashes, damage>>

WriteComplete ==
    /\ pc = "closed"
    /\ progress' = "complete" /\ pc' = "meta"
    /\ UNCHANGED <<manifest, journal, synced, torn, receipt, scored, endpoint, asking, since, ended, crashes, damage>>

WriteMeta ==
    /\ pc = "meta"
    /\ scored' = TRUE /\ Stop("done")
    /\ UNCHANGED <<manifest, journal, synced, torn, receipt, progress, crashes, damage>>

-----------------------------------------------------------------------------
(* Failures. *)

(* The process dies, or run_one raises; the line being written may be cut. *)
Crash ==
    /\ pc # "off" /\ crashes < MaxCrashes
    /\ crashes' = crashes + 1
    /\ Stop("crash")
    /\ torn' \in (IF asking # NoKey /\ asking \notin Keys(journal) THEN BOOLEAN ELSE {torn})
    /\ UNCHANGED <<manifest, journal, synced, receipt, progress, scored, damage>>

(* run-state.json is replaced without a sync: its last version may be lost. *)
PowerLoss ==
    /\ pc # "off" /\ crashes < MaxCrashes
    /\ crashes' = crashes + 1
    /\ \E n \in synced..Len(journal) :
          /\ journal' = SubSeq(journal, 1, n)
          /\ synced' = n
          /\ torn' \in (IF n < Len(journal) \/ (asking # NoKey /\ asking \notin Keys(journal))
                        THEN BOOLEAN ELSE {torn})
    /\ progress' \in {None, progress}
    /\ Stop("crash")
    /\ UNCHANGED <<manifest, receipt, scored, damage>>

(* Something else cuts or rewrites pass 1, or replaces the manifest. *)
Damage ==
    /\ pc = "off" /\ HasReceipt /\ damage < MaxDamage
    /\ damage' = damage + 1
    /\ \/ \E n \in 0..(Len(receipt.prefix) - 1) :
             /\ n <= Len(journal)
             /\ journal' = SubSeq(journal, 1, n) /\ synced' = n
             /\ UNCHANGED manifest
       \/ \E i \in DOMAIN journal \cap DOMAIN receipt.prefix, o \in Outcomes :
             /\ o.score # journal[i].score
             /\ journal' = [journal EXCEPT ![i].score = o.score]
             /\ UNCHANGED <<synced, manifest>>
       \/ \E e \in Endpoints : /\ IsReady[e] /\ manifest' = EffectiveOf[e]
                               /\ UNCHANGED <<journal, synced>>
    /\ UNCHANGED <<torn, receipt, progress, scored, process, crashes>>

Step == \/ WriteManifest \/ Ask \/ Settle \/ EndPass1 \/ SyncForReceipt
        \/ WriteReceipt \/ StartPass2 \/ Close \/ WriteComplete \/ WriteMeta
        \/ \E o \in Outcomes \cup RepeatOutcomes : RecordAnswer(o)
Start == \E e \in Endpoints : StartFresh(e) \/ StartResume(e)

Next == Start \/ Step \/ Crash \/ PowerLoss \/ Damage

(* A run that did not finish is started again, under an endpoint the run   *)
(* can go on with, and a live process goes on.                             *)
Matching(e) == IsReady[e] /\ (manifest # NoContract => EffectiveOf[e] = manifest)
Retry == ~scored /\ \E e \in Endpoints : Matching(e) /\ (StartFresh(e) \/ StartResume(e))

Spec == Init /\ [][Next]_vars
FairSpec == Spec /\ WF_vars(Step) /\ WF_vars(Retry)
-----------------------------------------------------------------------------
(* Properties. *)

Record == [key : Key, score : {"right", "wrong", "flawed"}, breaks : BOOLEAN, by : Contracts]
TypeOK ==
    /\ manifest \in Contracts \cup {NoContract}
    /\ journal \in Seq(Record) /\ synced \in 0..Len(journal) /\ torn \in BOOLEAN
    /\ receipt.prefix \in Seq(Record) /\ receipt.manifest \in Contracts \cup {NoContract}
    /\ progress \in {None, "pass1", "pass2", "complete"} /\ scored \in BOOLEAN
    /\ pc \in {"off", "manifest", "pass1", "sync", "receipt", "flag", "pass2", "closed", "meta"}
    /\ endpoint \in Endpoints \cup {NoEndpoint} /\ asking \in Key \cup {NoKey} /\ since \in Nat
    /\ ended \in {None, "not_ready", "mismatch", "corrupt", "damaged", "incomplete", "crash", "done"}
    /\ crashes \in 0..MaxCrashes /\ damage \in 0..MaxDamage

(* A pass-1 receipt describes bytes that survive: while nothing else edits *)
(* the directory, the pinned lines are on disk through any crash and loss  *)
(* of power (_write_pass1_receipt syncs before it hashes).                 *)
ReceiptPinsWhatSurvives ==
    damage = 0 /\ HasReceipt => Len(receipt.prefix) <= synced /\ Kept(journal, receipt.prefix)

(* A process that got past its start works on the pinned pass 1 and under  *)
(* the identity the receipt names, whatever happened to the files between. *)
RunsOnlyOnPinnedPass1 ==
    pc # "off" /\ HasReceipt => Kept(journal, receipt.prefix) /\ receipt.manifest = manifest

(* Every line of a journal was asked under one contract and no key twice;  *)
(* every repeat belongs to a question its own primary answers flag, though *)
(* primaries may have been lost and asked again in between.                *)
OneExperiment ==
    damage = 0 => /\ \A i \in DOMAIN journal : journal[i].by = manifest
                  /\ Cardinality(Keys(journal)) = Len(journal)
                  /\ \A k \in Keys(journal) : k.repeat > 0 => k \in Wanted(journal)

(* run-state.json saying complete, or meta.json being there, means that    *)
(* every wanted answer is in the journal, even after a loss of power.      *)
CompleteMeansWhole ==
    damage = 0 /\ (progress = "complete" \/ scored) => Keys(journal) = Wanted(journal)

(* The scorer calls a loss stable when its repeats agree or when there are *)
(* none: of a finished run every loss has all its repeats in every arm, so *)
(* that stable never means unrepeated.                                     *)
LossesAreRepeated ==
    damage = 0 /\ scored =>
        [q : LostOf(AnswersOf(journal), Questions), arm : ReaderArms, repeat : 0..(Repeats - 1)] \subseteq Keys(journal)

(* A loss of power costs at most SyncEvery answers of every process that   *)
(* died since the last fsync: a resumed process starts its count at zero,  *)
(* and a process may die between an append and the fsync it makes due.     *)
LossIsBounded ==
    asking = NoKey => Len(journal) - synced <= SyncEvery * crashes + (IF pc = "off" THEN 0 ELSE SyncEvery - 1)

(* A line of the journal ends, for splitlines, in the middle of its answer. *)
Broken == \E i \in DOMAIN journal : journal[i].breaks

(* A run that keeps being resumed under its own contract is finished, or   *)
(* its files were damaged, or no endpoint is ready for it; but for one     *)
(* case, in which the code never finishes it.  An answer that holds        *)
(* U+0085, U+2028 or U+2029 is journalled as it is (durability.py:147,     *)
(* ensure_ascii=False); should its process die and the line be kept, every *)
(* later process splits the line there (durability.py:104, splitlines),    *)
(* finds a record that does not parse and refuses the directory.           *)
EventuallyScored ==
    (\E e \in Endpoints : IsReady[e]) => \/ <>(scored \/ damage > 0)
                                         \/ <>[](pc = "off" /\ Broken)
=============================================================================
