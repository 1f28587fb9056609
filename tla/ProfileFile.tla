----------------------------- MODULE ProfileFile -----------------------------
(***************************************************************************)
(* The profile memory (src/src/profile.rs) as `qodec learn` and `qodec      *)
(* train` use it (src/src/main.rs): a run loads the file, takes its lessons *)
(* one input at a time, and saves by writing a temporary file and renaming  *)
(* it over the old one.  A process may stop between any two of these steps. *)
(*                                                                         *)
(* A file holds at each place every piece written there since it was        *)
(* emptied: the pieces of two texts have different lengths, so what is      *)
(* written over may show through.  Pieces are written one at a time through *)
(* an open file, which may be found empty, unfinished or mixed.  A lesson   *)
(* is [kind, counts, probes]: what one input adds.                          *)
(***************************************************************************)
EXTENDS Integers, Sequences, FiniteSets, Functions, SequencesExt

CONSTANTS Procs,       \* processes
          Runs,        \* what one run may be given: sequences of lessons
          PhraseBytes, \* phrase -> its length; phrases are numbers in content order
          MaxPhrases,  \* entries a profile keeps
          Splices,     \* profiles that two texts mixed in one file may spell
          MaxRuns      \* bound: runs started

ASSUME ProfileAssumption ==
  /\ IsFiniteSet(Procs)
  /\ DOMAIN PhraseBytes \subseteq Nat
  /\ MaxPhrases \in Nat \ {0} /\ MaxRuns \in Nat

(* One input counts finitely many phrases, or some probes.                  *)
IsTally(counts) == /\ IsFiniteSet(DOMAIN counts)
                   /\ \A p \in DOMAIN counts : p \in DOMAIN PhraseBytes /\ counts[p] \in Nat
IsLesson(lesson) == /\ lesson.kind = "learn" => IsTally(lesson.counts)
                    /\ lesson.kind # "learn" => lesson.probes \in Nat
ASSUME RunsAssumption ==
  \A run \in Runs : /\ run \in Seq(Range(run))
                    /\ \A i \in DOMAIN run : IsLesson(run[i])

ASSUME SplicesAssumption ==
  \A m \in Splices : /\ m = [runs |-> m.runs, phrases |-> m.phrases, samples |-> m.samples]
                     /\ m.runs \in Nat /\ m.samples \in Nat
                     /\ m.phrases = [p \in DOMAIN m.phrases |-> m.phrases[p]]
                     /\ IsTally(m.phrases)

VARIABLES path, tmp,  \* the file each name leads to, or NoFile
          files,      \* file -> the pieces at each of its places
          proc,       \* process -> where its run is
          started,    \* runs started
          overlapped, \* history: a run has started while another was going on
          spliced,    \* history: a run has loaded what no save had written
          taught,     \* history: every lesson taken by a run, in order
          saved       \* history: those of the runs that were saved

disk == <<path, tmp, files>>
history == <<overlapped, spliced, taught, saved>>
vars == <<disk, proc, started, history>>

-----------------------------------------------------------------------------
(* The memory. *)
Default == [runs |-> 0, phrases |-> << >>, samples |-> 0]

Weight(phrases, p) == phrases[p] * PhraseBytes[p]
Outranks(phrases, p, q) == \/ Weight(phrases, p) > Weight(phrases, q)
                           \/ Weight(phrases, p) = Weight(phrases, q) /\ p < q

(* merge: counts add up.                                                    *)
Merge(phrases, counts) ==
  [p \in DOMAIN phrases \cup DOMAIN counts |->
     (IF p \in DOMAIN phrases THEN phrases[p] ELSE 0)
       + (IF p \in DOMAIN counts THEN counts[p] ELSE 0)]

(* compact: the heaviest stay.                                              *)
Compact(phrases) ==
  Restrict(phrases, {p \in DOMAIN phrases :
                       Cardinality({q \in DOMAIN phrases : Outranks(phrases, q, p)}) < MaxPhrases})

(* learn_from, or one train_pass.                                           *)
Take(profile, lesson) ==
  IF lesson.kind = "learn"
  THEN [profile EXCEPT !.runs = @ + 1, !.phrases = Compact(Merge(@, lesson.counts))]
  ELSE [profile EXCEPT !.samples = @ + lesson.probes]
(* What those of the lessons that are numbered in heeded add up to.         *)
Learnt(lessons, heeded) ==
  LET after[n \in 0..Len(lessons)] ==
        IF n = 0 THEN Default
        ELSE IF n \in heeded THEN Take(after[n - 1], lessons[n]) ELSE after[n - 1]
  IN  after[Len(lessons)]
Recall(taken) == Learnt(taken, DOMAIN taken)

-----------------------------------------------------------------------------
(* The disk. *)
NoFile == 0
Inodes == 1..(2 + Cardinality(Procs))

(* The text of a profile, one place more than it has phrases.               *)
Text(profile) == [i \in 1..1 + Cardinality(DOMAIN profile.phrases) |-> {[of |-> profile, at |-> i]}]
(* A late write leaves holes before it.                                     *)
Written(places, i, piece) ==
  [j \in 1..(IF i > Len(places) THEN i ELSE Len(places)) |->
     (IF j <= Len(places) THEN places[j] ELSE {}) \cup (IF j = i THEN {piece} ELSE {})]

(* What load may make of a file.  It checks the version and the shape of    *)
(* the entries, and nothing else: half a text is refused, and two mixed are *)
(* refused or read as either, or as something else.                         *)
Writers(places) == {piece.of : piece \in UNION Range(places)}
Mixed(places) == \E v, w \in Writers(places) : v # w
Intact(places) == \E w \in Writers(places) : places = Text(w)
Readings(places) == IF Mixed(places) THEN Writers(places) \cup Splices
                    ELSE {w \in Writers(places) : places = Text(w)}

Idle == [at |-> "idle", left |-> << >>, taken |-> << >>, mem |-> Default,
         fd |-> NoFile, next |-> 1]
Free == {f \in Inodes : f \notin {path, tmp} /\ \A p \in Procs : proc[p].fd # f}

Init == /\ path = NoFile /\ tmp = NoFile
        /\ files = [f \in Inodes |-> << >>]
        /\ proc = [p \in Procs |-> Idle]
        /\ started = 0
        /\ overlapped = FALSE /\ spliced = FALSE /\ taught = << >> /\ saved = << >>

-----------------------------------------------------------------------------
Starts(p) == /\ proc[p] = Idle
             /\ started < MaxRuns
             /\ started' = started + 1
             /\ overlapped' = (overlapped \/ \E q \in Procs : proc[q] # Idle)
             /\ UNCHANGED <<disk, taught, saved>>

(* load: a fresh memory where there is no file, an error where the text is  *)
(* refused.  Nothing keeps a second run from starting meanwhile.            *)
Loads(p, run, profile) ==
  /\ Starts(p)
  /\ proc' = [proc EXCEPT ![p] = [Idle EXCEPT !.at = "work", !.left = run, !.mem = profile]]
LoadNothing(p, run) == path = NoFile /\ Loads(p, run, Default) /\ UNCHANGED spliced
LoadFile(p, run) ==
  /\ path # NoFile
  /\ \E profile \in Readings(files[path]) :
       /\ Loads(p, run, profile)
       /\ spliced' = (spliced \/ profile \notin Writers(files[path]))
LoadRefused(p) == /\ path # NoFile
                  /\ ~Intact(files[path])
                  /\ Starts(p)
                  /\ UNCHANGED <<proc, spliced>>

(* One input: learned from, or skipped because it cannot be read.           *)
AtInput(p) == proc[p].at = "work" /\ proc[p].left # << >>
Learn(p) ==
  LET lesson == Head(proc[p].left) IN
  /\ AtInput(p)
  /\ proc' = [proc EXCEPT ![p].left = Tail(@), ![p].mem = Take(@, lesson),
                          ![p].taken = Append(@, lesson)]
  /\ taught' = Append(taught, lesson)
  /\ UNCHANGED <<disk, started, overlapped, spliced, saved>>
Skip(p) == /\ AtInput(p)
           /\ proc' = [proc EXCEPT ![p].left = Tail(@)]
           /\ UNCHANGED <<disk, started, history>>

(* A mutant: the file is written in place, as fs::write alone would.        *)
OpenInPlace(p) ==
  LET f == IF path # NoFile THEN path ELSE CHOOSE g \in Free : TRUE IN
  /\ proc[p].at = "work"
  /\ proc[p].left = << >>
  /\ path' = f
  /\ files' = [files EXCEPT ![f] = << >>]
  /\ proc' = [proc EXCEPT ![p].at = "write", ![p].fd = f]
  /\ UNCHANGED <<tmp, started, history>>

(* save: fs::write opens the one temporary name beside the file, emptying   *)
(* whatever is there, and then writes.                                      *)
OpenTmp(p) ==
  LET f == IF tmp # NoFile THEN tmp ELSE CHOOSE g \in Free : TRUE IN
  /\ proc[p].at = "work"
  /\ proc[p].left = << >>
  /\ tmp' = f
  /\ files' = [files EXCEPT ![f] = << >>]
  /\ proc' = [proc EXCEPT ![p].at = "write", ![p].fd = f]
  /\ UNCHANGED <<path, started, history>>

Unwritten(p) == proc[p].next <= Len(Text(proc[p].mem))
WritePiece(p) ==
  LET i == proc[p].next IN
  /\ proc[p].at = "write"
  /\ Unwritten(p)
  /\ files' = [files EXCEPT ![proc[p].fd] = Written(@, i, [of |-> proc[p].mem, at |-> i])]
  /\ proc' = [proc EXCEPT ![p].next = @ + 1]
  /\ UNCHANGED <<path, tmp, started, history>>

Ends(p) == /\ proc' = [proc EXCEPT ![p] = Idle]
           /\ UNCHANGED <<files, started, overlapped, spliced, taught>>

(* Mutants: the rename does not wait for the write; a run whose rename      *)
(* failed takes its inputs again.                                           *)
RenameEarly(p) == /\ proc[p].at = "write"
                  /\ tmp # NoFile
                  /\ path' = tmp /\ tmp' = NoFile
                  /\ saved' = saved \o proc[p].taken
                  /\ Ends(p)
RenameRetries(p) ==
  /\ proc[p].at = "write"
  /\ ~Unwritten(p)
  /\ tmp = NoFile
  /\ proc' = [proc EXCEPT ![p].at = "work", ![p].next = 1, ![p].fd = NoFile,
                 ![p].mem = FoldLeft(Take, @, proc[p].taken)]
  /\ UNCHANGED <<disk, started, history>>

(* The rename, whatever the temporary name leads to by now.                 *)
Rename(p) == /\ proc[p].at = "write"
             /\ ~Unwritten(p)
             /\ tmp # NoFile
             /\ path' = tmp /\ tmp' = NoFile
             /\ saved' = saved \o proc[p].taken
             /\ Ends(p)
RenameFails(p) == /\ proc[p].at = "write"
                  /\ ~Unwritten(p)
                  /\ tmp = NoFile
                  /\ UNCHANGED <<path, tmp, saved>>
                  /\ Ends(p)

(* Interrupted anywhere; what is on disk stays as it is.                    *)
Crash(p) == /\ proc[p] # Idle
            /\ UNCHANGED <<path, tmp, saved>>
            /\ Ends(p)

Next == \E p \in Procs :
          \/ \E run \in Runs : LoadNothing(p, run) \/ LoadFile(p, run)
          \/ LoadRefused(p)
          \/ Learn(p) \/ Skip(p)
          \/ OpenTmp(p) \/ WritePiece(p)
          \/ Rename(p) \/ RenameFails(p)
          \/ Crash(p)

Spec == Init /\ [][Next]_vars

-----------------------------------------------------------------------------
Whole == path # NoFile => Intact(files[path])

(* The memory accumulates across runs.  As long as no two runs overlap, the *)
(* profile's name leads to one whole profile, whatever a crash has left     *)
(* behind, and it holds exactly what learning every saved input one after   *)
(* another gives, however they were divided into runs and with every        *)
(* compaction in between (profile.rs:3-11, 133-135).                        *)
RemembersSavedRuns ==
  ~overlapped /\ path # NoFile => files[path] = Text(Recall(saved))

(* The file only grows wiser: without overlap, no step takes away runs or   *)
(* samples that a reader of the profile would have been shown before it.    *)
OnDisk == IF path # NoFile /\ Whole THEN CHOOSE m \in Readings(files[path]) : TRUE ELSE Default
NothingIsForgotten ==
  [][ ~overlapped' => /\ OnDisk'.runs >= OnDisk.runs
                      /\ OnDisk'.samples >= OnDisk.samples ]_vars

(* Runs that overlap may lose inputs, yet until one of them loads a file in *)
(* which their saves are mixed they never invent or repeat one: every       *)
(* memory a run holds is what some of the inputs taken so far, each at most *)
(* once and in the order they were taken, add up to.  From a mixed file     *)
(* load may read anything (profile.rs:52-105 checks no more than version    *)
(* and shape); without overlap no run meets one.                            *)
EveryMemoryIsAHistory ==
  \/ overlapped /\ spliced
  \/ \A p \in Procs : \E heeded \in SUBSET DOMAIN taught : proc[p].mem = Learnt(taught, heeded)

(* The claim beside `save`: writing to a temporary file and renaming it     *)
(* keeps an interrupted save from corrupting the memory of previous runs.   *)
InterruptedSaveCorruptsNothing == (\A p \in Procs : proc[p] = Idle) => Whole
=============================================================================
