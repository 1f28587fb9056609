-------------------------- MODULE BenchMatrixProofs --------------------------
(***************************************************************************)
(* The reader matrix for every set of questions, number of repeats, sync   *)
(* interval, endpoint and number of crashes: what a receipt pins survives, *)
(* a run goes on with the pinned pass 1 only, a journal is one experiment, *)
(* a finished one is whole, and a loss of power is bounded.                *)
(***************************************************************************)
EXTENDS BenchMatrix, FiniteSetTheorems, SequenceTheorems, WellFoundedInduction, TLAPS

-----------------------------------------------------------------------------
(* The next key is one of those that are due. *)

LEMMA NatHasMinimum ==
  ASSUME NEW T, T \subseteq Nat, T # {}
  PROVE  \E x \in T : \A y \in T : x <= y
<1> DEFINE Below == {ss \in Nat \X Nat : ss[1] < ss[2]}
<1>1. IsWellFoundedOn(Below, Nat)
  BY NatLessThanWellFounded, Zenon DEF OpToRel
<1>2. PICK x \in T : \A y \in T : <<y, x>> \notin Below
  BY <1>1, WFMin, Zenon
<1>3. ASSUME NEW y \in T PROVE x <= y
  <2>1. x \in Nat /\ y \in Nat
    OBVIOUS
  <2>2. <<y, x>> \notin Below
    BY <1>2
  <2>3. ~(y < x)
    BY <2>1, <2>2
  <2> QED BY <2>1, <2>3
<1> QED BY <1>3

LEMMA QuestionsAreNatural == Questions \subseteq Nat /\ Len(Tasks) \in Nat
BY TasksAssumption DEF Questions

LEMMA FirstOfIsNatural ==
  ASSUME NEW q \in Questions
  PROVE  FirstOf(q) \in Nat
<1> DEFINE T == {p \in Questions : Tasks[p].case = Tasks[q].case}
<1>1. T \subseteq Nat /\ T # {}
  BY QuestionsAreNatural
<1>2. PICK x \in T : \A y \in T : x <= y
  BY <1>1, NatHasMinimum
<1>3. \E p \in Questions : /\ Tasks[p].case = Tasks[q].case
                           /\ \A r \in Questions : Tasks[r].case = Tasks[q].case => p <= r
  BY <1>2
<1>4. FirstOf(q) \in Questions
  BY <1>3 DEF FirstOf
<1> QED BY <1>4, QuestionsAreNatural

AllKeys == PrimaryKeys \cup RepeatKeys(Questions)

LEMMA AllKeysAreKeys == AllKeys \subseteq Key
BY BoundsAssumption DEF AllKeys, PrimaryKeys, RepeatKeys, Key

LEMMA ProductIsNatural ==
  \A x, y, z \in Nat : x * y + z \in Nat
OBVIOUS

LEMMA RankIsNatural ==
  ASSUME NEW k \in AllKeys
  PROVE  Rank[k] \in Nat
<1> DEFINE n == Len(Tasks) + 1
<1>1. k \in Key
  BY AllKeysAreKeys
<1>2. k.repeat \in Nat /\ k.q \in Questions /\ k.arm \in 1..3
  BY <1>1 DEF Key, Arms
<1>2n. k.q \in Nat /\ n \in Nat
  <2>1. k.q \in Nat
    BY <1>2, QuestionsAreNatural
  <2>2. Len(Tasks) \in Nat
    BY QuestionsAreNatural
  <2>3. n \in Nat
    BY <2>2
  <2> QED BY <2>1, <2>3
<1>3. FirstOf(k.q) \in Nat
  BY <1>2, FirstOfIsNatural
<1> DEFINE a == k.repeat * n + FirstOf(k.q)
           m == Len(Arms) + 1
           b == a * m + k.arm
<1>4. a \in Nat
  <2> HIDE DEF n
  <2> QED BY <1>2, <1>2n, <1>3, ProductIsNatural
<1>5. b \in Nat
  <2>1. m \in Nat
    BY DEF Arms
  <2> HIDE DEF a, m
  <2> QED BY <2>1, <1>2, <1>4, ProductIsNatural
<1>6. b * n + k.q \in Nat
  <2> HIDE DEF b, n
  <2> QED BY <1>2n, <1>5, ProductIsNatural
<1>7. Rank[k] = b * n + k.q
  BY DEF Rank, AllKeys
<1> QED BY <1>6, <1>7

LEMMA NextKeyIsDue ==
  ASSUME NEW todo, todo \subseteq AllKeys, todo # {}
  PROVE  NextKey(todo) \in todo
<1> DEFINE T == {Rank[k] : k \in todo}
<1>1. T \subseteq Nat /\ T # {}
  BY RankIsNatural
<1>2. PICK x \in T : \A y \in T : x <= y
  BY <1>1, NatHasMinimum
<1>3. \E k \in todo : \A l \in todo : Rank[k] <= Rank[l]
  BY <1>2
<1> QED BY <1>3 DEF NextKey

LEMMA TodoIsKeys == Todo \subseteq AllKeys
BY DEF Todo, AllKeys, RepeatKeys, Flagged

LEMMA EffectiveIsAContract ==
  ASSUME NEW e
  PROVE  Effective(e) \in Contracts
<1>1. Negotiate(e) \in Contracts
  BY DEF Negotiate, Contract, Contracts, Chat
<1>2. StructuredJson(e, Negotiate(e)) \in {"json_schema", "json_object", "text"}
  BY DEF StructuredJson
<1> QED BY <1>1, <1>2 DEF Effective, Contracts

LEMMA NoContractIsNone == NoContract \notin Contracts
BY DEF NoContract, Contracts, None

-----------------------------------------------------------------------------
(* Types: a process that is not off has an endpoint, and only a pass asks. *)

Running == /\ pc # "off" => endpoint \in Endpoints
           /\ asking # NoKey => pc \in {"pass1", "pass2"}
Typed == TypeOK /\ Running

LEMMA PrefixProperties ==
  ASSUME NEW S, NEW s \in Seq(S), NEW n \in 0..Len(s)
  PROVE  /\ SubSeq(s, 1, n) \in Seq(S)
         /\ Len(SubSeq(s, 1, n)) = n
         /\ DOMAIN SubSeq(s, 1, n) = 1..n
         /\ \A i \in 1..n : SubSeq(s, 1, n)[i] = s[i]
<1>1. Len(s) \in Nat /\ n \in Nat /\ 1 \in Int /\ n \in Int
  OBVIOUS
<1>2. \A i \in 1..n : s[i] \in S
  BY <1>1
<1>3. /\ SubSeq(s, 1, n) \in Seq(S)
      /\ Len(SubSeq(s, 1, n)) = IF 1 <= n THEN n - 1 + 1 ELSE 0
      /\ \A i \in 1..(n - 1 + 1) : SubSeq(s, 1, n)[i] = s[1 + i - 1]
  BY <1>1, <1>2, SubSeqProperties
<1> QED BY <1>1, <1>3

LEMMA EffectiveOfIsAContract ==
  ASSUME NEW e \in Endpoints
  PROVE  EffectiveOf[e] \in Contracts
BY EffectiveIsAContract DEF EffectiveOf

LEMMA KeyIsNotNoKey == NoKey \notin Key
BY DEF NoKey, Key

LEMMA InitTyped == Init => Typed
<1> SUFFICES ASSUME Init PROVE Typed
  OBVIOUS
<1>1. << >> \in Seq(Record) /\ Len(<< >>) = 0
  BY EmptySeq
<1>2. 0 \in 0..MaxCrashes /\ 0 \in 0..MaxDamage
  BY BoundsAssumption
<1>3. journal \in Seq(Record) /\ synced \in 0..Len(journal)
  BY <1>1 DEF Init
<1>4. receipt.prefix \in Seq(Record) /\ receipt.manifest = NoContract
  BY <1>1 DEF Init, NoReceipt
<1> QED BY <1>2, <1>3, <1>4 DEF Init, Typed, TypeOK, Running

LEMMA StepTyped == Typed /\ [Next]_vars => Typed'
<1> SUFFICES ASSUME Typed, [Next]_vars PROVE Typed'
  OBVIOUS
<1> USE DEF Typed, TypeOK, Running
<1>1. ASSUME NEW e \in Endpoints, StartFresh(e) PROVE Typed'
  BY <1>1 DEF StartFresh, disk
<1>2. ASSUME NEW e \in Endpoints, StartResume(e) PROVE Typed'
  BY <1>2 DEF StartResume, None
<1>3. CASE WriteManifest
  BY <1>3, EffectiveOfIsAContract DEF WriteManifest
<1>4. CASE Ask
  <2>1. asking' \in Key
    BY <1>4, NextKeyIsDue, TodoIsKeys, AllKeysAreKeys DEF Ask
  <2> QED BY <1>4, <2>1 DEF Ask, disk
<1>5. ASSUME NEW o \in Outcomes \cup RepeatOutcomes, RecordAnswer(o) PROVE Typed'
  <2> DEFINE r == [key |-> asking, score |-> o.score, breaks |-> o.breaks, by |-> EffectiveOf[endpoint]]
  <2>1. r \in Record
    BY <1>5, EffectiveOfIsAContract, OutcomesAssumption DEF RecordAnswer, Record, Scores
  <2>2. journal' \in Seq(Record) /\ Len(journal') = Len(journal) + 1
    BY <1>5, <2>1, AppendProperties DEF RecordAnswer
  <2> QED BY <1>5, <2>2 DEF RecordAnswer
<1>6. CASE Settle
  BY <1>6 DEF Settle
<1>7. CASE EndPass1
  BY <1>7 DEF EndPass1, Stop, disk
<1>8. CASE SyncForReceipt
  BY <1>8 DEF SyncForReceipt
<1>9. CASE WriteReceipt
  BY <1>9 DEF WriteReceipt
<1>10. CASE StartPass2
  BY <1>10 DEF StartPass2
<1>11. CASE Close
  BY <1>11 DEF Close
<1>12. CASE WriteComplete
  BY <1>12 DEF WriteComplete
<1>13. CASE WriteMeta
  BY <1>13 DEF WriteMeta, Stop
<1>14. CASE Crash
  BY <1>14, BoundsAssumption DEF Crash, Stop
<1>15. CASE PowerLoss
  <2>1. PICK n \in synced..Len(journal) : journal' = SubSeq(journal, 1, n) /\ synced' = n
    BY <1>15 DEF PowerLoss
  <2>2. journal' \in Seq(Record) /\ Len(journal') = n
    BY <2>1, PrefixProperties
  <2> QED BY <1>15, <2>1, <2>2, BoundsAssumption DEF PowerLoss, Stop
<1>16. CASE Damage
  <2>1. ASSUME NEW n \in 0..(Len(receipt.prefix) - 1), n <= Len(journal),
               journal' = SubSeq(journal, 1, n), synced' = n
        PROVE  journal' \in Seq(Record) /\ synced' \in 0..Len(journal')
    BY <2>1, PrefixProperties
  <2>2. ASSUME NEW i \in DOMAIN journal, NEW o \in Outcomes,
               journal' = [journal EXCEPT ![i].score = o.score], UNCHANGED synced
        PROVE  journal' \in Seq(Record) /\ synced' \in 0..Len(journal')
    <3>1. [journal[i] EXCEPT !.score = o.score] \in Record
      <4>1. journal[i] \in Record
        BY LenProperties, ElementOfSeq
      <4>2. o.score \in {"right", "wrong", "flawed"}
        BY OutcomesAssumption DEF Scores
      <4> QED BY <4>1, <4>2 DEF Record
    <3>2. journal' = [journal EXCEPT ![i] = [journal[i] EXCEPT !.score = o.score]]
      BY <2>2
    <3> QED BY <2>2, <3>1, <3>2, ExceptSeq
  <2>3. manifest' \in Contracts \cup {NoContract}
    BY <1>16, EffectiveOfIsAContract DEF Damage
  <2>4. journal' \in Seq(Record) /\ synced' \in 0..Len(journal')
    BY <1>16, <2>1, <2>2 DEF Damage
  <2> QED BY <1>16, <2>3, <2>4, BoundsAssumption DEF Damage, process
<1>17. CASE UNCHANGED vars
  BY <1>17 DEF vars
<1> QED BY <1>1, <1>2, <1>3, <1>4, <1>5, <1>6, <1>7, <1>8, <1>9, <1>10, <1>11, <1>12, <1>13,
           <1>14, <1>15, <1>16, <1>17 DEF Next, Start, Step

(* Every reachable state has its types: in particular a journal is a       *)
(* sequence of answers to real questions, and no process asks off a pass.  *)
THEOREM TypesHold == Spec => []TypeOK
<1>1. Typed => TypeOK
  BY DEF Typed
<1> QED BY InitTyped, StepTyped, <1>1, PTL DEF Spec

-----------------------------------------------------------------------------
(* What a pass-1 receipt pins.  A process that is past its start runs under *)
(* the contract of the manifest, and a receipt is only ever written beside *)
(* a manifest.                                                             *)

Named == /\ pc = "manifest" => manifest = NoContract /\ journal = << >>
         /\ pc \notin {"off", "manifest"} => manifest = EffectiveOf[endpoint]
         /\ HasReceipt => manifest # NoContract
SyncedFirst == pc = "receipt" => synced = Len(journal)
Pinned == Typed /\ Named /\ SyncedFirst /\ ReceiptPinsWhatSurvives /\ RunsOnlyOnPinnedPass1

LEMMA KeptIsPointwise ==
  ASSUME NEW S, NEW j \in Seq(S), NEW p \in Seq(S)
  PROVE  Kept(j, p) <=> Len(p) <= Len(j) /\ \A i \in 1..Len(p) : j[i] = p[i]
<1>1. CASE Len(p) <= Len(j)
  <2>1. /\ SubSeq(j, 1, Len(p)) \in Seq(S)
        /\ Len(SubSeq(j, 1, Len(p))) = Len(p)
        /\ \A i \in 1..Len(p) : SubSeq(j, 1, Len(p))[i] = j[i]
    <3>1. Len(p) \in 0..Len(j)
      BY <1>1, LenProperties
    <3> QED BY <3>1, PrefixProperties
  <2>2. ASSUME \A i \in 1..Len(p) : j[i] = p[i] PROVE SubSeq(j, 1, Len(p)) = p
    BY <2>1, <2>2, SeqEqual
  <2> QED BY <1>1, <2>1, <2>2 DEF Kept
<1> QED BY <1>1 DEF Kept

LEMMA KeptByAppend ==
  ASSUME NEW S, NEW j \in Seq(S), NEW p \in Seq(S), NEW r \in S, Kept(j, p)
  PROVE  Kept(Append(j, r), p)
<1>1. /\ Append(j, r) \in Seq(S) /\ Len(Append(j, r)) = Len(j) + 1
      /\ \A i \in 1..Len(j) : Append(j, r)[i] = j[i]
  BY AppendProperties
<1>2. Len(p) <= Len(j) /\ (\A i \in 1..Len(p) : j[i] = p[i]) /\ Len(p) \in Nat /\ Len(j) \in Nat
  BY KeptIsPointwise
<1>3. Len(p) <= Len(j) + 1 /\ \A i \in 1..Len(p) : Append(j, r)[i] = p[i]
  BY <1>1, <1>2
<1> QED BY <1>1, <1>3, KeptIsPointwise

LEMMA KeptByPrefix ==
  ASSUME NEW S, NEW j \in Seq(S), NEW p \in Seq(S), Kept(j, p), NEW n \in Len(p)..Len(j)
  PROVE  Kept(SubSeq(j, 1, n), p)
<1>1. Len(p) <= Len(j) /\ (\A i \in 1..Len(p) : j[i] = p[i]) /\ Len(p) \in Nat /\ Len(j) \in Nat
  BY KeptIsPointwise
<1>2. n \in 0..Len(j)
  BY <1>1
<1>3. /\ SubSeq(j, 1, n) \in Seq(S) /\ Len(SubSeq(j, 1, n)) = n
      /\ \A i \in 1..n : SubSeq(j, 1, n)[i] = j[i]
  BY <1>2, PrefixProperties
<1>4. Len(p) <= n /\ \A i \in 1..Len(p) : SubSeq(j, 1, n)[i] = p[i]
  BY <1>1, <1>3
<1> QED BY <1>3, <1>4, KeptIsPointwise

LEMMA KeptByItself ==
  ASSUME NEW S, NEW j \in Seq(S)
  PROVE  Kept(j, j)
BY KeptIsPointwise, LenProperties

LEMMA RecordIsAppended ==
  ASSUME Typed, NEW o \in Outcomes \cup RepeatOutcomes, RecordAnswer(o)
  PROVE  /\ asking \in Key /\ pc \in {"pass1", "pass2"} /\ endpoint \in Endpoints
         /\ \E r \in Record : /\ r.key = asking /\ r.by = EffectiveOf[endpoint]
                              /\ journal' = Append(journal, r)
<1> DEFINE r == [key |-> asking, score |-> o.score, breaks |-> o.breaks, by |-> EffectiveOf[endpoint]]
<1>1. asking \in Key /\ pc \in {"pass1", "pass2"} /\ endpoint \in Endpoints
  BY DEF RecordAnswer, Typed, TypeOK, Running
<1>2. r \in Record
  BY <1>1, EffectiveOfIsAContract, OutcomesAssumption DEF Record, Scores
<1>3. journal' = Append(journal, r)
  BY DEF RecordAnswer
<1> QED BY <1>1, <1>2, <1>3

LEMMA InitPinned == Init => Pinned
BY InitTyped DEF Init, Pinned, Named, SyncedFirst, ReceiptPinsWhatSurvives, RunsOnlyOnPinnedPass1, HasReceipt

LEMMA StepPinned == Pinned /\ [Next]_vars => Pinned'
<1> SUFFICES ASSUME Pinned, [Next]_vars PROVE Pinned'
  OBVIOUS
<1>0. Typed /\ Typed'
  BY StepTyped DEF Pinned
<1>t. /\ journal \in Seq(Record) /\ receipt.prefix \in Seq(Record)
      /\ synced \in Nat /\ synced <= Len(journal) /\ Len(journal) \in Nat /\ Len(receipt.prefix) \in Nat
  BY <1>0 DEF Typed, TypeOK
<1> DEFINE P == Named /\ SyncedFirst /\ ReceiptPinsWhatSurvives /\ RunsOnlyOnPinnedPass1
<1> SUFFICES P'
  BY <1>0 DEF Pinned
<1> USE DEF Named, SyncedFirst, ReceiptPinsWhatSurvives, RunsOnlyOnPinnedPass1, HasReceipt
<1>p. P
  BY DEF Pinned
<1>1. ASSUME NEW e \in Endpoints, StartFresh(e) PROVE P'
  BY <1>1, <1>p DEF StartFresh, disk, Occupied
<1>2. ASSUME NEW e \in Endpoints, StartResume(e) PROVE P'
  BY <1>2, <1>p DEF StartResume, None, ReceiptHolds, IdentityHolds
<1>3. CASE WriteManifest
  BY <1>3, <1>p DEF WriteManifest
<1>4. CASE Ask
  BY <1>4, <1>p DEF Ask, disk
<1>5. ASSUME NEW o \in Outcomes \cup RepeatOutcomes, RecordAnswer(o) PROVE P'
  <2>1. pc \in {"pass1", "pass2"} /\ \E r \in Record : journal' = Append(journal, r)
    BY <1>0, <1>5, RecordIsAppended
  <2>2. Kept(journal, receipt.prefix) => Kept(journal', receipt.prefix)
    BY <1>t, <2>1, KeptByAppend
  <2> QED BY <1>5, <1>p, <2>1, <2>2 DEF RecordAnswer
<1>6. CASE Settle
  BY <1>6, <1>p, <1>t, <1>0 DEF Settle, Typed, Running, Kept
<1>7. CASE EndPass1
  BY <1>7, <1>p DEF EndPass1, Stop, disk
<1>8. CASE SyncForReceipt
  BY <1>8, <1>p, <1>t DEF SyncForReceipt, Kept
<1>9. CASE WriteReceipt
  <2>1. manifest # NoContract
    BY <1>9, <1>p, <1>0, EffectiveOfIsAContract, NoContractIsNone DEF WriteReceipt, Typed, Running
  <2>2. Kept(journal, journal)
    BY <1>t, KeptByItself
  <2>3. receipt'.prefix = journal /\ receipt'.manifest = manifest
    BY <1>9 DEF WriteReceipt
  <2> QED BY <1>9, <1>p, <1>t, <2>1, <2>2, <2>3 DEF WriteReceipt
<1>10. CASE StartPass2
  BY <1>10, <1>p DEF StartPass2
<1>11. CASE Close
  BY <1>11, <1>p, <1>t DEF Close, Kept
<1>12. CASE WriteComplete
  BY <1>12, <1>p DEF WriteComplete
<1>13. CASE WriteMeta
  BY <1>13, <1>p DEF WriteMeta, Stop
<1>14. CASE Crash
  BY <1>14, <1>p DEF Crash, Stop
<1>15. CASE PowerLoss
  <2>1. PICK n \in synced..Len(journal) : journal' = SubSeq(journal, 1, n) /\ synced' = n
    BY <1>15 DEF PowerLoss
  <2>2. ASSUME Len(receipt.prefix) <= synced, Kept(journal, receipt.prefix)
        PROVE  Len(receipt.prefix) <= synced' /\ Kept(journal', receipt.prefix)
    <3>1. n \in Len(receipt.prefix)..Len(journal)
      BY <1>t, <2>1, <2>2
    <3> QED BY <1>t, <2>1, <2>2, <3>1, KeptByPrefix
  <2> QED BY <1>15, <1>p, <2>2 DEF PowerLoss, Stop
<1>16. CASE Damage
  <2>1. damage' # 0
    BY <1>16, <1>0 DEF Damage, Typed, TypeOK
  <2>2. manifest' # NoContract
    BY <1>16, <1>p, EffectiveOfIsAContract, NoContractIsNone DEF Damage
  <2> QED BY <1>16, <2>1, <2>2 DEF Damage, process
<1>17. CASE UNCHANGED vars
  BY <1>17, <1>p DEF vars
<1> QED BY <1>1, <1>2, <1>3, <1>4, <1>5, <1>6, <1>7, <1>8, <1>9, <1>10, <1>11, <1>12, <1>13,
           <1>14, <1>15, <1>16, <1>17 DEF Next, Start, Step

(* A pass-1 receipt describes bytes that survive every later crash and     *)
(* loss of power, because the journal is synced before it is hashed.       *)
THEOREM ReceiptsPinWhatSurvives == Spec => []ReceiptPinsWhatSurvives
<1>1. Pinned => ReceiptPinsWhatSurvives
  BY DEF Pinned
<1> QED BY InitPinned, StepPinned, <1>1, PTL DEF Spec

(* Whatever something else did to the files between two processes, one     *)
(* that got past its start works on the pinned pass 1, under the contract  *)
(* the receipt names.                                                      *)
THEOREM RunsUseThePinnedPass1 == Spec => []RunsOnlyOnPinnedPass1
<1>1. Pinned => RunsOnlyOnPinnedPass1
  BY DEF Pinned
<1> QED BY InitPinned, StepPinned, <1>1, PTL DEF Spec

-----------------------------------------------------------------------------
(* The keys of a journal. *)

Distinct(j) == \A i, k \in DOMAIN j : j[i].key = j[k].key => i = k

LEMMA KeysOfAppend ==
  ASSUME NEW j \in Seq(Record), NEW r \in Record
  PROVE  Keys(Append(j, r)) = Keys(j) \cup {r.key}
<1>1. /\ Append(j, r) \in Seq(Record) /\ Len(Append(j, r)) = Len(j) + 1
      /\ \A i \in 1..Len(j) : Append(j, r)[i] = j[i]
      /\ Append(j, r)[Len(j) + 1] = r
      /\ Len(j) \in Nat
  BY AppendProperties, LenProperties
<1>2. DOMAIN Append(j, r) = 1..(Len(j) + 1) /\ DOMAIN j = 1..Len(j)
  BY <1>1, LenProperties
<1>3. 1..(Len(j) + 1) = 1..Len(j) \cup {Len(j) + 1}
  BY <1>1
<1> QED BY <1>1, <1>2, <1>3 DEF Keys

LEMMA DistinctByAppend ==
  ASSUME NEW j \in Seq(Record), NEW r \in Record, Distinct(j), r.key \notin Keys(j)
  PROVE  Distinct(Append(j, r))
<1>1. /\ Append(j, r) \in Seq(Record) /\ Len(Append(j, r)) = Len(j) + 1
      /\ \A i \in 1..Len(j) : Append(j, r)[i] = j[i]
      /\ Append(j, r)[Len(j) + 1] = r
      /\ Len(j) \in Nat
  BY AppendProperties, LenProperties
<1>2. DOMAIN Append(j, r) = 1..(Len(j) + 1) /\ DOMAIN j = 1..Len(j)
  BY <1>1, LenProperties
<1>3. \A i \in 1..Len(j) : j[i].key # r.key
  BY <1>2 DEF Keys
<1> QED BY <1>1, <1>2, <1>3 DEF Distinct

LEMMA KeysOfPrefix ==
  ASSUME NEW j \in Seq(Record), NEW p \in Seq(Record), Kept(j, p)
  PROVE  /\ Keys(p) \subseteq Keys(j)
         /\ Distinct(j) => Distinct(p)
<1>1. /\ Len(p) <= Len(j) /\ \A i \in 1..Len(p) : j[i] = p[i]
      /\ DOMAIN j = 1..Len(j) /\ DOMAIN p = 1..Len(p) /\ Len(p) \in Nat /\ Len(j) \in Nat
  BY KeptIsPointwise, LenProperties
<1> QED BY <1>1 DEF Keys, Distinct

LEMMA PrefixIsKept ==
  ASSUME NEW S, NEW j \in Seq(S), NEW n \in 0..Len(j)
  PROVE  SubSeq(j, 1, n) \in Seq(S) /\ Len(SubSeq(j, 1, n)) = n /\ Kept(j, SubSeq(j, 1, n))
<1>1. Len(SubSeq(j, 1, n)) = n /\ SubSeq(j, 1, n) \in Seq(S)
  BY PrefixProperties
<1> QED BY <1>1 DEF Kept

LEMMA DistinctKeysAreCounted ==
  ASSUME NEW j \in Seq(Record), Distinct(j)
  PROVE  Cardinality(Keys(j)) = Len(j)
<1> DEFINE f == [i \in 1..Len(j) |-> j[i].key]
<1>1. Len(j) \in Nat /\ DOMAIN j = 1..Len(j)
  BY LenProperties
<1>2. f \in Bijection(1..Len(j), Keys(j))
  <2>1. f \in [1..Len(j) -> Keys(j)]
    BY <1>1 DEF Keys
  <2>2. \A a, b \in 1..Len(j) : f[a] = f[b] => a = b
    BY <1>1 DEF Distinct
  <2>3. \A t \in Keys(j) : \E i \in 1..Len(j) : f[i] = t
    BY <1>1 DEF Keys
  <2> QED BY <2>1, <2>2, <2>3 DEF Bijection, Injection, IsInjective, Surjection
<1>3. ExistsBijection(1..Len(j), Keys(j))
  BY <1>2 DEF ExistsBijection
<1> QED BY <1>1, <1>3, FS_CountingElements

LEMMA KeysAreKeys ==
  ASSUME NEW j \in Seq(Record)
  PROVE  /\ Keys(j) \subseteq Key
         /\ \A k \in Keys(j) : k.repeat = 0 => k \in PrimaryKeys
         /\ \A k \in Keys(j) : k.repeat # 0 => k.repeat > 0
<1>1. \A i \in DOMAIN j : j[i].key \in Key
  <2>1. DOMAIN j = 1..Len(j) /\ \A i \in 1..Len(j) : j[i] \in Record
    BY LenProperties, ElementOfSeq
  <2> QED BY <2>1 DEF Record
<1>2. Keys(j) \subseteq Key
  BY <1>1 DEF Keys
<1>3. \A k \in Key : k.repeat \in Nat /\ (k.repeat = 0 => k \in PrimaryKeys)
  BY DEF Key, PrimaryKeys
<1>4. \A n \in Nat : n # 0 => n > 0
  OBVIOUS
<1> QED BY <1>2, <1>3, <1>4

LEMMA Pass1IsWhole ==
  ASSUME Typed, EndPass1
  PROVE  PrimaryKeys \subseteq Keys(journal) /\ {k \in Keys(journal) : k.repeat = 0} = PrimaryKeys
<1>1. PrimaryKeys \subseteq Keys(journal)
  BY DEF EndPass1, Todo
<1>2. \A k \in PrimaryKeys : k.repeat = 0
  BY DEF PrimaryKeys
<1>3. journal \in Seq(Record)
  BY DEF Typed, TypeOK
<1> QED BY <1>1, <1>2, <1>3, KeysAreKeys

-----------------------------------------------------------------------------
(* What a loss of power may cost. *)

Bounded == /\ Len(journal) - synced <= SyncEvery * crashes + since
           /\ since <= SyncEvery
           /\ asking = NoKey \/ asking \notin Keys(journal) => since <= SyncEvery - 1
           /\ pc = "off" => since = 0
           /\ pc \in {"closed", "meta"} => synced = Len(journal)

LEMMA LossAfterCrash ==
  \A n, c \in Nat : n * c \in Nat /\ n * (c + 1) = n * c + n
OBVIOUS

LEMMA StepBounded == Typed /\ Bounded /\ [Next]_vars => Bounded'
<1> SUFFICES ASSUME Typed, Bounded, [Next]_vars PROVE Bounded'
  OBVIOUS
<1> DEFINE loss == SyncEvery * crashes
<1>t. /\ journal \in Seq(Record) /\ synced \in Nat /\ synced <= Len(journal) /\ Len(journal) \in Nat
      /\ since \in Nat /\ SyncEvery \in Nat /\ SyncEvery >= 1 /\ crashes \in Nat
  BY BoundsAssumption DEF Typed, TypeOK
<1>c. /\ loss \in Nat
      /\ crashes' = crashes => loss' = loss
      /\ crashes' = crashes + 1 => loss' = loss + SyncEvery
  BY <1>t, LossAfterCrash
<1>r. Running
  BY DEF Typed
<1>b. /\ Len(journal) - synced <= loss + since
      /\ since <= SyncEvery
      /\ asking = NoKey \/ asking \notin Keys(journal) => since <= SyncEvery - 1
      /\ pc = "off" => since = 0
      /\ pc \in {"closed", "meta"} => synced = Len(journal)
  BY DEF Bounded
<1>1. ASSUME NEW e \in Endpoints, StartFresh(e) PROVE Bounded'
  BY <1>1, <1>b, <1>t, <1>c DEF StartFresh, disk, Bounded, Keys
<1>2. ASSUME NEW e \in Endpoints, StartResume(e) PROVE Bounded'
  BY <1>2, <1>b, <1>t, <1>c DEF StartResume, Bounded, Keys
<1>3. CASE WriteManifest
  BY <1>3, <1>b, <1>t, <1>c DEF WriteManifest, Bounded, Keys
<1>4. CASE Ask
  BY <1>4, <1>b, <1>t, <1>c DEF Ask, disk, Bounded, Keys
<1>5. ASSUME NEW o \in Outcomes \cup RepeatOutcomes, RecordAnswer(o) PROVE Bounded'
  <2>1. PICK r \in Record : r.key = asking /\ journal' = Append(journal, r)
    BY <1>5, RecordIsAppended
  <2>2. Len(journal') = Len(journal) + 1 /\ asking \in Keys(journal')
    BY <1>t, <2>1, AppendProperties, KeysOfAppend
  <2>3. since <= SyncEvery - 1
    BY <1>5, <1>b DEF RecordAnswer
  <2>4. asking' = asking /\ since' = since + 1 /\ synced' = synced /\ pc' \in {"pass1", "pass2"} /\ crashes' = crashes
        /\ asking # NoKey
    BY <1>5, <1>r DEF RecordAnswer, Running
  <2>5. Keys(journal)' = Keys(journal')
    BY DEF Keys
  <2> QED BY <1>b, <1>t, <1>c, <2>2, <2>3, <2>4, <2>5 DEF Bounded
<1>6. CASE Settle
  BY <1>6, <1>b, <1>t, <1>c, <1>r DEF Settle, SyncDue, Bounded, Running
<1>7. CASE EndPass1
  <2>1. {k \in Keys(journal) : k.repeat = 0} = PrimaryKeys
    BY <1>7, Pass1IsWhole
  <2> QED BY <1>7, <2>1, <1>b, <1>t, <1>c DEF EndPass1, disk, Bounded, Keys
<1>8. CASE SyncForReceipt
  BY <1>8, <1>b, <1>t, <1>c DEF SyncForReceipt, Bounded
<1>9. CASE WriteReceipt
  BY <1>9, <1>b, <1>t, <1>c DEF WriteReceipt, Bounded, Keys
<1>10. CASE StartPass2
  BY <1>10, <1>b, <1>t, <1>c DEF StartPass2, Bounded, Keys
<1>11. CASE Close
  BY <1>11, <1>b, <1>t, <1>c DEF Close, Bounded, Keys
<1>12. CASE WriteComplete
  BY <1>12, <1>b, <1>t, <1>c DEF WriteComplete, Bounded, Keys
<1>13. CASE WriteMeta
  BY <1>13, <1>b, <1>t, <1>c DEF WriteMeta, Stop, Bounded
<1>14. CASE Crash
  BY <1>14, <1>b, <1>t, <1>c DEF Crash, Stop, Bounded
<1>15. CASE PowerLoss
  <2>1. PICK n \in synced..Len(journal) : journal' = SubSeq(journal, 1, n) /\ synced' = n
    BY <1>15 DEF PowerLoss
  <2>2. Len(journal') = n /\ n \in Nat
    BY <1>t, <2>1, PrefixProperties
  <2> QED BY <1>15, <2>1, <2>2, <1>b, <1>t, <1>c DEF PowerLoss, Stop, Bounded
<1>16. CASE Damage
  <2>1. Len(journal') - synced' <= Len(journal) - synced
    <3>1. ASSUME NEW n \in 0..(Len(receipt.prefix) - 1), n <= Len(journal),
                 journal' = SubSeq(journal, 1, n), synced' = n
          PROVE  Len(journal') - synced' <= Len(journal) - synced
      <4>1. n \in 0..Len(journal)
        BY <1>t, <3>1 DEF Typed, TypeOK
      <4>2. Len(journal') = n /\ n \in Nat
        BY <1>t, <3>1, <4>1, PrefixProperties
      <4> QED BY <1>t, <3>1, <4>2
    <3>2. ASSUME NEW i \in DOMAIN journal, NEW o \in Outcomes,
                 journal' = [journal EXCEPT ![i].score = o.score], UNCHANGED synced
          PROVE  Len(journal') - synced' <= Len(journal) - synced
      <4>1. DOMAIN journal' = DOMAIN journal /\ DOMAIN journal = 1..Len(journal) /\ journal' \in Seq(Record)
        BY <1>t, <3>2, StepTyped, LenProperties DEF Typed, TypeOK
      <4>2. DOMAIN journal' = 1..Len(journal') /\ Len(journal') \in Nat
        BY <4>1, LenProperties
      <4>3. Len(journal') = Len(journal)
        BY <1>t, <4>1, <4>2
      <4> QED BY <1>t, <3>2, <4>3
    <3> QED BY <1>16, <1>t, <3>1, <3>2 DEF Damage
  <2>2. pc = "off" /\ pc' = "off" /\ since' = since /\ crashes' = crashes
    BY <1>16 DEF Damage, process
  <2>3. synced' \in Nat /\ Len(journal') \in Nat
    BY StepTyped DEF Typed, TypeOK
  <2> QED BY <2>1, <2>2, <2>3, <1>b, <1>t, <1>c DEF Bounded
<1>17. CASE UNCHANGED vars
  BY <1>17, <1>b, <1>t, <1>c DEF vars, Bounded, Keys
<1> QED BY <1>1, <1>2, <1>3, <1>4, <1>5, <1>6, <1>7, <1>8, <1>9, <1>10, <1>11, <1>12, <1>13,
           <1>14, <1>15, <1>16, <1>17 DEF Next, Start, Step

(* A loss of power costs at most SyncEvery answers of every process that   *)
(* died, and fewer than that of the one still running.                     *)
THEOREM LossesAreBounded == Spec => []LossIsBounded
<1>1. Init => Bounded
  BY BoundsAssumption, EmptySeq DEF Init, Bounded
<1>2. Typed /\ Bounded => LossIsBounded
  <2> SUFFICES ASSUME Typed, Bounded, asking = NoKey
               PROVE  Len(journal) - synced <= SyncEvery * crashes + (IF pc = "off" THEN 0 ELSE SyncEvery - 1)
    BY DEF LossIsBounded
  <2>1. /\ synced \in Nat /\ Len(journal) \in Nat /\ since \in Nat /\ SyncEvery \in Nat
        /\ SyncEvery >= 1 /\ crashes \in Nat
    BY BoundsAssumption DEF Typed, TypeOK
  <2>2. SyncEvery * crashes \in Nat
    BY <2>1, LossAfterCrash
  <2> QED BY <2>1, <2>2 DEF Bounded
<1> QED BY InitTyped, StepTyped, StepBounded, <1>1, <1>2, PTL DEF Spec

-----------------------------------------------------------------------------
(* Which questions are flagged is decided by the primary answers, and they *)
(* are all in the lines a receipt pins.                                    *)

LEMMA PrimaryIsPinned ==
  ASSUME NEW j \in Seq(Record), NEW p \in Seq(Record), Kept(j, p), Distinct(j),
         NEW q, NEW a, [q |-> q, arm |-> a, repeat |-> 0] \in Keys(p)
  PROVE  Primary(j, q, a) = Primary(p, q, a)
<1> DEFINE key == [q |-> q, arm |-> a, repeat |-> 0]
<1>1. /\ Len(p) <= Len(j) /\ \A i \in 1..Len(p) : j[i] = p[i]
      /\ DOMAIN j = 1..Len(j) /\ DOMAIN p = 1..Len(p) /\ Len(p) \in Nat /\ Len(j) \in Nat
  BY KeptIsPointwise, LenProperties
<1>2. PICK n \in DOMAIN p : p[n].key = key
  BY DEF Keys
<1>3. n \in DOMAIN j /\ j[n] = p[n]
  BY <1>1
<1>4. (\A i \in DOMAIN j : j[i].key = key => i = n) /\ (\A i \in DOMAIN p : p[i].key = key => i = n)
  BY <1>1, <1>2, <1>3, KeysOfPrefix DEF Distinct
<1>5. (CHOOSE i \in DOMAIN j : j[i].key = key) = n
  BY <1>2, <1>3, <1>4
<1>6. (CHOOSE i \in DOMAIN p : p[i].key = key) = n
  BY <1>2, <1>4
<1> QED BY <1>3, <1>5, <1>6 DEF Primary

LEMMA FlaggedIsPinned ==
  ASSUME NEW j \in Seq(Record), NEW p \in Seq(Record), Kept(j, p), Distinct(j), PrimaryKeys \subseteq Keys(p)
  PROVE  Flagged(j) = Flagged(p)
<1>1. \A q \in Questions, a \in 1..Len(Arms) : Primary(j, q, a) = Primary(p, q, a)
  <2> TAKE q \in Questions, a \in 1..Len(Arms)
  <2>1. [q |-> q, arm |-> a, repeat |-> 0] \in Keys(p)
    BY DEF PrimaryKeys
  <2> QED BY <2>1, PrimaryIsPinned
<1> DEFINE row(s) == \/ \E a \in DOMAIN s : s[a] = "flawed"
                     \/ (s[1] = "right") # (s[2] = "right")
                     \/ s[2] = "right" /\ s[3] # "right"
           of(x, q) == [a \in 1..Len(Arms) |-> Primary(x, q, a)]
<1>2. \A q \in Questions : of(j, q) = of(p, q)
  BY <1>1
<1>3. Flagged(j) = {q \in Questions : row(of(j, q))} /\ Flagged(p) = {q \in Questions : row(of(p, q))}
  BY DEF Flagged
<1> HIDE DEF row, of
<1> QED BY <1>2, <1>3

-----------------------------------------------------------------------------
(* A journal is one experiment. *)

DueRepeats == RepeatKeys(Flagged(journal))
One == damage = 0 =>
    /\ \A i \in DOMAIN journal : journal[i].by = manifest
    /\ Distinct(journal)
    /\ HasReceipt => PrimaryKeys \subseteq Keys(receipt.prefix)
    /\ ~HasReceipt => \A k \in Keys(journal) : k.repeat = 0
    /\ pc \in {"sync", "receipt"} => PrimaryKeys \subseteq Keys(journal)
    /\ pc \in {"flag", "pass2", "closed", "meta"} => HasReceipt
    /\ \A k \in Keys(journal) : k.repeat > 0 => k \in DueRepeats
    /\ asking # NoKey /\ pc = "pass1" => asking.repeat = 0
    /\ asking # NoKey /\ pc = "pass2" => asking \in DueRepeats

(* The journal grew, or lost lines that were not pinned. *)
LEMMA PinnedStep ==
  ASSUME Pinned, One, damage = 0, HasReceipt,
         NEW j \in Seq(Record), Kept(j, receipt.prefix), Distinct(j)
  PROVE  Flagged(j) = Flagged(journal) /\ PrimaryKeys \subseteq Keys(j)
<1>1. journal \in Seq(Record) /\ receipt.prefix \in Seq(Record) /\ Kept(journal, receipt.prefix)
      /\ PrimaryKeys \subseteq Keys(receipt.prefix) /\ Distinct(journal)
  BY DEF Pinned, Typed, TypeOK, ReceiptPinsWhatSurvives, One
<1>2. Flagged(j) = Flagged(receipt.prefix) /\ Flagged(journal) = Flagged(receipt.prefix)
  BY <1>1, FlaggedIsPinned
<1>3. Keys(receipt.prefix) \subseteq Keys(j)
  BY <1>1, KeysOfPrefix
<1> QED BY <1>1, <1>2, <1>3

LEMMA StepOne == Pinned /\ One /\ [Next]_vars => One'
<1> SUFFICES ASSUME Pinned, One, [Next]_vars, damage' = 0 PROVE One'
  BY DEF One
<1>0. Pinned' /\ Typed /\ Typed' /\ Named /\ Running
  BY StepPinned DEF Pinned, Typed
<1>d. damage = 0
  <2>1. ASSUME Damage PROVE FALSE
    BY <2>1, <1>0 DEF Damage, Typed, TypeOK
  <2> QED BY <2>1 DEF Next, Start, Step, StartFresh, StartResume, WriteManifest, Ask, RecordAnswer, Settle,
              EndPass1, SyncForReceipt, WriteReceipt, StartPass2, Close, WriteComplete, WriteMeta,
              Crash, PowerLoss, vars
<1>t. journal \in Seq(Record) /\ journal' \in Seq(Record) /\ receipt.prefix \in Seq(Record)
  BY <1>0 DEF Typed, TypeOK
<1>o. /\ \A i \in DOMAIN journal : journal[i].by = manifest
      /\ Distinct(journal)
      /\ HasReceipt => PrimaryKeys \subseteq Keys(receipt.prefix)
      /\ ~HasReceipt => \A k \in Keys(journal) : k.repeat = 0
      /\ pc \in {"sync", "receipt"} => PrimaryKeys \subseteq Keys(journal)
      /\ pc \in {"flag", "pass2", "closed", "meta"} => HasReceipt
      /\ \A k \in Keys(journal) : k.repeat > 0 => k \in DueRepeats
      /\ asking # NoKey /\ pc = "pass1" => asking.repeat = 0
      /\ asking # NoKey /\ pc = "pass2" => asking \in DueRepeats
  BY <1>d DEF One
<1>s. ASSUME UNCHANGED journal PROVE Keys(journal)' = Keys(journal) /\ Distinct(journal)' = Distinct(journal) /\ DueRepeats' = DueRepeats
  BY <1>s DEF Keys, Distinct, DueRepeats, Flagged, Primary, RepeatKeys
<1>1. ASSUME NEW e \in Endpoints, StartFresh(e) PROVE One'
  BY <1>1, <1>o, <1>s DEF StartFresh, disk, One, HasReceipt
<1>2. ASSUME NEW e \in Endpoints, StartResume(e) PROVE One'
  BY <1>2, <1>o, <1>s DEF StartResume, One, HasReceipt
<1>3. CASE WriteManifest
  <2>1. journal = << >> /\ journal' = journal /\ asking = NoKey
    BY <1>3, <1>0 DEF WriteManifest, Named, Running
  <2>2. \A i \in DOMAIN journal' : journal'[i].by = manifest'
    BY <2>1, EmptySeq
  <2> QED BY <1>3, <1>o, <1>s, <2>1, <2>2 DEF WriteManifest, One, HasReceipt
<1>4. CASE Ask
  <2>1. asking' \in Todo
    BY <1>4, NextKeyIsDue, TodoIsKeys DEF Ask
  <2>2. pc = "pass1" => asking'.repeat = 0
    BY <2>1 DEF Todo, PrimaryKeys
  <2>3. pc = "pass2" => asking' \in DueRepeats
    BY <2>1 DEF Todo, DueRepeats
  <2> QED BY <1>4, <1>o, <1>s, <2>2, <2>3 DEF Ask, disk, One, HasReceipt
<1>6. CASE Settle
  BY <1>6, <1>o, <1>s DEF Settle, One, HasReceipt
<1>7. CASE EndPass1
  <2>1. PrimaryKeys \subseteq Keys(journal)
    BY <1>7, <1>0, Pass1IsWhole
  <2> QED BY <1>7, <1>o, <1>s, <2>1 DEF EndPass1, Stop, disk, One, HasReceipt
<1>8. CASE SyncForReceipt
  BY <1>8, <1>o, <1>s DEF SyncForReceipt, One, HasReceipt
<1>10. CASE StartPass2
  BY <1>10, <1>o, <1>s, <1>0 DEF StartPass2, One, HasReceipt, Running
<1>11. CASE Close
  BY <1>11, <1>o, <1>s DEF Close, One, HasReceipt
<1>12. CASE WriteComplete
  BY <1>12, <1>o, <1>s DEF WriteComplete, One, HasReceipt
<1>13. CASE WriteMeta
  BY <1>13, <1>o, <1>s DEF WriteMeta, Stop, One, HasReceipt
<1>14. CASE Crash
  BY <1>14, <1>o, <1>s DEF Crash, Stop, One, HasReceipt
<1>17. CASE UNCHANGED vars
  BY <1>17, <1>o, <1>s DEF vars, One, HasReceipt
<1>5. ASSUME NEW o \in Outcomes \cup RepeatOutcomes, RecordAnswer(o) PROVE One'
  <2>1. PICK r \in Record : r.key = asking /\ r.by = EffectiveOf[endpoint] /\ journal' = Append(journal, r)
    BY <1>0, <1>5, RecordIsAppended
  <2>2. /\ asking # NoKey /\ asking \notin Keys(journal) /\ pc \in {"pass1", "pass2"}
        /\ UNCHANGED <<manifest, receipt, pc, asking>>
    BY <1>5, <1>0, RecordIsAppended DEF RecordAnswer
  <2>3. manifest = EffectiveOf[endpoint]
    BY <2>2, <1>0 DEF Named
  <2>4. Keys(journal)' = Keys(journal) \cup {asking} /\ Distinct(journal)'
    <3>1. Keys(journal') = Keys(journal) \cup {asking} /\ Distinct(journal')
      BY <1>o, <1>t, <2>1, <2>2, KeysOfAppend, DistinctByAppend
    <3> QED BY <3>1 DEF Keys, Distinct
  <2>5. \A i \in DOMAIN journal' : journal'[i].by = manifest
    <3>1. /\ Len(journal') = Len(journal) + 1 /\ DOMAIN journal' = 1..Len(journal') /\ Len(journal) \in Nat
          /\ \A i \in 1..Len(journal) : journal'[i] = journal[i]
          /\ journal'[Len(journal) + 1] = r /\ DOMAIN journal = 1..Len(journal)
      BY <1>t, <2>1, AppendProperties, LenProperties
    <3> QED BY <1>o, <2>1, <2>3, <3>1
  <2>6. HasReceipt => DueRepeats' = DueRepeats
    <3> SUFFICES ASSUME HasReceipt PROVE DueRepeats' = DueRepeats
      OBVIOUS
    <3>1. Kept(journal', receipt.prefix)
      BY <1>0, <1>t, <1>d, <2>1, KeptByAppend DEF Pinned, ReceiptPinsWhatSurvives
    <3>2. Distinct(journal')
      BY <2>4 DEF Distinct
    <3>3. Flagged(journal') = Flagged(journal)
      BY <1>t, <1>d, <3>1, <3>2, PinnedStep
    <3>4. Flagged(journal)' = Flagged(journal')
      BY DEF Flagged, Primary
    <3> QED BY <3>3, <3>4 DEF DueRepeats, RepeatKeys
  <2>7. HasReceipt' = HasReceipt
    BY <2>2 DEF HasReceipt
  <2>8. ~HasReceipt => \A k \in Keys(journal)' : k.repeat = 0
    BY <1>o, <2>2, <2>4
  <2>9. \A k \in Keys(journal)' : k.repeat > 0 => k \in DueRepeats'
    <3> TAKE k \in Keys(journal)'
    <3>1. CASE ~HasReceipt
      BY <2>8, <3>1
    <3>2. CASE HasReceipt
      BY <1>o, <2>2, <2>4, <2>6, <3>2
    <3> QED BY <3>1, <3>2
  <2> QED BY <1>o, <2>2, <2>4, <2>5, <2>6, <2>7, <2>8, <2>9 DEF One
<1>9. CASE WriteReceipt
  <2>1. manifest # NoContract
    BY <1>9, <1>0, EffectiveOfIsAContract, NoContractIsNone DEF WriteReceipt, Named, Running
  <2>2. HasReceipt' /\ Keys(receipt.prefix)' = Keys(journal)
    BY <1>9, <2>1 DEF WriteReceipt, HasReceipt, NoReceipt, Keys
  <2>3. UNCHANGED <<journal, manifest, asking>> /\ pc' = "flag" /\ pc = "receipt"
    BY <1>9 DEF WriteReceipt
  <2> QED BY <2>2, <2>3, <1>o, <1>s DEF One
<1>15. CASE PowerLoss
  <2>1. PICK n \in synced..Len(journal) : journal' = SubSeq(journal, 1, n)
    BY <1>15 DEF PowerLoss
  <2>2. UNCHANGED <<manifest, receipt>> /\ pc' = "off" /\ asking' = NoKey
    BY <1>15 DEF PowerLoss, Stop
  <2>3. n \in 0..Len(journal)
    BY <1>0, <2>1 DEF Typed, TypeOK
  <2>4. Kept(journal, journal')
    BY <1>t, <2>1, <2>3, PrefixIsKept
  <2>5. Keys(journal') \subseteq Keys(journal) /\ Distinct(journal')
    BY <1>t, <1>o, <2>4, KeysOfPrefix
  <2>6. \A i \in DOMAIN journal' : journal'[i].by = manifest
    <3>1. /\ Len(journal') <= Len(journal) /\ \A i \in 1..Len(journal') : journal[i] = journal'[i]
          /\ DOMAIN journal' = 1..Len(journal') /\ DOMAIN journal = 1..Len(journal)
          /\ Len(journal) \in Nat /\ Len(journal') \in Nat
      BY <1>t, <2>4, KeptIsPointwise, LenProperties
    <3> QED BY <1>o, <3>1
  <2>7. HasReceipt => DueRepeats' = DueRepeats
    <3> SUFFICES ASSUME HasReceipt PROVE DueRepeats' = DueRepeats
      OBVIOUS
    <3>1. Kept(journal', receipt.prefix)
      <4>1. HasReceipt' /\ damage' = 0 /\ receipt' = receipt
        BY <2>2 DEF HasReceipt
      <4> QED BY <1>0, <4>1 DEF Pinned, ReceiptPinsWhatSurvives, Kept
    <3>2. Flagged(journal') = Flagged(journal)
      BY <1>t, <1>d, <2>5, <3>1, PinnedStep
    <3>3. Flagged(journal)' = Flagged(journal')
      BY DEF Flagged, Primary
    <3> QED BY <3>2, <3>3 DEF DueRepeats, RepeatKeys
  <2>8. HasReceipt' = HasReceipt /\ Keys(journal)' = Keys(journal') /\ Distinct(journal)' = Distinct(journal')
    BY <2>2 DEF HasReceipt, Keys, Distinct
  <2>9. \A k \in Keys(journal)' : k.repeat > 0 => k \in DueRepeats'
    <3> TAKE k \in Keys(journal)'
    <3>1. CASE ~HasReceipt
      BY <1>o, <2>5, <2>8, <3>1
    <3>2. CASE HasReceipt
      BY <1>o, <2>5, <2>7, <2>8, <3>2
    <3> QED BY <3>1, <3>2
  <2> QED BY <1>o, <2>2, <2>5, <2>6, <2>8, <2>9 DEF One
<1>16. ~Damage
  BY <1>0 DEF Damage, Typed, TypeOK
<1> QED BY <1>1, <1>2, <1>3, <1>4, <1>5, <1>6, <1>7, <1>8, <1>9, <1>10, <1>11, <1>12, <1>13,
           <1>14, <1>15, <1>16, <1>17 DEF Next, Start, Step

LEMMA InitOne == Init => One
BY EmptySeq DEF Init, One, Distinct, HasReceipt, Keys

(* Past the receipt the primary answers are all there. *)
LEMMA PrimariesAreThere ==
  ASSUME Pinned, One, damage = 0, HasReceipt
  PROVE  PrimaryKeys \subseteq Keys(journal)
<1>1. journal \in Seq(Record) /\ receipt.prefix \in Seq(Record) /\ Kept(journal, receipt.prefix)
  BY DEF Pinned, Typed, TypeOK, ReceiptPinsWhatSurvives
<1> QED BY <1>1, KeysOfPrefix DEF One

(* Every line of a journal was asked under one contract and no key twice,  *)
(* and every repeat belongs to a question that the primary answers in that *)
(* journal flag, although unpinned primaries may have been lost and asked  *)
(* again.                                                                  *)
THEOREM JournalIsOneExperiment == Spec => []OneExperiment
<1>1. Pinned /\ One => OneExperiment
  <2> SUFFICES ASSUME Pinned, One, damage = 0
               PROVE  /\ \A i \in DOMAIN journal : journal[i].by = manifest
                      /\ Cardinality(Keys(journal)) = Len(journal)
                      /\ \A k \in Keys(journal) : k.repeat > 0 => k \in Wanted(journal)
    BY DEF OneExperiment
  <2>1. journal \in Seq(Record)
    BY DEF Pinned, Typed, TypeOK
  <2>2. Cardinality(Keys(journal)) = Len(journal)
    BY <2>1, DistinctKeysAreCounted DEF One
  <2>3. ASSUME NEW k \in Keys(journal), k.repeat > 0 PROVE k \in Wanted(journal)
    <3>1. HasReceipt
      BY <2>3 DEF One
    <3>2. k \in DueRepeats
      BY <2>3 DEF One
    <3>3. PrimaryKeys \subseteq Keys(journal)
      BY <3>1, PrimariesAreThere
    <3> QED BY <3>2, <3>3 DEF Wanted, DueRepeats
  <2> QED BY <2>2, <2>3 DEF One
<1> QED BY InitPinned, StepPinned, InitOne, StepOne, <1>1, PTL DEF Spec

-----------------------------------------------------------------------------
(* A finished run stays whole: everything was synced before it was called  *)
(* complete, and nothing is asked of it again.                             *)

Finished == progress = "complete" \/ scored \/ pc \in {"closed", "meta"}
Done == damage = 0 /\ Finished =>
    /\ HasReceipt /\ DueRepeats \subseteq Keys(journal)
    /\ synced = Len(journal) /\ asking = NoKey

LEMMA StepDone == Pinned /\ One /\ Done /\ [Next]_vars => Done'
<1> SUFFICES ASSUME Pinned, One, Done, [Next]_vars, damage' = 0 PROVE Done'
  BY DEF Done
<1>0. Typed /\ Typed' /\ Running /\ Named
  BY StepTyped DEF Pinned, Typed
<1>16. ~Damage
  BY <1>0 DEF Damage, Typed, TypeOK
<1>d. damage = 0
  BY <1>16 DEF Next, Start, Step, StartFresh, StartResume, WriteManifest, Ask, RecordAnswer, Settle,
              EndPass1, SyncForReceipt, WriteReceipt, StartPass2, Close, WriteComplete, WriteMeta,
              Crash, PowerLoss, vars
<1>f. Finished => /\ HasReceipt /\ DueRepeats \subseteq Keys(journal)
                  /\ synced = Len(journal) /\ asking = NoKey
  BY <1>d DEF Done
<1>s. ASSUME UNCHANGED journal PROVE Keys(journal)' = Keys(journal) /\ DueRepeats' = DueRepeats
  BY <1>s DEF Keys, DueRepeats, Flagged, Primary, RepeatKeys
<1> USE DEF Finished, HasReceipt
<1>1. ASSUME NEW e \in Endpoints, StartFresh(e) PROVE Done'
  BY <1>1, <1>f, <1>s DEF StartFresh, disk, Done
<1>2. ASSUME NEW e \in Endpoints, StartResume(e) PROVE Done'
  BY <1>2, <1>f, <1>s DEF StartResume, Done
<1>3. CASE WriteManifest
  BY <1>3, <1>f, <1>s, <1>0 DEF WriteManifest, Done, Named
<1>4. CASE Ask
  <2>1. ASSUME Finished PROVE FALSE
    <3>1. PrimaryKeys \subseteq Keys(journal) /\ DueRepeats \subseteq Keys(journal)
      BY <2>1, <1>d, <1>f, PrimariesAreThere
    <3>2. Todo = {}
      BY <3>1 DEF Todo, DueRepeats
    <3> QED BY <1>4, <3>2 DEF Ask
  <2> QED BY <1>4, <2>1 DEF Ask, disk, Done
<1>5. ASSUME NEW o \in Outcomes \cup RepeatOutcomes, RecordAnswer(o) PROVE Done'
  BY <1>5, <1>f, <1>0 DEF RecordAnswer, Done, Running
<1>6. CASE Settle
  BY <1>6, <1>f, <1>0 DEF Settle, Done, Running
<1>7. CASE EndPass1
  BY <1>7, <1>f, <1>s DEF EndPass1, Stop, disk, Done
<1>8. CASE SyncForReceipt
  BY <1>8, <1>f, <1>s DEF SyncForReceipt, Done
<1>9. CASE WriteReceipt
  <2>1. manifest # NoContract
    BY <1>9, <1>0, EffectiveOfIsAContract, NoContractIsNone DEF WriteReceipt, Named, Running
  <2> QED BY <1>9, <1>f, <1>s, <2>1 DEF WriteReceipt, Done, NoReceipt
<1>10. CASE StartPass2
  BY <1>10, <1>f, <1>s DEF StartPass2, Done
<1>11. CASE Close
  <2>1. DueRepeats \subseteq Keys(journal)
    BY <1>11 DEF Close, Todo, DueRepeats
  <2>2. HasReceipt
    BY <1>11, <1>d DEF Close, One
  <2> QED BY <1>11, <1>s, <2>1, <2>2 DEF Close, Done
<1>12. CASE WriteComplete
  BY <1>12, <1>f, <1>s DEF WriteComplete, Done
<1>13. CASE WriteMeta
  BY <1>13, <1>f, <1>s DEF WriteMeta, Stop, Done
<1>14. CASE Crash
  BY <1>14, <1>f, <1>s DEF Crash, Stop, Done
<1>15. CASE PowerLoss
  <2>1. PICK n \in synced..Len(journal) : journal' = SubSeq(journal, 1, n) /\ synced' = n
    BY <1>15 DEF PowerLoss
  <2>2. ASSUME Finished PROVE journal' = journal /\ synced' = Len(journal)
    <3>1. n = Len(journal) /\ journal \in Seq(Record)
      BY <2>1, <2>2, <1>f, <1>0 DEF Typed, TypeOK
    <3> QED BY <2>1, <3>1, SubSeqFull
  <2>3. Finished' => Finished
    BY <1>15 DEF PowerLoss, Stop, None
  <2> QED BY <1>15, <2>2, <2>3, <1>f, <1>s DEF PowerLoss, Stop, Done
<1>17. CASE UNCHANGED vars
  BY <1>17, <1>f, <1>s DEF vars, Done
<1> QED BY <1>1, <1>2, <1>3, <1>4, <1>5, <1>6, <1>7, <1>8, <1>9, <1>10, <1>11, <1>12, <1>13,
           <1>14, <1>15, <1>16, <1>17 DEF Next, Start, Step

LEMMA FinishedIsWhole ==
  ASSUME Pinned, One, Done, damage = 0, progress = "complete" \/ scored
  PROVE  /\ Keys(journal) = Wanted(journal)
         /\ PrimaryKeys \cup DueRepeats \subseteq Keys(journal)
<1>1. HasReceipt /\ DueRepeats \subseteq Keys(journal)
  BY DEF Done, Finished
<1>2. PrimaryKeys \subseteq Keys(journal)
  BY <1>1, PrimariesAreThere
<1>3. ASSUME NEW k \in Keys(journal) PROVE k \in PrimaryKeys \cup DueRepeats
  <2>1. journal \in Seq(Record)
    BY DEF Pinned, Typed, TypeOK
  <2>2. CASE k.repeat = 0
    BY <2>1, <2>2, KeysAreKeys
  <2>3. CASE k.repeat # 0
    BY <2>1, <2>3, KeysAreKeys DEF One
  <2> QED BY <2>2, <2>3
<1> QED BY <1>1, <1>2, <1>3 DEF Wanted, DueRepeats

LEMMA InitDone == Init => Done
BY DEF Init, Done, Finished, None

(* A run-state that says complete, or a meta.json, means that every wanted *)
(* answer is in the journal, whatever crashed since.                       *)
THEOREM CompleteRunsAreWhole == Spec => []CompleteMeansWhole
<1>1. Pinned /\ One /\ Done => CompleteMeansWhole
  BY FinishedIsWhole DEF CompleteMeansWhole
<1> QED BY InitPinned, StepPinned, InitOne, StepOne, InitDone, StepDone, <1>1, PTL DEF Spec

-----------------------------------------------------------------------------
(* What the scorer calls lost is among the flagged. *)

LEMMA LostIsFlagged ==
  ASSUME NEW j \in Seq(Record), PrimaryKeys \subseteq Keys(j)
  PROVE  LostOf(AnswersOf(j), Questions) \subseteq Flagged(j)
<1> DEFINE ans == AnswersOf(j)
<1>1. DOMAIN ans = Keys(j)
  BY DEF AnswersOf
<1>2. ASSUME NEW q \in Questions, NEW a \in 1..3
      PROVE  /\ PrimaryKey(ans, q, a) = [q |-> q, arm |-> a, repeat |-> 0]
             /\ PrimaryAnswer(ans, q, a).correct = (Primary(j, q, a) = "right")
  <2> DEFINE k == [q |-> q, arm |-> a, repeat |-> 0]
  <2>1. k \in Keys(j)
    BY DEF PrimaryKeys, Arms
  <2>2. Asked(ans, q, a) = {l \in Keys(j) : l.q = q /\ l.arm = a}
    BY <1>1 DEF Asked
  <2>3. k \in Asked(ans, q, a) /\ \A l \in Asked(ans, q, a) : l \in Key /\ k.repeat <= l.repeat
    <3>1. k \in Asked(ans, q, a)
      BY <2>1, <2>2
    <3>2. \A l \in Asked(ans, q, a) : l \in Key
      BY <2>2, KeysAreKeys
    <3>3. \A l \in Key : 0 <= l.repeat
      BY DEF Key
    <3> QED BY <3>1, <3>2, <3>3
  <2>4. ASSUME NEW l \in Asked(ans, q, a), l.repeat <= k.repeat PROVE l = k
    <3>1. l \in Key /\ l.q = q /\ l.arm = a
      BY <2>2, <2>3, <2>4
    <3>2. l.repeat = 0
      BY <2>4, <3>1 DEF Key
    <3> QED BY <3>1, <3>2 DEF Key
  <2>5. PrimaryKey(ans, q, a) = k
    BY <2>3, <2>4 DEF PrimaryKey
  <2>6. ans[k].correct = (Primary(j, q, a) = "right")
    BY <2>1 DEF AnswersOf, Primary
  <2> QED BY <2>5, <2>6 DEF PrimaryAnswer
<1>3. ASSUME NEW q \in LostOf(ans, Questions) PROVE q \in Flagged(j)
  <2>1. q \in Questions /\ PrimaryAnswer(ans, q, 2).correct /\ ~PrimaryAnswer(ans, q, 3).correct
    <3> DEFINE both == {x \in AskedQuestions(ans) \cap Questions :
                          Asked(ans, x, Brief) # {} /\ Asked(ans, x, Encoded) # {}}
    <3>1. q \in RightIn(ans, both, Brief) /\ q \notin RightIn(ans, both, Encoded)
      BY <1>3 DEF LostOf
    <3>2. q \in both /\ PrimaryAnswer(ans, q, Brief).correct /\ ~PrimaryAnswer(ans, q, Encoded).correct
      BY <3>1 DEF RightIn
    <3> QED BY <3>2 DEF Brief, Encoded
  <2>2. Primary(j, q, 2) = "right" /\ Primary(j, q, 3) # "right"
    <3>1. /\ PrimaryAnswer(ans, q, 2).correct = (Primary(j, q, 2) = "right")
          /\ PrimaryAnswer(ans, q, 3).correct = (Primary(j, q, 3) = "right")
      BY <2>1, <1>2
    <3> QED BY <2>1, <3>1, Zenon
  <2> QED BY <2>1, <2>2 DEF Flagged, Arms
<1> QED BY <1>3

(* Of a finished run every loss the scorer finds has all its repeats in    *)
(* every arm, so that a stable loss is never one that was not repeated.    *)
THEOREM LossesWereRepeated == Spec => []LossesAreRepeated
<1>1. Pinned /\ One /\ Done => LossesAreRepeated
  <2> SUFFICES ASSUME Pinned, One, Done, damage = 0, scored,
                      NEW k \in [q : LostOf(AnswersOf(journal), Questions), arm : ReaderArms,
                                 repeat : 0..(Repeats - 1)]
               PROVE  k \in Keys(journal)
    BY DEF LossesAreRepeated
  <2>1. PrimaryKeys \cup DueRepeats \subseteq Keys(journal)
    BY FinishedIsWhole
  <2>2. k.q \in Flagged(journal)
    BY <2>1, LostIsFlagged DEF Pinned, Typed, TypeOK
  <2>3. k.q \in Questions /\ k.arm \in 1..Len(Arms)
    BY <2>2 DEF Flagged, ReaderArms, Raw, Brief, Encoded, Arms
  <2>4. CASE k.repeat = 0
    BY <2>1, <2>3, <2>4 DEF PrimaryKeys
  <2>5. CASE k.repeat # 0
    <3>1. k.repeat \in 1..(Repeats - 1)
      BY <2>5, BoundsAssumption
    <3> QED BY <2>1, <2>2, <2>3, <3>1 DEF DueRepeats, RepeatKeys
  <2> QED BY <2>4, <2>5
<1> QED BY InitPinned, StepPinned, InitOne, StepOne, InitDone, StepDone, <1>1, PTL DEF Spec
=============================================================================
