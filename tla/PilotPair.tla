------------------------------- MODULE PilotPair -------------------------------
(***************************************************************************)
(* The two output directories of a reproducibility pair over time: each is *)
(* captured into, again and again, by run_pilot_case.py processes that may *)
(* die between any two of their writes, while the policy of the case may   *)
(* be edited; the verifier reads both directories at any moment.           *)
(***************************************************************************)
EXTENDS D1Capture

CONSTANTS Jobs,           \* what a capture may be and meet
          Attempts,       \* captures started in all, a bound
          Policy          \* the policy of the case as its builder wrote it
ASSUME AttemptsAssumption == Attempts \in Nat

(* What a command prints is a text of lines, and whether it is UTF-8 is a  *)
(* property of its bytes.                                                  *)
IsLine(line) == /\ line = [kept |-> line.kept, whole |-> line.whole, hits |-> line.hits, nl |-> line.nl]
                /\ line.hits \in Seq(Range(line.hits))
                /\ \A hit \in Range(line.hits) : hit = [trigger |-> hit.trigger, token |-> hit.token]
IsText(text) == /\ text.lines \in Seq(Range(text.lines))
                /\ \A line \in Range(text.lines) : IsLine(line)
ASSUME OutputsAssumption == \A job \in Jobs : IsText(job.output)
ASSUME BytesAssumption == \A j, k \in Jobs : j.output.lines = k.output.lines => j.output = k.output

VARIABLES dirs, pending, running, started, policy, completed
vars == <<dirs, pending, running, started, policy, completed>>

Sides == {"a", "b"}
NoJob == <<>>

Init ==
    /\ dirs = [d \in Sides |-> EmptyDir]
    /\ pending = [d \in Sides |-> <<>>]
    /\ running = [d \in Sides |-> NoJob]
    /\ started = 0
    /\ policy = Policy
    /\ completed = [d \in Sides |-> {}]

Intact == PolicyHolds(policy, MavenRules)

(* The policy is loaded, and verified, before the command runs. *)
Start(d, job) ==
    /\ pending[d] = <<>> /\ started < Attempts /\ Intact
    /\ pending' = [pending EXCEPT ![d] = Writes(job, policy)]
    /\ running' = [running EXCEPT ![d] = <<job>>]
    /\ started' = started + 1
    /\ UNCHANGED <<dirs, policy, completed>>

(* One file.  A capture completes with its receipt. *)
WriteFile(d) ==
    /\ pending[d] # <<>>
    /\ LET w == Head(pending[d])
       IN  /\ dirs' = [dirs EXCEPT ![d][w.file] = File(w.content)]
           /\ completed' = IF w.file = "receipt" THEN [completed EXCEPT ![d] = @ \cup {running[d][1]}] ELSE completed
    /\ pending' = [pending EXCEPT ![d] = Tail(@)]
    /\ UNCHANGED <<running, started, policy>>

Die(d) ==
    /\ pending[d] # <<>>
    /\ pending' = [pending EXCEPT ![d] = <<>>]
    /\ UNCHANGED <<dirs, running, started, policy, completed>>

(* Someone edits the policy, resealing it or not. *)
EditPolicy ==
    /\ policy = Policy
    /\ \E reseal \in BOOLEAN :
         LET body == [Policy.body EXCEPT !.type = "edited"]
         IN  policy' = [body |-> body, seal |-> IF reseal THEN body ELSE Policy.seal]
    /\ UNCHANGED <<dirs, pending, running, started, completed>>

Next == \/ \E d \in Sides : (\E job \in Jobs : Start(d, job)) \/ WriteFile(d) \/ Die(d)
        \/ EditPolicy
Spec == Init /\ [][Next]_vars

-----------------------------------------------------------------------------
Passed == VerifyPair(dirs.a, dirs.b, policy, Intact)
WithoutTokens(line) == [line EXCEPT !.hits = [j \in DOMAIN @ |-> [trigger |-> @[j].trigger, token |-> "*"]]]
Kept(job) == LET kept == Capped(job.output.lines) IN [i \in DOMAIN kept |-> WithoutTokens(kept[i])]

(* A line that a capture's own report says was replaced. *)
IsReplaced(line, job) == Content(line) \in Report(job.case, job.output).replaced
Prints(job, line) == \E i \in DOMAIN job.output.lines : Content(job.output.lines[i]) = Content(line)
DiffersWhereReplaced(job, other) ==
    \A line \in Range(job.output.lines) : IsReplaced(line, job) \/ Prints(other, line)

(* Whatever the two processes wrote, left behind or were killed in the     *)
(* middle of, a pair that passes is two completed captures of one case:    *)
(* each passed its gates and its content check on the bytes that now lie   *)
(* in the directory, under the policy of now, with the same toolchain and  *)
(* command; and a line of one output that the other does not have is one   *)
(* its own report replaced.  As far as they are kept, the two outputs      *)
(* differ in volatile tokens only, but for the case whose completion lines *)
(* come in either order (verify_pilot_pair_reproducibility.verify_pair).   *)
PassedMeansTwoAcceptedCaptures ==
    Passed => \E ja \in completed.a, jb \in completed.b :
        /\ ContentAccepted(ja) /\ ContentAccepted(jb)
        /\ BeforeTheRun(ja) = Proceeds /\ BeforeTheRun(jb) = Proceeds
        /\ ja.output = dirs.a.out.content /\ jb.output = dirs.b.out.content
        /\ ja.case = jb.case /\ ja.toolchain.resolved = jb.toolchain.resolved /\ EffectiveArgv(ja) = EffectiveArgv(jb)
        /\ ja.case \in Canonicalized => /\ Intact /\ ja.case \in policy.body.cases
                                        /\ \A d \in Sides : dirs[d].receipt.content.policy = <<policy>>
        /\ DiffersWhereReplaced(ja, jb) /\ DiffersWhereReplaced(jb, ja)
        /\ ja.case # "repo-kubeops-generator" => Kept(ja) = Kept(jb)
================================================================================
