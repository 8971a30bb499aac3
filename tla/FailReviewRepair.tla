-------------------------- MODULE FailReviewRepair --------------------------
(***************************************************************************)
(* examples/fail-review-repair/run_fixture.py: one task from the draft to  *)
(* the final receipt.  A scripted worker builds a defect, the declared     *)
(* check fails, a critic asks for fixes, one repair follows within the     *)
(* authorized rounds, and the repaired artifact is checked, reviewed,      *)
(* integrated and checked again.                                           *)
(*                                                                         *)
(* Several runs may be started on the same output directory, at the same   *)
(* time or after one died; anyone may edit the workspace.  A run is about  *)
(* to append state s to its ledger when its pc is s.  A critic run that    *)
(* fails is Raise; the scripted verdicts make the wrong verdict impossible.*)
(***************************************************************************)
EXTENDS Integers, SequencesExt

CONSTANTS
    Runs,       \* the runs started on one output directory
    NoRun,
    Arguments,  \* the values --repair-round-limit may have
    MaxOutside  \* bound on the edits of others

ASSUME RunsAssumption == NoRun \notin Runs
ASSUME LimitsAssumption == Arguments \subseteq Int /\ MaxOutside \in Nat

VARIABLES
    limit,     \* --repair-round-limit
    pc,        \* pc[r]: where run r stands
    round,     \* round[r]: how many artifacts it has built
    rev,       \* rev[r]: the revision at hand
    memory,    \* memory[r]: what its StateLedger holds
    exit,      \* exit[r]: the exit code, or -1
    dir,       \* the output directory: "absent", "empty" or "used"
    owner,     \* the run that made the workspace in it
    ledger,    \* state-events.jsonl, with the run that wrote each event
    checks,    \* checks[k]: whether the k-th declared check passed
    verdicts,  \* verdicts[k]: the critic's verdict of round k
    decided,   \* finding-dispositions.json: the revision it is about
    receipt,   \* final-receipt.json
    commits,   \* the Git commits of the workspace: the run and score.py
    tree,      \* score.py
    outside    \* number of edits of others

process == <<pc, round, rev, memory, exit>>
evidence == <<checks, verdicts, decided>>
output == <<dir, owner, ledger, evidence, receipt>>
workspace == <<commits, tree>>
world == <<limit, outside>>
vars == <<process, output, workspace, world>>

\* score.py before the work, after it, after the repair, after anyone else.
Contents == {"base", "defect", "repaired", "other"}
Stops == {"completed", "budget_exhausted"}
Follow ==
    [draft |-> "authorized", authorized |-> "assigned", assigned |-> "building",
     building |-> "write", mechanical_check |-> "critic_review", critic_review |-> "review",
     needs_fixes |-> "building", accepted_unit |-> "integrating", integrating |-> "integrate",
     final_review |-> "completed", completed |-> "receipt", budget_exhausted |-> "receipt"]
States == DOMAIN Follow
Points == States \cup {"idle", "make", "workspace", "base", "write", "commit", "check",
                       "review", "dispose", "integrate", "final_check", "receipt", "exited", "dead"}
\* The sequence number stands for the hash of the event it numbers.
NoMemory == [sequence |-> 0, state |-> "none"]
NoVerdict == [reviewed |-> 0, verdict |-> "none"]
NoReceipt == [status |-> "open"]

Init ==
    /\ limit \in Arguments
    /\ pc = [r \in Runs |-> "idle"]
    /\ round = [r \in Runs |-> 0] /\ rev = [r \in Runs |-> 0]
    /\ memory = [r \in Runs |-> NoMemory] /\ exit = [r \in Runs |-> -1]
    /\ dir \in {"absent", "empty", "used"} /\ owner = NoRun
    /\ ledger = <<>>
    /\ checks = [k \in 1..3 |-> "none"] /\ verdicts = [k \in 1..2 |-> NoVerdict] /\ decided = 0
    /\ receipt = NoReceipt
    /\ commits = <<>> /\ tree = "base"
    /\ outside = 0

-----------------------------------------------------------------------------
(* The output directory, the workspace and the contract.                   *)

Goto(r, point) == pc' = [pc EXCEPT ![r] = point]
Exit(r, code) == pc' = [pc EXCEPT ![r] = "exited"] /\ exit' = [exit EXCEPT ![r] = code]
Running(r) == pc[r] \notin {"idle", "exited", "dead"}

\* A negative limit and a directory that holds something are refused.
Start(r) ==
    /\ pc[r] = "idle"
    /\ \/ (limit < 0 \/ dir = "used") /\ Exit(r, 2)
       \/ /\ limit >= 0 /\ dir # "used"
          /\ Goto(r, IF dir = "absent" THEN "make" ELSE "workspace")
          /\ UNCHANGED exit
    /\ UNCHANGED <<round, rev, memory, output, workspace, world>>

\* path.mkdir(parents=True): it raises when another run was faster.
MakeOutput(r) ==
    /\ pc[r] = "make"
    /\ \/ dir # "absent" /\ Exit(r, 2) /\ UNCHANGED dir
       \/ dir = "absent" /\ dir' = "empty" /\ Goto(r, "workspace") /\ UNCHANGED exit
    /\ UNCHANGED <<round, rev, memory, owner, ledger, evidence, receipt, workspace, world>>

\* Slip: a workspace that is there is used again.
OwnedNever == FALSE

\* workspace.mkdir() raises when the workspace is there.
Owned == owner # NoRun

MakeWorkspace(r) ==
    /\ pc[r] = "workspace"
    /\ \/ Owned /\ Exit(r, 2) /\ UNCHANGED <<dir, owner>>
       \/ ~Owned /\ dir' = "used" /\ owner' = r /\ Goto(r, "base") /\ UNCHANGED exit
    /\ UNCHANGED <<round, rev, memory, ledger, evidence, receipt, workspace, world>>

CommitAs(r) ==
    /\ commits' = Append(commits, [run |-> r, score |-> tree])
    /\ rev' = [rev EXCEPT ![r] = Len(commits) + 1]

\* The frozen base and contract.snapshot.json.
Contract(r) ==
    /\ pc[r] = "base"
    /\ CommitAs(r) /\ Goto(r, "draft")
    /\ UNCHANGED <<memory, round, exit, output, tree, world>>

-----------------------------------------------------------------------------
(* The lifecycle.                                                          *)

\* Slip: the event that is written does not become the one before.
RememberNothing(r, event) == memory' = [memory EXCEPT ![r].sequence = event.sequence]

\* The event is on the disk, and the next one names it.
Remember(r, event) ==
    memory' = [memory EXCEPT ![r] = [sequence |-> event.sequence, state |-> event.state]]

\* The state before is what this process remembers, not what the file holds.
StateLedger_append(r) ==
    LET event == [run |-> r, sequence |-> memory[r].sequence + 1, previous |-> memory[r].state,
                  state |-> pc[r], artifact |-> rev[r]]
    IN  ledger' = Append(ledger, event) /\ Remember(r, event)

Log(r) ==
    /\ pc[r] \in States
    /\ StateLedger_append(r)
    /\ Goto(r, Follow[pc[r]])
    /\ UNCHANGED <<round, rev, exit, dir, owner, evidence, receipt, workspace, world>>

\* The worker, or its repair, writes score.py ...
Write(r) ==
    /\ pc[r] = "write"
    /\ tree' = IF round[r] = 0 THEN "defect" ELSE "repaired"
    /\ Goto(r, "commit")
    /\ UNCHANGED <<round, rev, memory, exit, output, commits, world>>

\* ... and git takes what is there by then.
Commit(r) ==
    /\ pc[r] = "commit"
    /\ CommitAs(r)
    /\ round' = [round EXCEPT ![r] = @ + 1]
    /\ Goto(r, "check")
    /\ UNCHANGED <<memory, exit, output, tree, world>>

\* Slip: the integrated artifact is taken for the one that passed already.
ExpectedOrDone(k, passed) == IF k = 1 THEN ~passed ELSE k = 3 \/ passed

\* The first build must fail its check, the repaired and the integrated pass.
Expected(k, passed) == IF k = 1 THEN ~passed ELSE passed

\* The tests run on the working tree; they may also fail of themselves.
RunCheck(r, k, next) ==
    \E passed \in {p \in BOOLEAN: p => tree \in {"repaired", "other"}}:
        /\ checks' = [checks EXCEPT ![k] = IF passed THEN "passed" ELSE "failed"]
        /\ \/ Expected(k, passed) /\ Goto(r, next) /\ UNCHANGED exit
           \/ ~Expected(k, passed) /\ Exit(r, 2)

Check(r) ==
    /\ pc[r] = "check"
    /\ RunCheck(r, round[r], "mechanical_check")
    /\ UNCHANGED <<round, rev, memory, dir, owner, ledger, verdicts, decided, receipt, workspace, world>>

\* The critic gets the revision at hand; it asks for fixes, then passes.
Review(r) ==
    /\ pc[r] = "review"
    /\ verdicts' = [verdicts EXCEPT ![round[r]] =
            [reviewed |-> rev[r], verdict |-> IF round[r] = 1 THEN "NEEDS_FIXES" ELSE "PASS"]]
    /\ Goto(r, IF round[r] = 1 THEN "dispose" ELSE "accepted_unit")
    /\ UNCHANGED <<round, rev, memory, exit, dir, owner, ledger, checks, decided, receipt, workspace, world>>

\* Slip: every task gets its repair.
SpentNever(r) == round[r] > limit + 1

\* Only the limit of none is ever compared: one repair is all there is.
Spent(r) == limit = 0

\* F1 is confirmed and F2 refuted; the confirmed one needs a round.
Dispose(r) ==
    /\ pc[r] = "dispose"
    /\ decided' = rev[r]
    /\ Goto(r, IF Spent(r) THEN "budget_exhausted" ELSE "needs_fixes")
    /\ UNCHANGED <<round, rev, memory, exit, dir, owner, ledger, checks, verdicts, receipt, workspace, world>>

\* integration-manifest.json is committed with whatever else is there.
Integrate(r) ==
    /\ pc[r] = "integrate"
    /\ CommitAs(r) /\ Goto(r, "final_check")
    /\ UNCHANGED <<memory, round, exit, output, tree, world>>

FinalCheck(r) ==
    /\ pc[r] = "final_check"
    /\ RunCheck(r, 3, "final_review")
    /\ UNCHANGED <<round, rev, memory, dir, owner, ledger, verdicts, decided, receipt, workspace, world>>

repair_rounds_used(r, stop) == IF stop = "completed" THEN 1 ELSE 0

\* Slip: a receipt was written, so the run went well.
ExitDone(stop) == 0

ExitCode(stop) == IF stop = "completed" THEN 0 ELSE 3

\* final-receipt.json, with the tail this process remembers; the exit code follows.
Receipt(r) ==
    /\ pc[r] = "receipt"
    /\ LET stop == memory[r].state
       IN  /\ receipt' = [status |-> stop, tail |-> memory[r].sequence,
                          result |-> IF stop = "completed" THEN rev[r] - 1 ELSE rev[r],
                          integration |-> IF stop = "completed" THEN rev[r] ELSE 0,
                          rounds |-> repair_rounds_used(r, stop)]
           /\ Exit(r, ExitCode(stop))
    /\ UNCHANGED <<round, rev, memory, dir, owner, ledger, evidence, workspace, world>>

\* Git, the critic or a write fails: main() prints it and returns 2.
Raise(r) ==
    /\ Running(r) /\ Exit(r, 2)
    /\ UNCHANGED <<round, rev, memory, output, workspace, world>>

-----------------------------------------------------------------------------
(* The rest of the world.                                                  *)

Die(r) ==
    /\ Running(r) /\ Goto(r, "dead")
    /\ UNCHANGED <<round, rev, memory, exit, output, workspace, world>>

Edit ==
    /\ owner # NoRun /\ outside < MaxOutside
    /\ outside' = outside + 1
    /\ tree' \in Contents \ {tree}
    /\ UNCHANGED <<process, output, commits, limit>>

Proceed(r) ==
    \/ MakeOutput(r) \/ MakeWorkspace(r) \/ Contract(r) \/ Log(r) \/ Write(r) \/ Commit(r)
    \/ Check(r) \/ Review(r) \/ Dispose(r) \/ Integrate(r) \/ FinalCheck(r) \/ Receipt(r)

Next ==
    \/ \E r \in Runs: Start(r) \/ Proceed(r) \/ Raise(r) \/ Die(r)
    \/ Edit

Spec == Init /\ [][Next]_vars

-----------------------------------------------------------------------------
(* Properties.                                                             *)

EventType == [run: Runs, sequence: Nat, previous: States \cup {"none"}, state: States, artifact: Nat]
MemoryType == [sequence: Nat, state: States \cup {"none"}]
VerdictType == [reviewed: Nat, verdict: {"NEEDS_FIXES", "PASS"}]
ReceiptType == [status: Stops, tail: Nat, result: Nat, integration: Nat,
                rounds: 0..1]

\* What the processes, the output directory and the workspace may hold.
TypeOK ==
    /\ limit \in Int
    /\ pc \in [Runs -> Points] /\ round \in [Runs -> 0..2] /\ rev \in [Runs -> Nat]
    /\ memory \in [Runs -> MemoryType] /\ exit \in [Runs -> {-1, 0, 2, 3}]
    /\ dir \in {"absent", "empty", "used"} /\ owner \in Runs \cup {NoRun}
    /\ ledger \in Seq(EventType)
    /\ checks \in [1..3 -> {"none", "passed", "failed"}]
    /\ verdicts \in [1..2 -> VerdictType \cup {NoVerdict}] /\ decided \in Nat
    /\ receipt \in ReceiptType \cup {NoReceipt}
    /\ commits \in Seq([run: Runs, score: Contents]) /\ tree \in Contents
    /\ outside \in Nat

Closed == receipt # NoReceipt
Building == Cardinality({i \in 1..Len(ledger): ledger[i].state = "building"})

\* Everything in one output directory is the work of one run, however many were
\* started on it: prepare_output() lets two runs pass, only one gets past the
\* workspace, and what a dead run left is never continued.
OneRunPerOutput ==
    /\ \A i \in 1..Len(ledger): ledger[i].run = owner
    /\ \A i \in 1..Len(commits): commits[i].run = owner
    /\ \A r \in Runs: exit[r] \in {0, 3} => r = owner

\* tests/test_fixture.py: the states of a completed and of a stopped run.
Completed ==
    << "draft", "authorized", "assigned", "building", "mechanical_check", "critic_review",
       "needs_fixes", "building", "mechanical_check", "critic_review", "accepted_unit",
       "integrating", "final_review", "completed" >>
Exhausted == SubSeq(Completed, 1, 6) \o <<"budget_exhausted">>

\* At every moment the ledger is one chain: the beginning of a completed or of a
\* stopped run, each event numbered and naming the state before it, though its
\* writer takes both from memory and other runs may be at work.
LedgerIsOneChain ==
    LET states == [i \in 1..Len(ledger) |-> ledger[i].state]
    IN  /\ IsPrefix(states, Completed) \/ IsPrefix(states, Exhausted)
        /\ \A i \in 1..Len(ledger):
            /\ ledger[i].sequence = i
            /\ ledger[i].previous = IF i = 1 THEN "none" ELSE ledger[i - 1].state

\* A completed receipt rests on a check that failed, a verdict and dispositions
\* on that very revision, a later revision that passed check and critic, and a
\* passing check of an integrated revision made from it.  The checks ran on the
\* tree, after the commits they speak for: unless someone edited it in between,
\* the revisions are the defect, its repair, and the repair again.
CompletedWasEarned ==
    Closed /\ receipt.status = "completed" =>
        /\ checks[1] = "failed" /\ checks[2] = "passed" /\ checks[3] = "passed"
        /\ verdicts[1].verdict = "NEEDS_FIXES" /\ decided = verdicts[1].reviewed
        /\ verdicts[2] = [reviewed |-> receipt.result, verdict |-> "PASS"]
        /\ decided < receipt.result /\ receipt.result < receipt.integration
        /\ receipt.integration = Len(commits)
        /\ outside = 0 =>
            /\ commits[decided].score = "defect"
            /\ commits[receipt.result].score = "repaired"
            /\ commits[receipt.integration].score = "repaired"

\* The receipt is the last word: it names the tail of the ledger, the ledger
\* ends in its status, the repairs it counts are those the ledger shows and the
\* contract allows, and an exit code that is no error stands for that status.
ReceiptClosesLedger ==
    /\ Closed =>
        /\ receipt.tail = Len(ledger) /\ Last(ledger).state = receipt.status
        /\ receipt.rounds = Building - 1 /\ receipt.rounds <= limit
    /\ \A r \in Runs: exit[r] \in {0, 3} =>
        Closed /\ receipt.status = IF exit[r] = 0 THEN "completed" ELSE "budget_exhausted"

\* The run is a bounded repair: artifacts built are the revisions the workers
\* committed, judged by the critic's files, closed by the receipt.
Task == INSTANCE BoundedRepair WITH
    built <- IF owner = NoRun THEN 0 ELSE round[owner],
    verdict <- IF owner = NoRun \/ round[owner] = 0 THEN "none" ELSE verdicts[round[owner]].verdict,
    outcome <- IF Closed THEN receipt.status ELSE "open"

KeepsBounds == Task!Spec
=============================================================================
