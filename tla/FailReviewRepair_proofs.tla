----------------------- MODULE FailReviewRepair_proofs -----------------------
(***************************************************************************)
(* Theorems about FailReviewRepair for any number of runs started on the   *)
(* output directory, any round limits and any number of edits.             *)
(*                                                                         *)
(* The inductive invariant: a run past the making of the workspace owns    *)
(* the output; where it stands fixes how long the ledger is and how many   *)
(* commits there are; how long the ledger is fixes what the evidence says; *)
(* what the owner remembers of the ledger is what stands there.            *)
(***************************************************************************)
EXTENDS FailReviewRepair, SequenceTheorems, FiniteSetTheorems, TLAPS

Waiting == {"idle", "make", "workspace", "exited", "dead"}
Working(r) == pc[r] \notin Waiting

\* The ledger has n events when a run stands at p with k artifacts built.
Place(p, k, n) ==
    \/ p \in {"base", "draft"} /\ k = 0 /\ n = 0
    \/ p = "authorized" /\ k = 0 /\ n = 1
    \/ p = "assigned" /\ k = 0 /\ n = 2
    \/ p = "building" /\ ((k = 0 /\ n = 3) \/ (k = 1 /\ n = 7))
    \/ p \in {"write", "commit"} /\ ((k = 0 /\ n = 4) \/ (k = 1 /\ n = 8))
    \/ p \in {"check", "mechanical_check"} /\ ((k = 1 /\ n = 4) \/ (k = 2 /\ n = 8))
    \/ p = "critic_review" /\ ((k = 1 /\ n = 5) \/ (k = 2 /\ n = 9))
    \/ p = "review" /\ ((k = 1 /\ n = 6) \/ (k = 2 /\ n = 10))
    \/ p \in {"dispose", "needs_fixes", "budget_exhausted"} /\ k = 1 /\ n = 6
    \/ p = "accepted_unit" /\ k = 2 /\ n = 10
    \/ p = "integrating" /\ k = 2 /\ n = 11
    \/ p \in {"integrate", "final_check", "final_review"} /\ k = 2 /\ n = 12
    \/ p = "completed" /\ k = 2 /\ n = 13
    \/ p = "receipt" /\ ((k = 1 /\ n = 7) \/ (k = 2 /\ n = 14))

\* ... and the workspace so many commits.
Committed(p, k) ==
    CASE p = "base" -> 0
      [] p \in {"final_check", "final_review", "completed"} -> 4
      [] p = "receipt" -> IF k = 1 THEN 2 ELSE 4
      [] OTHER -> k + 1

Asked == [reviewed |-> 2, verdict |-> "NEEDS_FIXES"]
Passed == [reviewed |-> 3, verdict |-> "PASS"]

\* One run past the workspace; nothing is there before it and no one else works.
Owners ==
    /\ \A r \in Runs: Working(r) => owner = r
    /\ \A r \in Runs: r # owner => round[r] = 0
    /\ \A i \in 1..Len(ledger): ledger[i].run = owner
    /\ \A i \in 1..Len(commits): commits[i].run = owner
    /\ owner = NoRun => ledger = <<>> /\ commits = <<>> /\ receipt = NoReceipt
    /\ \A r \in Runs: Running(r) => limit >= 0
    /\ owner # NoRun => limit >= 0

\* Where the working run stands.
Course ==
    \A r \in Runs: Working(r) =>
        /\ Place(pc[r], round[r], Len(ledger))
        /\ Len(commits) = Committed(pc[r], round[r])
        /\ pc[r] # "base" => rev[r] = Len(commits)
        /\ pc[r] = "receipt" => Last(ledger).state = IF round[r] = 1 THEN "budget_exhausted" ELSE "completed"
        /\ receipt = NoReceipt

\* The ledger as far as it goes.
Chain ==
    /\ Len(ledger) <= 14
    /\ \A i \in 1..Len(ledger):
           /\ ledger[i].state = Completed[i] \/ (i = 7 /\ Len(ledger) = 7 /\ ledger[i].state = "budget_exhausted")
           /\ ledger[i].sequence = i
           /\ ledger[i].previous = IF i = 1 THEN "none" ELSE ledger[i - 1].state

\* What a process remembers of the ledger is what stands there, if it is the one
\* at work, and nothing before it gets so far.
Memories ==
    /\ \A r \in Runs: pc[r] \in {"idle", "make", "workspace"} => memory[r] = NoMemory
    /\ \A r \in Runs: Working(r) =>
        /\ memory[r].sequence = Len(ledger)
        /\ memory[r].state = IF Len(ledger) = 0 THEN "none" ELSE ledger[Len(ledger)].state

\* What the evidence says by then.
Evidence ==
    /\ Len(ledger) >= 5 => checks[1] = "failed"
    /\ Len(ledger) >= 9 => checks[2] = "passed"
    /\ Len(ledger) >= 13 => checks[3] = "passed"
    /\ Len(ledger) < 6 => verdicts[1] = NoVerdict
    /\ Len(ledger) < 10 => verdicts[2] = NoVerdict
    /\ Len(ledger) >= 7 => verdicts[1] = Asked /\ decided = 2
    /\ Len(ledger) >= 7 => IF ledger[7].state = "budget_exhausted" THEN limit = 0 ELSE limit >= 1
    /\ Len(ledger) >= 11 => verdicts[2] = Passed

\* ... and what the working run has added since.
Fresh ==
    \A r \in Runs: Working(r) =>
        /\ pc[r] = "mechanical_check" => checks[round[r]] = IF round[r] = 1 THEN "failed" ELSE "passed"
        /\ pc[r] \in {"final_review", "completed"} => checks[3] = "passed"
        /\ pc[r] = "review" => verdicts[round[r]] = NoVerdict
        /\ pc[r] \in {"dispose", "needs_fixes", "budget_exhausted"} => verdicts[1] = Asked
        /\ pc[r] \in {"needs_fixes", "budget_exhausted"} => decided = 2
        /\ pc[r] = "needs_fixes" \/ (pc[r] = "building" /\ round[r] = 1) => limit >= 1
        /\ pc[r] = "budget_exhausted" => limit = 0
        /\ pc[r] = "accepted_unit" => verdicts[2] = Passed

\* The two receipts there are.
Closing ==
    /\ Closed =>
        \/ /\ receipt = [status |-> "completed", tail |-> 14, result |-> 3, integration |-> 4, rounds |-> 1]
           /\ Len(ledger) = 14 /\ ledger[14].state = "completed" /\ Len(commits) = 4
        \/ /\ receipt = [status |-> "budget_exhausted", tail |-> 7, result |-> 2, integration |-> 0, rounds |-> 0]
           /\ Len(ledger) = 7 /\ ledger[7].state = "budget_exhausted"
    /\ \A r \in Runs: exit[r] \in {0, 3} =>
        /\ r = owner
        /\ Closed /\ receipt.status = IF exit[r] = 0 THEN "completed" ELSE "budget_exhausted"

IInv == TypeOK /\ Owners /\ Course /\ Chain /\ Memories /\ Evidence /\ Fresh /\ Closing
-----------------------------------------------------------------------------

\* The states of the lifecycle and what follows each.
LEMMA Lifecycle ==
    /\ States = {"draft", "authorized", "assigned", "building", "mechanical_check", "critic_review", "needs_fixes",
                 "accepted_unit", "integrating", "final_review", "completed", "budget_exhausted"}
    /\ Follow["draft"] = "authorized" /\ Follow["authorized"] = "assigned" /\ Follow["assigned"] = "building"
    /\ Follow["building"] = "write" /\ Follow["mechanical_check"] = "critic_review"
    /\ Follow["critic_review"] = "review" /\ Follow["needs_fixes"] = "building"
    /\ Follow["accepted_unit"] = "integrating" /\ Follow["integrating"] = "integrate"
    /\ Follow["final_review"] = "completed" /\ Follow["completed"] = "receipt"
    /\ Follow["budget_exhausted"] = "receipt"
  BY DEF States, Follow

\* A ledger state is followed by a point of the run that owns the output.
LEMMA FollowTypes == \A s \in States: Follow[s] \in Points /\ Follow[s] \notin Waiting
  BY Lifecycle DEF Points, Waiting

\* What the records of the output and the workspace may hold.
LEMMA Members ==
    /\ \A r \in Runs, q \in Nat, p \in States \cup {"none"}, s \in States, n \in Nat:
           [run |-> r, sequence |-> q, previous |-> p, state |-> s, artifact |-> n] \in EventType
    /\ \A q \in Nat, s \in States \cup {"none"}: [sequence |-> q, state |-> s] \in MemoryType
    /\ \A n \in Nat, v \in {"NEEDS_FIXES", "PASS"}: [reviewed |-> n, verdict |-> v] \in VerdictType
    /\ \A s \in Stops, t \in Nat, n \in Nat, k \in Nat, c \in 0..1:
           [status |-> s, tail |-> t, result |-> n, integration |-> k, rounds |-> c] \in ReceiptType
    /\ \A e \in EventType: e.state \in States
  BY DEF EventType, MemoryType, VerdictType, ReceiptType

\* A check ends in the next point or in an exit with 2.
LEMMA CheckEnds ==
    ASSUME NEW r \in Runs, NEW k \in 1..3, NEW next, RunCheck(r, k, next)
    PROVE  \/ /\ checks' = [checks EXCEPT ![k] = IF k = 1 THEN "failed" ELSE "passed"]
              /\ Goto(r, next) /\ UNCHANGED exit
           \/ /\ \E value \in {"passed", "failed"}: checks' = [checks EXCEPT ![k] = value]
              /\ Exit(r, 2)
<1>1. PICK passed \in {p \in BOOLEAN: p => tree \in {"repaired", "other"}}:
        /\ checks' = [checks EXCEPT ![k] = IF passed THEN "passed" ELSE "failed"]
        /\ \/ Expected(k, passed) /\ Goto(r, next) /\ UNCHANGED exit
           \/ ~Expected(k, passed) /\ Exit(r, 2)
  BY DEF RunCheck
<1>2. CASE passed
  <2>1. checks' = [checks EXCEPT ![k] = "passed"]
    BY <1>1, <1>2
  <2>2. Expected(k, passed) <=> k # 1
    BY <1>2 DEF Expected
  <2> QED
    BY <1>1, <2>1, <2>2
<1>3. CASE ~passed
  <2>1. checks' = [checks EXCEPT ![k] = "failed"]
    BY <1>1, <1>3
  <2>2. Expected(k, passed) <=> k = 1
    BY <1>3 DEF Expected
  <2> QED
    BY <1>1, <2>1, <2>2
<1> QED
  BY <1>2, <1>3

\* The parts of TypeOK.
ProcessTypes ==
    /\ pc \in [Runs -> Points] /\ round \in [Runs -> 0..2] /\ rev \in [Runs -> Nat]
    /\ exit \in [Runs -> {-1, 0, 2, 3}]
OutputTypes ==
    /\ dir \in {"absent", "empty", "used"} /\ owner \in Runs \cup {NoRun}
    /\ checks \in [1..3 -> {"none", "passed", "failed"}]
    /\ verdicts \in [1..2 -> VerdictType \cup {NoVerdict}] /\ decided \in Nat
    /\ receipt \in ReceiptType \cup {NoReceipt}
LedgerTypes == ledger \in Seq(EventType) /\ memory \in [Runs -> MemoryType]
WorkspaceTypes == commits \in Seq([run: Runs, score: Contents]) /\ tree \in Contents
WorldTypes == limit \in Int /\ outside \in Nat

\* The type invariant, part by part.
LEMMA TypeParts == TypeOK <=> ProcessTypes /\ OutputTypes /\ LedgerTypes /\ WorkspaceTypes /\ WorldTypes
  BY DEF TypeOK, ProcessTypes, OutputTypes, LedgerTypes, WorkspaceTypes, WorldTypes

\* commit() adds one revision, and the run holds it.
LEMMA CommitTypes ==
    ASSUME ProcessTypes, WorkspaceTypes, NEW r \in Runs, CommitAs(r)
    PROVE  /\ commits' \in Seq([run: Runs, score: Contents]) /\ rev' \in [Runs -> Nat]
           /\ Len(commits') = Len(commits) + 1 /\ rev'[r] = Len(commits')
           /\ \A i \in 1..Len(commits): commits'[i] = commits[i]
           /\ commits'[Len(commits')].run = r
<1> DEFINE c == [run |-> r, score |-> tree]
<1>1. c \in [run: Runs, score: Contents]
  BY DEF WorkspaceTypes
<1>2. commits' = Append(commits, c) /\ rev' = [rev EXCEPT ![r] = Len(commits) + 1]
  BY DEF CommitAs
<1> QED
  BY <1>1, <1>2, AppendProperties DEF WorkspaceTypes, ProcessTypes

\* StateLedger.append() adds one event, numbered and linked from memory, and
\* remembers it.
LEMMA LogTypes ==
    ASSUME ProcessTypes, LedgerTypes, NEW r \in Runs, Log(r)
    PROVE  /\ ledger' \in Seq(EventType) /\ Len(ledger') = Len(ledger) + 1
           /\ memory' \in [Runs -> MemoryType]
           /\ \A i \in 1..Len(ledger): ledger'[i] = ledger[i]
           /\ ledger'[Len(ledger')].run = r /\ ledger'[Len(ledger')].state = pc[r]
           /\ ledger'[Len(ledger')].sequence = memory[r].sequence + 1
           /\ ledger'[Len(ledger')].previous = memory[r].state
           /\ memory'[r] = [sequence |-> memory[r].sequence + 1, state |-> pc[r]]
           /\ \A q \in Runs: q # r => memory'[q] = memory[q]
           /\ pc[r] \in States
<1> DEFINE sequence == memory[r].sequence + 1
           previous == memory[r].state
           e == [run |-> r, sequence |-> sequence, previous |-> previous, state |-> pc[r], artifact |-> rev[r]]
           m == [sequence |-> sequence, state |-> pc[r]]
<1>1. pc[r] \in States /\ rev[r] \in Nat
  BY DEF Log, ProcessTypes
<1>2. /\ previous \in States \cup {"none"} /\ sequence \in Nat
      /\ memory[r] = [sequence |-> memory[r].sequence, state |-> memory[r].state]
  BY DEF LedgerTypes, MemoryType
<1>3. e \in EventType /\ m \in MemoryType
  BY <1>1, <1>2, Members
<1>4. ledger' = Append(ledger, e) /\ memory' = [memory EXCEPT ![r] = [sequence |-> e.sequence, state |-> e.state]]
  BY DEF Log, StateLedger_append, Remember
<1>5. e.run = r /\ e.state = pc[r] /\ e.previous = previous /\ e.sequence = sequence
  OBVIOUS
<1>6. memory' = [memory EXCEPT ![r] = m]
  BY <1>4, <1>5
<1> HIDE DEF e, m
<1>7. memory' \in [Runs -> MemoryType] /\ memory'[r] = m /\ \A q \in Runs: q # r => memory'[q] = memory[q]
  BY <1>3, <1>6 DEF LedgerTypes
<1>8. m = [sequence |-> sequence, state |-> pc[r]]
  BY DEF m
<1> HIDE DEF previous, sequence
<1>9. /\ ledger' \in Seq(EventType) /\ Len(ledger') = Len(ledger) + 1 /\ ledger'[Len(ledger')] = e
      /\ \A i \in 1..Len(ledger): ledger'[i] = ledger[i]
  BY <1>3, <1>4, AppendProperties DEF LedgerTypes
<1> QED
  BY <1>1, <1>5, <1>7, <1>8, <1>9 DEF previous, sequence

\* The receipt is written from memory, and says what the ledger says.
LEMMA Receipted ==
    ASSUME Course, Memories, LedgerTypes, NEW r \in Runs, Receipt(r)
    PROVE  LET stop == Last(ledger).state
           IN  /\ receipt' = [status |-> stop, tail |-> Len(ledger),
                              result |-> IF stop = "completed" THEN rev[r] - 1 ELSE rev[r],
                              integration |-> IF stop = "completed" THEN rev[r] ELSE 0,
                              rounds |-> repair_rounds_used(r, stop)]
               /\ Exit(r, ExitCode(stop))
<1>0. pc[r] = "receipt" /\ Working(r)
  BY DEF Receipt, Working, Waiting
<1>1. Len(ledger) = 7 \/ Len(ledger) = 14
  BY <1>0 DEF Course, Place
<1>2. /\ memory[r].sequence = Len(ledger)
      /\ memory[r].state = IF Len(ledger) = 0 THEN "none" ELSE ledger[Len(ledger)].state
  BY <1>0 DEF Memories
<1>3. \A n: n = 7 \/ n = 14 => n # 0
  OBVIOUS
<1>4. memory[r].state = Last(ledger).state
  BY <1>1, <1>2, <1>3 DEF Last
<1> QED
  BY <1>2, <1>4 DEF Receipt

\* Every step keeps the types.
LEMMA TypeStep == TypeOK /\ Course /\ Memories /\ [Next]_vars => TypeOK'
<1> SUFFICES ASSUME ProcessTypes, OutputTypes, LedgerTypes, WorkspaceTypes, WorldTypes, Course, Memories, [Next]_vars
             PROVE  ProcessTypes' /\ OutputTypes' /\ LedgerTypes' /\ WorkspaceTypes' /\ WorldTypes'
  BY TypeParts, PTL
<1> USE DEF vars, process, evidence, output, workspace, world, Goto, Exit
<1>1. ASSUME NEW r \in Runs, Start(r) \/ Raise(r) \/ Die(r)
      PROVE  ProcessTypes' /\ OutputTypes' /\ LedgerTypes' /\ WorkspaceTypes' /\ WorldTypes'
  BY <1>1 DEF Start, Raise, Die, ProcessTypes, OutputTypes, LedgerTypes, WorkspaceTypes, WorldTypes, Points
<1>2. ASSUME NEW r \in Runs, MakeOutput(r) \/ MakeWorkspace(r)
      PROVE  ProcessTypes' /\ OutputTypes' /\ LedgerTypes' /\ WorkspaceTypes' /\ WorldTypes'
  BY <1>2 DEF MakeOutput, MakeWorkspace, ProcessTypes, OutputTypes, LedgerTypes, WorkspaceTypes, WorldTypes, Points
<1>3. ASSUME NEW r \in Runs, Contract(r) \/ Commit(r) \/ Integrate(r)
      PROVE  ProcessTypes' /\ OutputTypes' /\ LedgerTypes' /\ WorkspaceTypes' /\ WorldTypes'
  <2>1. CommitAs(r)
    BY <1>3 DEF Contract, Commit, Integrate
  <2>2. pc[r] = "commit" => round[r] # 2
    BY DEF Course, Working, Waiting, Place
  <2>3. WorkspaceTypes' /\ rev' \in [Runs -> Nat]
    BY <1>3, <2>1, CommitTypes DEF Contract, Commit, Integrate, WorkspaceTypes
  <2>4. pc' \in [Runs -> Points] /\ round' \in [Runs -> 0..2] /\ exit' \in [Runs -> {-1, 0, 2, 3}]
    BY <1>3, <2>2, Lifecycle DEF Contract, Commit, Integrate, ProcessTypes, Points
  <2> QED
    BY <1>3, <2>3, <2>4 DEF Contract, Commit, Integrate, ProcessTypes, OutputTypes, LedgerTypes, WorldTypes
<1>4. ASSUME NEW r \in Runs, Log(r)
      PROVE  ProcessTypes' /\ OutputTypes' /\ LedgerTypes' /\ WorkspaceTypes' /\ WorldTypes'
  BY <1>4, LogTypes, FollowTypes DEF Log, ProcessTypes, OutputTypes, LedgerTypes, WorkspaceTypes, WorldTypes
<1>5. ASSUME NEW r \in Runs, Check(r) \/ FinalCheck(r)
      PROVE  ProcessTypes' /\ OutputTypes' /\ LedgerTypes' /\ WorkspaceTypes' /\ WorldTypes'
  <2>1. pc[r] = "check" => round[r] \in 1..2
    BY DEF Course, Working, Waiting, Place
  <2>2. PICK k \in 1..3, next \in {"mechanical_check", "final_review"}: RunCheck(r, k, next)
    BY <1>5, <2>1 DEF Check, FinalCheck
  <2>3. UNCHANGED <<round, rev, memory, dir, owner, ledger, verdicts, decided, receipt, workspace, world>>
    BY <1>5 DEF Check, FinalCheck
  <2>4. checks' \in [1..3 -> {"none", "passed", "failed"}]
    BY <2>2, CheckEnds DEF OutputTypes
  <2>5. pc' \in [Runs -> Points] /\ exit' \in [Runs -> {-1, 0, 2, 3}]
    BY <2>2, CheckEnds, Lifecycle DEF ProcessTypes, Points
  <2> QED
    BY <2>3, <2>4, <2>5 DEF ProcessTypes, OutputTypes, LedgerTypes, WorkspaceTypes, WorldTypes
<1>6. ASSUME NEW r \in Runs, Review(r)
      PROVE  ProcessTypes' /\ OutputTypes' /\ LedgerTypes' /\ WorkspaceTypes' /\ WorldTypes'
  <2>1. [reviewed |-> rev[r], verdict |-> IF round[r] = 1 THEN "NEEDS_FIXES" ELSE "PASS"] \in VerdictType
    BY Members DEF ProcessTypes
  <2> QED
    BY <1>6, <2>1, Lifecycle DEF Review, ProcessTypes, OutputTypes, LedgerTypes, WorkspaceTypes, WorldTypes, Points
<1>7. ASSUME NEW r \in Runs, Write(r) \/ Dispose(r)
      PROVE  ProcessTypes' /\ OutputTypes' /\ LedgerTypes' /\ WorkspaceTypes' /\ WorldTypes'
  <2>1. tree' \in Contents /\ decided' \in Nat /\ pc' \in [Runs -> Points]
    <3>1. CASE Write(r)
      BY <3>1 DEF Write, Contents, ProcessTypes, OutputTypes, Points
    <3>2. CASE Dispose(r)
      BY <3>2, Lifecycle DEF Dispose, ProcessTypes, WorkspaceTypes, Points
    <3> QED
      BY <1>7, <3>1, <3>2
  <2> QED
    BY <1>7, <2>1 DEF Write, Dispose, ProcessTypes, OutputTypes, LedgerTypes, WorkspaceTypes, WorldTypes
<1>8. ASSUME NEW r \in Runs, Receipt(r)
      PROVE  ProcessTypes' /\ OutputTypes' /\ LedgerTypes' /\ WorkspaceTypes' /\ WorldTypes'
  <2> DEFINE stop == Last(ledger).state
  <2>1. pc[r] = "receipt" /\ stop \in Stops /\ Len(ledger) \in Nat /\ rev[r] - 1 \in Nat
    <3>1. pc[r] = "receipt"
      BY <1>8 DEF Receipt
    <3>2. stop \in Stops /\ Len(ledger) \in Nat
      BY <3>1 DEF Course, Working, Waiting, Stops, LedgerTypes
    <3>3. Len(commits) = IF round[r] = 1 THEN 2 ELSE 4
      BY <3>1 DEF Course, Working, Waiting, Committed
    <3>4. rev[r] = Len(commits)
      BY <3>1 DEF Course, Working, Waiting
    <3> QED
      BY <3>1, <3>2, <3>3, <3>4
  <2>2. receipt' \in ReceiptType
    <3> DEFINE result == IF stop = "completed" THEN rev[r] - 1 ELSE rev[r]
               integration == IF stop = "completed" THEN rev[r] ELSE 0
               rounds == IF stop = "completed" THEN 1 ELSE 0
    <3>1. result \in Nat /\ integration \in Nat /\ rounds \in 0..1
      BY <2>1 DEF ProcessTypes
    <3>2. receipt' = [status |-> stop, tail |-> Len(ledger), result |-> result, integration |-> integration, rounds |-> rounds]
      BY <1>8, Receipted DEF repair_rounds_used
    <3> HIDE DEF stop, result, integration, rounds
    <3> QED
      BY <2>1, <3>1, <3>2, Members
  <2>3. exit' \in [Runs -> {-1, 0, 2, 3}] /\ pc' \in [Runs -> Points]
    BY <1>8, Receipted DEF ExitCode, ProcessTypes, Points
  <2> QED
    BY <1>8, <2>2, <2>3 DEF Receipt, ProcessTypes, OutputTypes, LedgerTypes, WorkspaceTypes, WorldTypes
<1>9. CASE Edit \/ UNCHANGED vars
  BY <1>9 DEF Edit, ProcessTypes, OutputTypes, LedgerTypes, WorkspaceTypes, WorldTypes
<1> QED
  BY <1>1, <1>2, <1>3, <1>4, <1>5, <1>6, <1>7, <1>8, <1>9 DEF Next, Proceed
-----------------------------------------------------------------------------

\* Everything but TypeOK and what the processes remember.
Facts == Owners /\ Course /\ Chain /\ Evidence /\ Fresh /\ Closing

\* Only the owner works.
LEMMA Alone ==
    ASSUME Owners, NEW r \in Runs, Working(r)
    PROVE  owner = r /\ \A q \in Runs: Working(q) => q = r
  BY DEF Owners

\* A run that has not begun, or ends without a receipt, disturbs nothing.
LEMMA Waits ==
    ASSUME TypeOK, Facts, NEW r \in Runs, NEW point \in Waiting,
           Goto(r, point), point \in {"make", "workspace"} => limit >= 0,
           exit' = exit \/ exit' = [exit EXCEPT ![r] = 2],
           UNCHANGED <<round, rev, owner, ledger, receipt, commits, limit>>
    PROVE  Owners' /\ Course' /\ Chain' /\ Closing'
<1> USE DEF Facts, Goto
<1>1. pc' \in [Runs -> Points] /\ pc'[r] = point /\ \A q \in Runs: q # r => pc'[q] = pc[q]
  BY DEF TypeOK, Points, Waiting
<1>2. \A q \in Runs: Working(q)' => Working(q) /\ q # r
  BY <1>1 DEF Working
<1>3. Owners'
  BY <1>1, <1>2 DEF Owners, Running, Waiting
<1>4. Course'
  BY <1>1, <1>2 DEF Course
<1>5. Chain'
  BY DEF Chain
<1>6. Closing'
  BY DEF Closing, Closed, TypeOK
<1> QED
  BY <1>3, <1>4, <1>5, <1>6

\* A run that owns nothing yet, or leaves, disturbs nobody's output.
LEMMA WaitStep ==
    ASSUME TypeOK, Facts, NEW r \in Runs,
           Start(r) \/ MakeOutput(r) \/ (MakeWorkspace(r) /\ Owned) \/ Raise(r) \/ Die(r)
    PROVE  Facts'
<1> USE DEF Goto, Exit, output, workspace, world, evidence, process
<1>1. PICK point \in Waiting: Goto(r, point) /\ (point \in {"make", "workspace"} => limit >= 0)
  BY DEF Start, MakeOutput, MakeWorkspace, Raise, Die, Waiting, Facts, Owners, Running
<1>2. UNCHANGED <<round, rev, owner, ledger, receipt, commits, limit, checks, verdicts, decided>>
  BY DEF Start, MakeOutput, MakeWorkspace, Raise, Die
<1>3. exit' = exit \/ exit' = [exit EXCEPT ![r] = 2]
  BY DEF Start, MakeOutput, MakeWorkspace, Raise, Die
<1>4. Owners' /\ Course' /\ Chain' /\ Closing'
  BY <1>1, <1>2, <1>3, Waits
<1>5. Evidence'
  BY <1>2 DEF Facts, Evidence
<1>6. Fresh'
  <2>1. \A q \in Runs: Working(q)' => Working(q) /\ pc'[q] = pc[q]
    BY <1>1 DEF Working, TypeOK
  <2> QED
    BY <1>2, <2>1 DEF Facts, Fresh
<1> QED
  BY <1>4, <1>5, <1>6 DEF Facts

\* An edit of the workspace changes nothing the facts speak of.
LEMMA QuietStep == TypeOK /\ Facts /\ (Edit \/ UNCHANGED vars) => Facts'
<1> SUFFICES ASSUME Facts, Edit \/ UNCHANGED vars
             PROVE  Facts'
  OBVIOUS
<1>1. UNCHANGED <<limit, pc, round, rev, exit, owner, ledger, checks, verdicts, decided, receipt, commits>>
  BY DEF Edit, vars, process, output, workspace, world, evidence
<1> QED
  BY <1>1 DEF Facts, Owners, Working, Running, Course, Chain, Evidence, Fresh, Closing, Closed

\* The run whose mkdir() succeeds owns the output, and finds it empty.
LEMMA WorkspaceStep ==
    ASSUME TypeOK, Facts, NEW r \in Runs, MakeWorkspace(r), ~Owned
    PROVE  Facts'
<1> USE DEF Facts
<1>1. /\ owner = NoRun /\ owner' = r /\ pc[r] = "workspace" /\ pc' = [pc EXCEPT ![r] = "base"]
      /\ UNCHANGED <<limit, round, rev, exit, ledger, checks, verdicts, decided, receipt, commits>>
  BY DEF MakeWorkspace, Owned, Goto, output, workspace, world, evidence
<1>2. pc' \in [Runs -> Points] /\ pc'[r] = "base" /\ \A q \in Runs: q # r => pc'[q] = pc[q]
  BY <1>1 DEF TypeOK, Points
<1>3. \A q \in Runs: round[q] = 0 /\ q # NoRun /\ ~Working(q)
  BY <1>1, RunsAssumption DEF Owners
<1>4. ledger = <<>> /\ commits = <<>> /\ receipt = NoReceipt /\ Len(ledger) = 0 /\ Len(commits) = 0 /\ limit >= 0
  BY <1>1 DEF Owners, Running
<1>5. Owners'
  BY <1>1, <1>2, <1>3, <1>4 DEF Owners, Running, Working
<1>6. Course' /\ Fresh'
  BY <1>1, <1>2, <1>3, <1>4 DEF Course, Fresh, Working, Waiting, Place, Committed
<1>7. Chain' /\ Evidence'
  BY <1>1, <1>4 DEF Chain, Evidence
<1>8. Closing'
  BY <1>1, <1>3, <1>4 DEF Closing, Closed
<1> QED
  BY <1>5, <1>6, <1>7, <1>8

\* A step that makes a commit.
LEMMA CommitStep ==
    ASSUME TypeOK, Facts, NEW r \in Runs, Contract(r) \/ Commit(r) \/ Integrate(r)
    PROVE  Facts'
<1> USE DEF Facts
<1>1. Working(r) /\ CommitAs(r)
  BY DEF Contract, Commit, Integrate, Working, Waiting
<1>2. owner = r /\ \A q \in Runs: Working(q) => q = r
  BY <1>1, Alone
<1>3. UNCHANGED <<limit, exit, owner, ledger, checks, verdicts, decided, receipt>>
  BY DEF Contract, Commit, Integrate, output, world, evidence
<1>4. /\ Len(commits') = Len(commits) + 1 /\ rev'[r] = Len(commits')
      /\ \A i \in 1..Len(commits): commits'[i] = commits[i]
      /\ commits'[Len(commits')].run = r
  BY <1>1, CommitTypes, TypeParts
<1>5. PICK point \in {"draft", "check", "final_check"}:
          /\ pc' = [pc EXCEPT ![r] = point]
          /\ point = "draft" <=> pc[r] = "base"
          /\ point = "check" <=> pc[r] = "commit"
          /\ point = "final_check" <=> pc[r] = "integrate"
          /\ round' = IF point = "check" THEN [round EXCEPT ![r] = @ + 1] ELSE round
  BY DEF Contract, Commit, Integrate, Goto
<1>6. pc[r] \in {"base", "commit", "integrate"}
  BY <1>5
<1>7. pc' \in [Runs -> Points] /\ pc'[r] = point /\ \A q \in Runs: q # r => pc'[q] = pc[q]
  BY <1>5, Lifecycle DEF TypeOK, Points
<1>8. round'[r] = (IF point = "check" THEN round[r] + 1 ELSE round[r]) /\ \A q \in Runs: q # r => round'[q] = round[q]
  BY <1>5 DEF TypeOK
<1>9. \A q \in Runs: Working(q)' => q = r
  BY <1>2, <1>7 DEF Working
<1>10. Len(commits) \in Nat
  BY DEF TypeOK
<1>11. Owners'
  <2>1. \A q \in Runs: q # owner => round'[q] = 0
    BY <1>2, <1>8 DEF Owners
  <2>2. \A i \in 1..Len(commits'): commits'[i].run = owner
    BY <1>2, <1>4, <1>10 DEF Owners
  <2>3. limit >= 0 /\ owner # NoRun
    BY <1>2, RunsAssumption DEF Owners
  <2> QED
    BY <1>2, <1>3, <1>9, <2>1, <2>2, <2>3 DEF Owners
<1>12. Course'
  <2>1. Place(pc[r], round[r], Len(ledger)) /\ Len(commits) = Committed(pc[r], round[r]) /\ receipt = NoReceipt
    BY <1>1 DEF Course
  <2>2. Place(point, round'[r], Len(ledger))
    BY <1>5, <1>6, <1>8, <2>1 DEF Place
  <2>3. Len(commits') = Committed(point, round'[r])
    BY <1>4, <1>5, <1>6, <1>8, <2>1 DEF Place, Committed
  <2> QED
    BY <1>3, <1>4, <1>5, <1>7, <1>9, <2>1, <2>2, <2>3 DEF Course
<1>13. Chain' /\ Evidence'
  BY <1>3 DEF Chain, Evidence
<1>14. Fresh'
  BY <1>5, <1>7, <1>9 DEF Fresh
<1>15. Closing'
  <2>1. ~Closed
    BY <1>1 DEF Course, Closed
  <2> QED
    BY <1>3, <2>1 DEF Closing, Closed
<1> QED
  BY <1>11, <1>12, <1>13, <1>14, <1>15

\* A step that only moves the working run and writes evidence.
LEMMA Works ==
    ASSUME TypeOK, Facts, NEW r \in Runs, Working(r), NEW point \in Points \ Waiting, Goto(r, point),
           Place(point, round[r], Len(ledger)), Committed(pc[r], round[r]) = Committed(point, round[r]),
           pc[r] # "base", point # "receipt",
           UNCHANGED <<limit, exit, round, rev, owner, ledger, receipt, commits>>
    PROVE  /\ Owners' /\ Course' /\ Chain' /\ Closing'
           /\ pc'[r] = point /\ \A q \in Runs: Working(q)' => q = r
<1> USE DEF Facts, Goto
<1>1. pc' \in [Runs -> Points] /\ pc'[r] = point /\ \A q \in Runs: q # r => pc'[q] = pc[q]
  BY DEF TypeOK
<1>2. \A q \in Runs: Working(q)' => q = r
  BY <1>1, Alone DEF Working
<1>3. Owners'
  BY <1>1, <1>2, Alone, RunsAssumption DEF Owners
<1>4. Course'
  BY <1>1, <1>2 DEF Course
<1>5. Chain' /\ Closing'
  BY DEF Chain, Closing, Closed, Course
<1> QED
  BY <1>1, <1>2, <1>3, <1>4, <1>5

\* Writing the score leaves the revisions as they are.
LEMMA WriteStep == ASSUME TypeOK, Facts, NEW r \in Runs, Write(r) PROVE Facts'
<1> USE DEF Facts
<1>1. Working(r) /\ pc[r] = "write" /\ Goto(r, "commit")
  BY DEF Write, Working, Waiting
<1>2. UNCHANGED <<limit, exit, round, rev, owner, ledger, receipt, commits, checks, verdicts, decided>>
  BY DEF Write, output, world, evidence
<1>3. "commit" \in Points \ Waiting /\ Committed(pc[r], round[r]) = Committed("commit", round[r])
  BY <1>1 DEF Points, Waiting, Committed
<1>4. Place("commit", round[r], Len(ledger))
  BY <1>1 DEF Course, Place
<1>5. Owners' /\ Course' /\ Chain' /\ Closing' /\ pc'[r] = "commit" /\ \A q \in Runs: Working(q)' => q = r
  BY <1>1, <1>2, <1>3, <1>4, Works
<1>6. Evidence' /\ Fresh'
  BY <1>2, <1>5 DEF Evidence, Fresh
<1> QED
  BY <1>5, <1>6

\* The three checks.
LEMMA CheckStep ==
    ASSUME TypeOK, Facts, NEW r \in Runs, Check(r) \/ FinalCheck(r)
    PROVE  Facts'
<1> USE DEF Facts
<1>1. Working(r)
  BY DEF Check, FinalCheck, Working, Waiting
<1>2. UNCHANGED <<limit, round, rev, owner, ledger, receipt, commits, verdicts, decided>>
  BY DEF Check, FinalCheck, workspace, world
<1>3. PICK k \in 1..3, next \in {"mechanical_check", "final_review"}:
          /\ RunCheck(r, k, next)
          /\ IF pc[r] = "check" THEN k = round[r] /\ next = "mechanical_check"
             ELSE pc[r] = "final_check" /\ k = 3 /\ next = "final_review"
  <2>1. CASE Check(r)
    <3>1. round[r] \in 1..3 /\ pc[r] = "check" /\ RunCheck(r, round[r], "mechanical_check")
      BY <1>1, <2>1 DEF Check, Course, Place
    <3> QED
      BY <3>1
  <2>2. CASE FinalCheck(r)
    BY <2>2 DEF FinalCheck
  <2> QED
    BY <2>1, <2>2
<1>4. Place(pc[r], round[r], Len(ledger))
  BY <1>1 DEF Course
<1>5. (k = 1 /\ Len(ledger) = 4) \/ (k = 2 /\ Len(ledger) = 8) \/ (k = 3 /\ Len(ledger) = 12)
  BY <1>3, <1>4 DEF Place
<1>6. \E value \in {"passed", "failed"}: checks' = [checks EXCEPT ![k] = value]
  BY <1>3, CheckEnds
<1>7. Evidence'
  <2>1. /\ k # 1 => checks'[1] = checks[1]
        /\ k # 2 => checks'[2] = checks[2]
        /\ k # 3 => checks'[3] = checks[3]
    BY <1>6 DEF TypeOK
  <2>2. CASE k = 1 /\ Len(ledger) = 4
    BY <1>2, <2>1, <2>2 DEF Evidence
  <2>3. CASE k = 2 /\ Len(ledger) = 8
    BY <1>2, <2>1, <2>3 DEF Evidence
  <2>4. CASE k = 3 /\ Len(ledger) = 12
    BY <1>2, <2>1, <2>4 DEF Evidence
  <2> QED
    BY <1>5, <2>2, <2>3, <2>4
<1>8. CASE Exit(r, 2)
  <2>1. Goto(r, "exited") /\ exit' = [exit EXCEPT ![r] = 2] /\ "exited" \in Waiting
    BY <1>8 DEF Exit, Goto, Waiting
  <2>2. Owners' /\ Course' /\ Chain' /\ Closing'
    BY <1>2, <2>1, Waits
  <2>3. \A q \in Runs: ~Working(q)'
    BY <1>1, <2>1, Alone DEF Working, Goto, TypeOK
  <2>4. Fresh'
    BY <2>3 DEF Fresh
  <2> QED
    BY <1>7, <2>2, <2>4
<1>9. CASE /\ checks' = [checks EXCEPT ![k] = IF k = 1 THEN "failed" ELSE "passed"]
           /\ Goto(r, next) /\ UNCHANGED exit
  <2>1. Place(next, round[r], Len(ledger)) /\ Committed(pc[r], round[r]) = Committed(next, round[r])
    BY <1>3, <1>4 DEF Place, Committed
  <2>2. next \in Points \ Waiting /\ pc[r] # "base" /\ next # "receipt"
    BY <1>3, Lifecycle DEF Points, Waiting
  <2>3. Owners' /\ Course' /\ Chain' /\ Closing' /\ pc'[r] = next /\ \A q \in Runs: Working(q)' => q = r
    BY <1>1, <1>2, <1>9, <2>1, <2>2, Works
  <2>4. checks'[k] = IF k = 1 THEN "failed" ELSE "passed"
    BY <1>9 DEF TypeOK
  <2>5. Fresh'
    BY <1>2, <1>3, <2>3, <2>4 DEF Fresh
  <2> QED
    BY <1>7, <2>3, <2>5
<1> QED
  BY <1>3, <1>8, <1>9, CheckEnds

\* A review files the verdict of its round.
LEMMA ReviewStep == ASSUME TypeOK, Facts, NEW r \in Runs, Review(r) PROVE Facts'
<1> USE DEF Facts
<1> DEFINE point == IF round[r] = 1 THEN "dispose" ELSE "accepted_unit"
<1>1. Working(r) /\ pc[r] = "review" /\ Goto(r, point)
  BY DEF Review, Working, Waiting
<1>2. UNCHANGED <<limit, exit, round, rev, owner, ledger, receipt, commits, checks, decided>>
  BY DEF Review, workspace, world
<1>3. (round[r] = 1 /\ Len(ledger) = 6) \/ (round[r] = 2 /\ Len(ledger) = 10)
  BY <1>1 DEF Course, Place
<1>4. /\ point \in Points \ Waiting /\ pc[r] # "base" /\ point # "receipt"
      /\ Committed(pc[r], round[r]) = Committed(point, round[r]) /\ Place(point, round[r], Len(ledger))
  BY <1>1, <1>3, Lifecycle DEF Points, Waiting, Committed, Place
<1>5. Owners' /\ Course' /\ Chain' /\ Closing' /\ pc'[r] = point /\ \A q \in Runs: Working(q)' => q = r
  BY <1>1, <1>2, <1>4, Works
<1>6. rev[r] = round[r] + 1
  BY <1>1, <1>3 DEF Course, Committed
<1>7. verdicts' = [verdicts EXCEPT ![round[r]] = IF round[r] = 1 THEN Asked ELSE Passed]
  <2>1. CASE round[r] = 1
    BY <1>6, <2>1 DEF Review, Asked
  <2>2. CASE round[r] = 2
    BY <1>6, <2>2 DEF Review, Passed
  <2> QED
    BY <1>3, <2>1, <2>2
<1>8. Evidence'
  <2>1. /\ round[r] = 2 => verdicts'[1] = verdicts[1]
        /\ round[r] = 1 => verdicts'[2] = verdicts[2]
    BY <1>3, <1>7 DEF TypeOK
  <2>2. CASE round[r] = 1 /\ Len(ledger) = 6
    BY <1>2, <2>1, <2>2 DEF Evidence
  <2>3. CASE round[r] = 2 /\ Len(ledger) = 10
    BY <1>2, <2>1, <2>3 DEF Evidence
  <2> QED
    BY <1>3, <2>2, <2>3
<1>9. Fresh'
  BY <1>2, <1>3, <1>5, <1>7 DEF Fresh, TypeOK
<1> QED
  BY <1>5, <1>8, <1>9

\* The disposition decides about the revision that was reviewed.
LEMMA DisposeStep == ASSUME TypeOK, Facts, NEW r \in Runs, Dispose(r) PROVE Facts'
<1> USE DEF Facts
<1> DEFINE point == IF limit = 0 THEN "budget_exhausted" ELSE "needs_fixes"
<1>1. Working(r) /\ pc[r] = "dispose" /\ Goto(r, point) /\ decided' = rev[r]
  BY DEF Dispose, Spent, Working, Waiting
<1>2. UNCHANGED <<limit, exit, round, rev, owner, ledger, receipt, commits, checks, verdicts>>
  BY DEF Dispose, workspace, world
<1>3. round[r] = 1 /\ Len(ledger) = 6
  BY <1>1 DEF Course, Place
<1>4. /\ point \in Points \ Waiting /\ pc[r] # "base" /\ point # "receipt"
      /\ Committed(pc[r], round[r]) = Committed(point, round[r]) /\ Place(point, round[r], Len(ledger))
  BY <1>1, <1>3, Lifecycle DEF Points, Waiting, Committed, Place
<1>5. Owners' /\ Course' /\ Chain' /\ Closing' /\ pc'[r] = point /\ \A q \in Runs: Working(q)' => q = r
  BY <1>1, <1>2, <1>4, Works
<1>6. rev[r] = 2 /\ limit \in Int /\ limit >= 0
  <2>1. rev[r] = 2
    BY <1>1, <1>3 DEF Course, Committed
  <2>2. owner = r
    BY <1>1, Alone
  <2>3. limit \in Int /\ limit >= 0
    BY <2>2, RunsAssumption DEF Owners, TypeOK
  <2> QED
    BY <2>1, <2>3
<1>7. Evidence'
  BY <1>2, <1>3 DEF Evidence
<1>8. Fresh'
  BY <1>1, <1>2, <1>5, <1>6 DEF Fresh
<1> QED
  BY <1>5, <1>7, <1>8

\* The states of a completed run, one by one.
LEMMA CompletedStates ==
    /\ Completed[1] = "draft" /\ Completed[2] = "authorized" /\ Completed[3] = "assigned" /\ Completed[4] = "building"
    /\ Completed[5] = "mechanical_check" /\ Completed[6] = "critic_review" /\ Completed[7] = "needs_fixes"
    /\ Completed[8] = "building" /\ Completed[9] = "mechanical_check" /\ Completed[10] = "critic_review"
    /\ Completed[11] = "accepted_unit" /\ Completed[12] = "integrating" /\ Completed[13] = "final_review"
    /\ Completed[14] = "completed"
  BY DEF Completed

\* A run without a repair round has the same first six states.
LEMMA ExhaustedStates ==
    Len(Exhausted) = 7 /\ Exhausted[7] = "budget_exhausted" /\ \A i \in 1..6: Exhausted[i] = Completed[i]
<1> DEFINE beginning == SubSeq(Completed, 1, 6)
           end == <<"budget_exhausted">>
<1>1. \A i \in 1..6: Completed[i] \in States
  BY CompletedStates, Lifecycle
<1>2. /\ beginning \in Seq(States) /\ Len(beginning) = 6
      /\ \A i \in 1..6: beginning[i] = Completed[i]
  <2>1. 6 - 1 + 1 = 6 /\ \A i \in 1..6: 1 + i - 1 = i
    OBVIOUS
  <2> QED
    BY <1>1, <2>1, SubSeqProperties
<1>3. end \in Seq(States) /\ Len(end) = 1 /\ end[1] = "budget_exhausted"
  BY Lifecycle
<1>4. Exhausted = beginning \o end
  BY DEF Exhausted
<1> HIDE DEF beginning, end
<1>5. /\ Len(Exhausted) = Len(beginning) + Len(end)
      /\ \A i \in 1..(Len(beginning) + Len(end)):
             Exhausted[i] = IF i <= Len(beginning) THEN beginning[i] ELSE end[i - Len(beginning)]
  BY <1>2, <1>3, <1>4, ConcatProperties
<1>6. Len(Exhausted) = 7 /\ \A i \in 1..7: Exhausted[i] = IF i <= 6 THEN beginning[i] ELSE end[i - 6]
  BY <1>2, <1>3, <1>5
<1>7. Exhausted[7] = end[7 - 6] /\ 7 - 6 = 1
  BY <1>6
<1> QED
  BY <1>2, <1>3, <1>6, <1>7

\* Where a run stands before an event, it stands rightly after it.
\* What the length of the ledger says of where the owner stands.
LEMMA Standing ==
    ASSUME NEW s \in States, NEW k \in 0..2, NEW n \in Nat, Place(s, k, n)
    PROVE  /\ n = 4 => s = "mechanical_check" /\ k = 1
           /\ n = 6 => s \in {"needs_fixes", "budget_exhausted"}
           /\ n = 7 => s = "building" /\ k = 1
           /\ n = 8 => s = "mechanical_check" /\ k = 2
           /\ n = 10 => s = "accepted_unit"
           /\ n = 12 => s = "final_review"
           /\ s = "critic_review" => (k = 1 /\ n = 5) \/ (k = 2 /\ n = 9)
  BY Lifecycle DEF Place

\* One event further, the owner stands where the ledger says.
LEMMA NextEvent ==
    ASSUME NEW s \in States, NEW k \in 0..2, NEW n \in Nat, Place(s, k, n)
    PROVE  /\ Place(Follow[s], k, n + 1) /\ Committed(s, k) = Committed(Follow[s], k)
           /\ Follow[s] = "receipt" => s = IF k = 1 THEN "budget_exhausted" ELSE "completed"
           /\ n <= 13 /\ (s = Completed[n + 1] \/ (n = 6 /\ s = "budget_exhausted"))
<1>1. CASE s = "draft"
  BY <1>1, Lifecycle, CompletedStates DEF Place, Committed
<1>2. CASE s = "authorized"
  BY <1>2, Lifecycle, CompletedStates DEF Place, Committed
<1>3. CASE s = "assigned"
  BY <1>3, Lifecycle, CompletedStates DEF Place, Committed
<1>4. CASE s = "building"
  BY <1>4, Lifecycle, CompletedStates DEF Place, Committed
<1>5. CASE s = "mechanical_check"
  BY <1>5, Lifecycle, CompletedStates DEF Place, Committed
<1>6. CASE s = "critic_review"
  BY <1>6, Lifecycle, CompletedStates DEF Place, Committed
<1>7. CASE s = "needs_fixes"
  BY <1>7, Lifecycle, CompletedStates DEF Place, Committed
<1>8. CASE s = "accepted_unit"
  BY <1>8, Lifecycle, CompletedStates DEF Place, Committed
<1>9. CASE s = "integrating"
  BY <1>9, Lifecycle, CompletedStates DEF Place, Committed
<1>10. CASE s = "final_review"
  BY <1>10, Lifecycle, CompletedStates DEF Place, Committed
<1>11. CASE s = "completed"
  BY <1>11, Lifecycle, CompletedStates DEF Place, Committed
<1>12. CASE s = "budget_exhausted"
  BY <1>12, Lifecycle, CompletedStates DEF Place, Committed
<1> QED
  BY Lifecycle, <1>1, <1>2, <1>3, <1>4, <1>5, <1>6, <1>7, <1>8, <1>9, <1>10, <1>11, <1>12

\* An event of the ledger: its state continues the chain.
LEMMA LogStep == ASSUME TypeOK, Facts, Memories, NEW r \in Runs, Log(r) PROVE Facts'
<1> USE DEF Facts
<1> DEFINE n == Len(ledger)
           point == Follow[pc[r]]
<1>1. /\ Len(ledger') = n + 1 /\ \A i \in 1..n: ledger'[i] = ledger[i]
      /\ ledger'[n + 1].run = r /\ ledger'[n + 1].state = pc[r]
      /\ ledger'[n + 1].sequence = n + 1
      /\ ledger'[n + 1].previous = IF n = 0 THEN "none" ELSE ledger[n].state
      /\ pc[r] \in States /\ n \in Nat
  <2>1. Working(r)
    BY Lifecycle DEF Working, Waiting, Log
  <2>2. memory[r].sequence = n /\ memory[r].state = IF n = 0 THEN "none" ELSE ledger[n].state
    BY <2>1 DEF Memories
  <2>3. n \in Nat
    BY DEF TypeOK
  <2> QED
    BY <2>2, <2>3, LogTypes, TypeParts
<1>2. Working(r) /\ pc' = [pc EXCEPT ![r] = point]
  BY <1>1, Lifecycle DEF Working, Waiting, Log, Goto
<1>3. UNCHANGED <<limit, exit, round, rev, owner, receipt, commits, checks, verdicts, decided>>
  BY DEF Log, workspace, world, evidence
<1>4. owner = r /\ \A q \in Runs: Working(q) => q = r
  BY <1>2, Alone
<1>5. pc' \in [Runs -> Points] /\ pc'[r] = point /\ \A q \in Runs: q # r => pc'[q] = pc[q]
  BY <1>1, <1>2, FollowTypes DEF TypeOK
<1>6. \A q \in Runs: Working(q)' => q = r
  BY <1>4, <1>5 DEF Working
<1>7. /\ Place(pc[r], round[r], n) /\ Len(commits) = Committed(pc[r], round[r])
      /\ pc[r] # "base" => rev[r] = Len(commits)
      /\ receipt = NoReceipt
  BY <1>2 DEF Course
<1>14. /\ Place(point, round[r], n + 1) /\ Committed(pc[r], round[r]) = Committed(point, round[r])
       /\ point = "receipt" => pc[r] = IF round[r] = 1 THEN "budget_exhausted" ELSE "completed"
       /\ n <= 13 /\ (pc[r] = Completed[n + 1] \/ (n = 6 /\ pc[r] = "budget_exhausted"))
  <2>1. round[r] \in 0..2
    BY DEF TypeOK
  <2> QED
    BY <1>1, <1>7, <2>1, NextEvent, ZenonT(40)
<1>15. /\ n = 4 => pc[r] = "mechanical_check" /\ round[r] = 1
       /\ n = 6 => pc[r] \in {"needs_fixes", "budget_exhausted"}
       /\ n = 7 => pc[r] = "building" /\ round[r] = 1
       /\ n = 8 => pc[r] = "mechanical_check" /\ round[r] = 2
       /\ n = 10 => pc[r] = "accepted_unit"
       /\ n = 12 => pc[r] = "final_review"
       /\ pc[r] = "critic_review" => (round[r] = 1 /\ n = 5) \/ (round[r] = 2 /\ n = 9)
  <2>1. round[r] \in 0..2
    BY DEF TypeOK
  <2> QED
    BY <1>1, <1>7, <2>1, Standing
<1>16. n \in Nat /\ Len(ledger') = n + 1 /\ ledger'[n + 1].state = pc[r]
  BY <1>1
<1>8. Owners'
  <2>1. \A i \in 1..(n + 1): ledger'[i].run = r
    BY <1>1, <1>4 DEF Owners
  <2>2. limit >= 0 /\ owner # NoRun
    BY <1>4, RunsAssumption DEF Owners
  <2> QED
    BY <1>1, <1>3, <1>4, <1>6, <2>1, <2>2 DEF Owners
<1>9. Course'
  <2>1. pc[r] # "base"
    BY <1>1, Lifecycle
  <2> QED
    BY <1>1, <1>3, <1>5, <1>6, <1>7, <1>14, <2>1 DEF Course, Last
<1>10. Chain'
  <2>2. n = 7 => ledger[7].state # "budget_exhausted"
    BY <1>2, <1>15 DEF Evidence, Fresh
  <2>3. \A i \in 1..n: ledger'[i].state = Completed[i] \/ (i = 7 /\ n + 1 = 7 /\ ledger'[i].state = "budget_exhausted")
    BY <1>1, <2>2 DEF Chain
  <2>4. \A i \in 1..n: /\ ledger'[i].sequence = i
                       /\ ledger'[i].previous = IF i = 1 THEN "none" ELSE ledger'[i - 1].state
    BY <1>1 DEF Chain
  <2>5. ASSUME NEW i \in 1..(n + 1)
        PROVE  /\ ledger'[i].state = Completed[i] \/ (i = 7 /\ n + 1 = 7 /\ ledger'[i].state = "budget_exhausted")
               /\ ledger'[i].sequence = i
               /\ ledger'[i].previous = IF i = 1 THEN "none" ELSE ledger'[i - 1].state
    <3>1. CASE i \in 1..n
      BY <2>3, <2>4, <3>1
    <3>2. CASE i = n + 1
      <4>1. ledger'[i].state = Completed[i] \/ (i = 7 /\ n + 1 = 7 /\ ledger'[i].state = "budget_exhausted")
        <5>1. ledger'[i].state = pc[r]
          BY <1>16, <3>2
        <5>2. pc[r] = Completed[i] \/ (i = 7 /\ n + 1 = 7 /\ pc[r] = "budget_exhausted")
          <6>1. (n = 6 /\ pc[r] = "budget_exhausted") \/ pc[r] = Completed[n + 1]
            BY <1>14
          <6> HIDE DEF n
          <6> QED
            BY <1>16, <3>2, <6>1
        <5> QED
          BY <5>1, <5>2
      <4>2. CASE n = 0
        BY <1>1, <3>2, <4>1, <4>2
      <4>3. CASE n # 0
        <5>1. ledger'[n] = ledger[n] /\ i - 1 = n /\ i # 1
          BY <1>1, <3>2, <4>3
        <5> QED
          BY <1>1, <3>2, <4>1, <4>3, <5>1
      <4> QED
        BY <4>2, <4>3
    <3> QED
      BY <1>1, <3>1, <3>2
  <2> QED
    BY <1>1, <1>14, <2>5 DEF Chain
<1>11. Evidence'
  <2>1. /\ n = 4 => checks[1] = "failed"
        /\ n = 8 => checks[2] = "passed"
        /\ n = 12 => checks[3] = "passed"
        /\ n = 10 => verdicts[2] = Passed
    BY <1>2, <1>15 DEF Fresh
  <2>2. n = 6 => /\ verdicts[1] = Asked /\ decided = 2
                 /\ IF pc[r] = "budget_exhausted" THEN limit = 0 ELSE limit >= 1
    BY <1>2, <1>15 DEF Fresh
  <2>3. n >= 7 => ledger'[7] = ledger[7]
    BY <1>1
  <2> QED
    <3>1. /\ n + 1 >= 5 => checks[1] = "failed"
          /\ n + 1 >= 9 => checks[2] = "passed"
          /\ n + 1 >= 13 => checks[3] = "passed"
          /\ n + 1 < 6 => verdicts[1] = NoVerdict
          /\ n + 1 < 10 => verdicts[2] = NoVerdict
          /\ n + 1 >= 11 => verdicts[2] = Passed
      <4>1. n >= 5 => checks[1] = "failed"
        BY DEF Evidence
      <4>2. n >= 9 => checks[2] = "passed"
        BY DEF Evidence
      <4>3. n >= 13 => checks[3] = "passed"
        BY DEF Evidence
      <4>4. n >= 11 => verdicts[2] = Passed
        BY DEF Evidence
      <4>5. (n + 1 < 6 => verdicts[1] = NoVerdict) /\ (n + 1 < 10 => verdicts[2] = NoVerdict)
        BY <1>16 DEF Evidence
      <4> HIDE DEF n
      <4> QED
        BY <1>16, <2>1, <4>1, <4>2, <4>3, <4>4, <4>5
    <3>2. n + 1 >= 7 => /\ verdicts[1] = Asked /\ decided = 2
                        /\ IF ledger'[7].state = "budget_exhausted" THEN limit = 0 ELSE limit >= 1
      <4>1. CASE n = 6
        BY <1>1, <2>2, <4>1
      <4>2. CASE n >= 7
        BY <2>3, <4>2 DEF Evidence
      <4> HIDE DEF n
      <4> QED
        BY <1>16, <4>1, <4>2
    <3> QED
      BY <1>1, <1>3, <3>1, <3>2 DEF Evidence
<1>12. Fresh'
  <2>1. /\ point \in {"authorized", "assigned", "building", "write", "critic_review", "review", "integrating",
                       "integrate", "completed", "receipt"}
        /\ point = "completed" => pc[r] = "final_review"
        /\ point = "review" => pc[r] = "critic_review"
        /\ point = "building" => pc[r] \in {"assigned", "needs_fixes"}
    BY <1>1, Lifecycle
  <2>2. pc[r] = "assigned" => round[r] = 0
    BY <1>7 DEF Place
  <2>3. pc[r] = "critic_review" => verdicts[round[r]] = NoVerdict
    <3>1. CASE round[r] = 1 /\ n = 5
      BY <3>1 DEF Evidence
    <3>2. CASE round[r] = 2 /\ n = 9
      BY <3>2 DEF Evidence
    <3> QED
      BY <1>15, <3>1, <3>2
  <2> QED
    BY <1>2, <1>3, <1>5, <1>6, <2>1, <2>2, <2>3 DEF Fresh
<1>13. Closing'
  BY <1>3, <1>7 DEF Closing, Closed
<1> QED
  BY <1>8, <1>9, <1>10, <1>11, <1>12, <1>13

\* The receipt.
LEMMA ReceiptStep == ASSUME TypeOK, Facts, Memories, NEW r \in Runs, Receipt(r) PROVE Facts'
<1> USE DEF Facts
<1> DEFINE stop == Last(ledger).state
<1>1. Working(r) /\ pc[r] = "receipt" /\ pc' = [pc EXCEPT ![r] = "exited"] /\ exit' = [exit EXCEPT ![r] = ExitCode(stop)]
  BY Receipted, TypeParts DEF Receipt, Working, Waiting, Exit
<1>2. UNCHANGED <<limit, round, rev, owner, ledger, commits, checks, verdicts, decided>>
  BY DEF Receipt, workspace, world, evidence
<1>3. owner = r /\ \A q \in Runs: Working(q) => q = r
  BY <1>1, Alone
<1>4. pc'[r] = "exited" /\ \A q \in Runs: q # r => pc'[q] = pc[q]
  BY <1>1 DEF TypeOK
<1>5. \A q \in Runs: ~Working(q)'
  BY <1>3, <1>4 DEF Working, Waiting
<1>6. \/ round[r] = 1 /\ Len(ledger) = 7 /\ stop = "budget_exhausted" /\ rev[r] = 2 /\ Len(commits) = 2
      \/ round[r] = 2 /\ Len(ledger) = 14 /\ stop = "completed" /\ rev[r] = 4 /\ Len(commits) = 4
  <2>1. /\ (round[r] = 1 /\ Len(ledger) = 7) \/ (round[r] = 2 /\ Len(ledger) = 14)
        /\ stop = IF round[r] = 1 THEN "budget_exhausted" ELSE "completed"
    BY <1>1 DEF Course, Place
  <2>2. Len(commits) = (IF round[r] = 1 THEN 2 ELSE 4) /\ rev[r] = Len(commits)
    BY <1>1 DEF Course, Committed
  <2> QED
    BY <2>1, <2>2
<1>7. Owners'
  BY <1>2, <1>3, <1>5, RunsAssumption DEF Owners
<1>8. Course' /\ Chain' /\ Evidence' /\ Fresh'
  BY <1>2, <1>5 DEF Course, Chain, Evidence, Fresh
<1>9. Closing'
  <2>1. \A q \in Runs: q # r => exit[q] \notin {0, 3}
    BY <1>3 DEF Closing
  <2>2. exit'[r] = (IF stop = "completed" THEN 0 ELSE 3) /\ \A q \in Runs: q # r => exit'[q] = exit[q]
    BY <1>1 DEF TypeOK, ExitCode
  <2>3. CASE stop = "completed"
    <3>0. Len(ledger) = 14 /\ rev[r] = 4 /\ Len(commits) = 4
      BY <1>6, <2>3
    <3>1. receipt' = [status |-> "completed", tail |-> 14, result |-> 3, integration |-> 4, rounds |-> 1]
      BY <2>3, <3>0, Receipted, TypeParts DEF repair_rounds_used
    <3>2. receipt' # NoReceipt /\ receipt'.status = "completed"
      BY <3>1 DEF NoReceipt
    <3> QED
      BY <1>2, <1>3, <2>1, <2>2, <2>3, <3>0, <3>1, <3>2 DEF Closing, Closed, Last
  <2>4. CASE stop = "budget_exhausted"
    <3>0. Len(ledger) = 7 /\ rev[r] = 2
      BY <1>6, <2>4
    <3>1. receipt' = [status |-> "budget_exhausted", tail |-> 7, result |-> 2, integration |-> 0, rounds |-> 0]
      BY <2>4, <3>0, Receipted, TypeParts DEF repair_rounds_used
    <3>2. receipt' # NoReceipt /\ receipt'.status = "budget_exhausted"
      BY <3>1 DEF NoReceipt
    <3> QED
      BY <1>2, <1>3, <2>1, <2>2, <2>4, <3>0, <3>1, <3>2 DEF Closing, Closed, Last
  <2> QED
    BY <1>6, <2>3, <2>4
<1> QED
  BY <1>7, <1>8, <1>9

\* Every step of every run keeps the facts.
LEMMA FactsStep == TypeOK /\ Facts /\ Memories /\ [Next]_vars => Facts'
<1> SUFFICES ASSUME TypeOK, Facts, Memories, [Next]_vars
             PROVE  Facts'
  OBVIOUS
<1>1. CASE Edit \/ UNCHANGED vars
  BY <1>1, QuietStep
<1>2. ASSUME NEW r \in Runs, Start(r) \/ MakeOutput(r) \/ MakeWorkspace(r) \/ Raise(r) \/ Die(r)
      PROVE  Facts'
  BY <1>2, WaitStep, WorkspaceStep
<1>3. ASSUME NEW r \in Runs,
             Contract(r) \/ Log(r) \/ Write(r) \/ Commit(r) \/ Check(r) \/ Review(r) \/ Dispose(r)
             \/ Integrate(r) \/ FinalCheck(r) \/ Receipt(r)
      PROVE  Facts'
  BY <1>3, CommitStep, LogStep, WriteStep, CheckStep, ReviewStep, DisposeStep, ReceiptStep
<1> QED
  BY <1>1, <1>2, <1>3 DEF Next, Proceed

\* Only the run at work appends to the ledger, so its memory stays true.
LEMMA MemoryStep == TypeOK /\ Facts /\ Memories /\ [Next]_vars => Memories'
<1> SUFFICES ASSUME TypeOK, Facts, Memories, [Next]_vars
             PROVE  Memories'
  OBVIOUS
<1> USE DEF output, workspace, world, evidence, process, vars
<1> DEFINE Unread == {"idle", "make", "workspace"}
<1>0. pc \in [Runs -> Points] /\ memory \in [Runs -> MemoryType] /\ ledger \in Seq(EventType)
  BY DEF TypeOK
<1>1. ASSUME UNCHANGED <<memory, ledger>>,
             \A q \in Runs: pc'[q] \in Unread => pc[q] \in Unread,
             \A q \in Runs: Working(q)' => Working(q)
      PROVE  Memories'
  <2>1. \A q \in Runs: pc'[q] \in Unread => memory'[q] = NoMemory
    BY <1>1 DEF Memories
  <2>2. \A q \in Runs: Working(q)' =>
            /\ memory'[q].sequence = Len(ledger')
            /\ memory'[q].state = IF Len(ledger') = 0 THEN "none" ELSE ledger'[Len(ledger')].state
    BY <1>1 DEF Memories
  <2> QED
    BY <2>1, <2>2 DEF Memories
<1>2. ASSUME NEW r \in Runs, Log(r)
      PROVE  Memories'
  <2>1. Working(r) /\ pc' = [pc EXCEPT ![r] = Follow[pc[r]]] /\ Follow[pc[r]] \notin Unread
    BY <1>2, Lifecycle DEF Log, Goto, Working, Waiting
  <2>2. \A q \in Runs: q # r => pc'[q] = pc[q] /\ ~Working(q)
    BY <1>0, <2>1, Alone DEF Facts
  <2>3. pc'[r] = Follow[pc[r]]
    BY <1>0, <2>1
  <2>4. /\ Len(ledger') = Len(ledger) + 1 /\ ledger'[Len(ledger')].state = pc[r] /\ Len(ledger) \in Nat
        /\ memory'[r] = [sequence |-> memory[r].sequence + 1, state |-> pc[r]]
        /\ \A q \in Runs: q # r => memory'[q] = memory[q]
    BY <1>0, <1>2, LogTypes, TypeParts
  <2>5. memory'[r].sequence = Len(ledger') /\ memory'[r].state = ledger'[Len(ledger')].state
    BY <2>1, <2>4 DEF Memories
  <2> QED
    BY <2>1, <2>2, <2>3, <2>4, <2>5 DEF Memories, Working
<1>3. ASSUME NEW r \in Runs, MakeWorkspace(r), ~Owned
      PROVE  Memories'
  <2>1. /\ pc[r] = "workspace" /\ pc' = [pc EXCEPT ![r] = "base"] /\ UNCHANGED <<memory, ledger>>
        /\ owner = NoRun
    BY <1>3 DEF MakeWorkspace, Owned, Goto
  <2>2. Len(ledger) = 0 /\ memory[r] = NoMemory
    BY <2>1 DEF Facts, Owners, Memories
  <2>3. pc'[r] = "base" /\ \A q \in Runs: q # r => pc'[q] = pc[q]
    BY <1>0, <2>1
  <2> QED
    BY <2>1, <2>2, <2>3 DEF Memories, NoMemory, Working
<1>4. ASSUME NEW r \in Runs,
             \/ Start(r) \/ MakeOutput(r) \/ (MakeWorkspace(r) /\ Owned) \/ Raise(r) \/ Die(r)
             \/ Contract(r) \/ Write(r) \/ Commit(r) \/ Check(r) \/ Review(r) \/ Dispose(r)
             \/ Integrate(r) \/ FinalCheck(r) \/ Receipt(r)
      PROVE  Memories'
  <2>1. UNCHANGED <<memory, ledger>>
    BY <1>4 DEF Start, MakeOutput, MakeWorkspace, Raise, Die, Contract, Write, Commit, Check, Review,
       Dispose, Integrate, FinalCheck, Receipt
  <2>2. PICK point: /\ pc' = [pc EXCEPT ![r] = point]
                    /\ point \in Unread => pc[r] \in Unread
                    /\ point \notin Waiting => Working(r)
    <3>1. CASE Start(r) \/ MakeOutput(r) \/ (MakeWorkspace(r) /\ Owned) \/ Raise(r) \/ Die(r)
      BY <3>1 DEF Start, MakeOutput, MakeWorkspace, Raise, Die, Goto, Exit, Waiting
    <3>2. CASE Contract(r) \/ Write(r) \/ Commit(r) \/ Review(r) \/ Dispose(r) \/ Integrate(r) \/ Receipt(r)
      BY <3>2 DEF Contract, Write, Commit, Review, Dispose, Integrate, Receipt, Goto, Exit, Working, Waiting
    <3>3. CASE Check(r) \/ FinalCheck(r)
      BY <3>3 DEF Check, FinalCheck, RunCheck, Goto, Exit, Working, Waiting
    <3> QED
      BY <1>4, <3>1, <3>2, <3>3
  <2>3. pc'[r] = point /\ \A q \in Runs: q # r => pc'[q] = pc[q]
    BY <1>0, <2>2
  <2> QED
    BY <1>1, <2>1, <2>2, <2>3 DEF Working
<1>5. CASE Edit \/ UNCHANGED vars
  <2>1. UNCHANGED <<pc, memory, ledger>>
    BY <1>5 DEF Edit
  <2> QED
    BY <1>1, <2>1 DEF Working
<1> QED
  BY <1>2, <1>3, <1>4, <1>5 DEF Next, Proceed

\* The inductive invariant holds whatever runs are started and whatever happens
\* to them.
THEOREM Invariant == Spec => []IInv
<1>1. Init => IInv
  <2> SUFFICES ASSUME Init
               PROVE  IInv
    OBVIOUS
  <2>1. \A r \in Runs: pc[r] = "idle" /\ round[r] = 0 /\ memory[r] = NoMemory /\ exit[r] = -1
    BY DEF Init
  <2>2. ledger = <<>> /\ commits = <<>> /\ Len(ledger) = 0 /\ Len(commits) = 0 /\ receipt = NoReceipt /\ owner = NoRun
    BY DEF Init
  <2>3. verdicts[1] = NoVerdict /\ verdicts[2] = NoVerdict
    BY DEF Init
  <2>4. TypeOK
    <3>1. ProcessTypes /\ OutputTypes
      BY RunsAssumption DEF Init, ProcessTypes, OutputTypes, Points
    <3>2. LedgerTypes /\ WorkspaceTypes /\ WorldTypes
      BY LimitsAssumption, Members DEF Init, NoMemory, LedgerTypes, WorkspaceTypes, WorldTypes, Contents
    <3> QED
      BY <3>1, <3>2, TypeParts
  <2>5. Owners
    BY <2>1, <2>2 DEF Owners, Working, Waiting, Running
  <2>6. Course /\ Fresh /\ Memories
    BY <2>1 DEF Course, Fresh, Memories, Working, Waiting
  <2>7. Chain /\ Evidence
    BY <2>2, <2>3 DEF Chain, Evidence
  <2>8. Closing
    BY <2>1, <2>2 DEF Closing, Closed
  <2> QED
    BY <2>4, <2>5, <2>6, <2>7, <2>8 DEF IInv
<1>2. IInv /\ [Next]_vars => IInv'
  BY TypeStep, FactsStep, MemoryStep DEF IInv, Facts
<1> QED
  BY <1>1, <1>2, PTL DEF Spec

\* Type correctness.
THEOREM TypeCorrect == Spec => []TypeOK
  BY Invariant, PTL DEF IInv

\* Whatever is started on an output directory, one run made everything in it.
THEOREM OneRun == Spec => []OneRunPerOutput
<1>1. IInv => OneRunPerOutput
  BY DEF IInv, Owners, Closing, OneRunPerOutput
<1> QED
  BY <1>1, Invariant, PTL

\* The ledger is one chain, however often runs die and others are started.
THEOREM OneChain == Spec => []LedgerIsOneChain
<1>1. IInv => LedgerIsOneChain
  <2> SUFFICES ASSUME TypeOK, Chain
               PROVE  LedgerIsOneChain
    BY DEF IInv
  <2> DEFINE n == Len(ledger)
             states == [i \in 1..n |-> ledger[i].state]
  <2>1. n \in 0..14
    <3>1. n \in Nat /\ n <= 14
      BY DEF TypeOK, Chain
    <3> HIDE DEF n
    <3> QED
      BY <3>1
  <2>2. Len(states) = n /\ states \in Seq(States)
    BY <2>1, Members DEF TypeOK
  <2>3. CASE \A i \in 1..n: states[i] = Completed[i]
    <3>1. SubSeq(states, 1, n) = SubSeq(Completed, 1, n)
      BY <2>1, <2>2, <2>3 DEF Completed
    <3> QED
      BY <2>1, <2>2, <3>1 DEF Chain, LedgerIsOneChain, IsPrefix, Completed
  <2>4. CASE n = 7 /\ states[7] = "budget_exhausted" /\ \A i \in 1..6: states[i] = Completed[i]
    <3>1. SubSeq(states, 1, n) = SubSeq(Exhausted, 1, n)
      BY <2>2, <2>4, ExhaustedStates
    <3> QED
      BY <2>2, <2>4, <3>1, ExhaustedStates DEF Chain, LedgerIsOneChain, IsPrefix
  <2>5. \A i \in 1..n: states[i] = Completed[i] \/ (i = 7 /\ n = 7 /\ states[i] = "budget_exhausted")
    BY DEF Chain
  <2> HIDE DEF n, states
  <2>6. CASE \E i \in 1..n: states[i] # Completed[i]
    <3>1. n = 7 /\ states[7] = "budget_exhausted"
      BY <2>5, <2>6
    <3>2. \A i \in 1..6: states[i] = Completed[i]
      BY <2>5, <3>1
    <3> QED
      BY <2>4, <3>1, <3>2
  <2> QED
    BY <2>3, <2>6
<1> QED
  BY <1>1, Invariant, PTL

-----------------------------------------------------------------------------
(* The workspace while nobody edits it.                                    *)

\* What score.py holds when a run stands at p with k artifacts built, and what
\* the revisions hold.
History == <<"base", "defect", "repaired", "repaired">>
Score(p, k) == IF p = "commit" THEN History[k + 2] ELSE History[k + 1]

Unedited ==
    outside = 0 =>
        /\ owner = NoRun => tree = "base"
        /\ \A r \in Runs: Working(r) => tree = Score(pc[r], round[r])
        /\ \A i \in 1..Len(commits): commits[i].score = History[i]

\* A step that neither writes nor commits leaves the tree as the owner expects it.
LEMMA UneditedFrame ==
    ASSUME TypeOK, Unedited, NEW r \in Runs, NEW point \in Points \ {"commit"}, Goto(r, point),
           point \notin Waiting => Working(r) /\ pc[r] # "commit",
           UNCHANGED <<outside, round, owner, commits, tree>>
    PROVE  Unedited'
<1>1. pc'[r] = point /\ \A q \in Runs: q # r => pc'[q] = pc[q]
  BY DEF Goto, TypeOK
<1>2. \A q \in Runs: Working(q)' => Working(q) /\ Score(pc'[q], round'[q]) = Score(pc[q], round[q])
  BY <1>1 DEF Working, Score
<1> QED
  BY <1>2 DEF Unedited

\* The commit takes what the run wrote.
LEMMA UneditedCommit ==
    ASSUME TypeOK, Facts, Unedited, NEW r \in Runs, Contract(r) \/ Commit(r) \/ Integrate(r)
    PROVE  Unedited'
<1> USE DEF Facts
<1> DEFINE n == Len(commits)
<1>1. Working(r) /\ CommitAs(r) /\ owner = r /\ owner # NoRun /\ UNCHANGED <<owner, tree, outside>>
  BY RunsAssumption, Alone DEF Contract, Commit, Integrate, Working, Waiting, output, world
<1>2. \A q \in Runs: q # r => ~Working(q)
  BY <1>1, Alone
<1>3. n = Committed(pc[r], round[r]) /\ Place(pc[r], round[r], Len(ledger)) /\ n \in Nat
  BY <1>1 DEF Course, TypeOK
<1>4. commits' = Append(commits, [run |-> r, score |-> tree])
  BY <1>1 DEF CommitAs
<1>5. /\ Len(commits') = n + 1 /\ commits'[n + 1].score = tree
      /\ \A i \in 1..n: commits'[i] = commits[i]
  BY <1>4 DEF TypeOK
<1>6. \/ /\ pc[r] = "base" /\ n = 0 /\ round[r] = 0 /\ pc' = [pc EXCEPT ![r] = "draft"] /\ round' = round
      \/ /\ pc[r] = "commit" /\ n = round[r] + 1 /\ round[r] \in {0, 1}
         /\ pc' = [pc EXCEPT ![r] = "check"] /\ round' = [round EXCEPT ![r] = @ + 1]
      \/ /\ pc[r] = "integrate" /\ n = 3 /\ round[r] = 2
         /\ pc' = [pc EXCEPT ![r] = "final_check"] /\ round' = round
  BY <1>3 DEF Contract, Commit, Integrate, Goto, Committed, Place
<1>7. /\ \A q \in Runs: q # r => pc'[q] = pc[q]
      /\ \/ pc[r] = "base" /\ n = 0 /\ round[r] = 0 /\ pc'[r] = "draft" /\ round'[r] = 0
         \/ /\ pc[r] = "commit" /\ n = round[r] + 1 /\ round[r] \in {0, 1}
            /\ pc'[r] = "check" /\ round'[r] = round[r] + 1
         \/ pc[r] = "integrate" /\ n = 3 /\ round[r] = 2 /\ pc'[r] = "final_check" /\ round'[r] = 2
  BY <1>6 DEF TypeOK
<1>8. SUFFICES ASSUME outside = 0 PROVE Unedited'
  BY <1>1 DEF Unedited
<1>9. tree = Score(pc[r], round[r]) /\ \A i \in 1..n: commits[i].score = History[i]
  BY <1>1, <1>8 DEF Unedited
<1>10. tree = History[n + 1] /\ tree = Score(pc'[r], round'[r])
  <2> HIDE DEF n
  <2>1. CASE pc[r] = "base" /\ n = 0 /\ round[r] = 0 /\ pc'[r] = "draft" /\ round'[r] = 0
    BY <1>9, <2>1 DEF Score
  <2>2. CASE /\ pc[r] = "commit" /\ n = round[r] + 1 /\ round[r] \in {0, 1}
             /\ pc'[r] = "check" /\ round'[r] = round[r] + 1
    BY <1>9, <2>2 DEF Score
  <2>3. CASE pc[r] = "integrate" /\ n = 3 /\ round[r] = 2 /\ pc'[r] = "final_check" /\ round'[r] = 2
    BY <1>9, <2>3 DEF Score, History
  <2> QED
    BY <1>7, <2>1, <2>2, <2>3
<1>11. \A i \in 1..Len(commits'): commits'[i].score = History[i]
  <2> SUFFICES ASSUME NEW i \in 1..(n + 1) PROVE commits'[i].score = History[i]
    BY <1>5
  <2>1. CASE i = n + 1
    BY <1>5, <1>10, <2>1
  <2>2. CASE i # n + 1
    BY <1>3, <1>5, <1>9, <2>2
  <2> QED
    BY <2>1, <2>2
<1> QED
  BY <1>1, <1>2, <1>7, <1>10, <1>11 DEF Unedited, Working

\* Nobody but the owner writes score.py, unless someone edits it.
LEMMA UneditedStep == IInv /\ Unedited /\ [Next]_vars => Unedited'
<1> SUFFICES ASSUME IInv, Unedited, [Next]_vars PROVE Unedited'
  OBVIOUS
<1>0. TypeOK /\ Facts
  BY DEF IInv, Facts
<1> USE DEF Goto, Exit
<1>1. CASE Edit
  BY <1>0, <1>1 DEF Edit, TypeOK, Unedited
<1>2. CASE UNCHANGED vars
  BY <1>2 DEF vars, process, output, workspace, world, Unedited, Working
<1>3. ASSUME NEW r \in Runs, Contract(r) \/ Commit(r) \/ Integrate(r) PROVE Unedited'
  BY <1>0, <1>3, UneditedCommit
<1>4. ASSUME NEW r \in Runs, Write(r) PROVE Unedited'
  <2>1. /\ pc[r] = "write" /\ pc' = [pc EXCEPT ![r] = "commit"]
        /\ tree' = IF round[r] = 0 THEN "defect" ELSE "repaired"
        /\ UNCHANGED <<outside, round, owner, commits>>
    BY <1>4 DEF Write, output, world
  <2>2. Working(r) /\ pc'[r] = "commit" /\ \A q \in Runs: q # r => pc'[q] = pc[q]
    BY <1>0, <2>1 DEF Working, Waiting, TypeOK
  <2>3. owner = r /\ owner # NoRun /\ \A q \in Runs: q # r => ~Working(q)
    BY <1>0, <2>2, Alone, RunsAssumption DEF Facts
  <2>4. round[r] \in {0, 1}
    BY <1>0, <2>1, <2>2 DEF Facts, Course, Place
  <2>5. tree' = Score("commit", round[r])
    BY <2>1, <2>4 DEF Score, History
  <2> QED
    BY <2>1, <2>2, <2>3, <2>5 DEF Unedited, Working
<1>5. ASSUME NEW r \in Runs, MakeWorkspace(r), ~Owned PROVE Unedited'
  <2>1. /\ owner = NoRun /\ owner' = r /\ pc' = [pc EXCEPT ![r] = "base"]
        /\ UNCHANGED <<outside, round, commits, tree>>
    BY <1>5 DEF MakeWorkspace, Owned, workspace, world
  <2>2. /\ \A q \in Runs: ~Working(q) /\ q # NoRun /\ round[q] = 0
        /\ pc'[r] = "base" /\ \A q \in Runs: q # r => pc'[q] = pc[q]
    BY <1>0, <2>1, RunsAssumption DEF Facts, Owners, TypeOK
  <2> QED
    BY <2>1, <2>2 DEF Unedited, Working, Score, History
<1>6. ASSUME NEW r \in Runs,
             \/ Start(r) \/ MakeOutput(r) \/ (MakeWorkspace(r) /\ Owned) \/ Raise(r) \/ Die(r)
             \/ Check(r) \/ FinalCheck(r) \/ Log(r) \/ Review(r) \/ Dispose(r) \/ Receipt(r)
      PROVE  Unedited'
  <2>1. UNCHANGED <<outside, round, owner, commits, tree>>
    BY <1>6 DEF Start, MakeOutput, MakeWorkspace, Raise, Die, Check, FinalCheck, Log, Review, Dispose, Receipt,
       output, workspace, world
  <2>2. PICK point \in Points \ {"commit"}: Goto(r, point) /\ (point \notin Waiting => Working(r) /\ pc[r] # "commit")
    <3>1. CASE Start(r) \/ MakeOutput(r) \/ (MakeWorkspace(r) /\ Owned) \/ Raise(r) \/ Die(r)
      BY <3>1 DEF Start, MakeOutput, MakeWorkspace, Raise, Die, Waiting, Points
    <3>2. CASE Check(r) \/ FinalCheck(r) \/ Review(r) \/ Dispose(r) \/ Receipt(r)
      BY <3>2, Lifecycle DEF Check, FinalCheck, RunCheck, Review, Dispose, Receipt, Working, Waiting, Points
    <3>3. CASE Log(r)
      BY <3>3, Lifecycle, FollowTypes DEF Log, Working, Waiting
    <3> QED
      BY <1>6, <3>1, <3>2, <3>3
  <2> QED
    BY <1>0, <2>1, <2>2, UneditedFrame
<1> QED
  BY <1>1, <1>2, <1>3, <1>4, <1>5, <1>6 DEF Next, Proceed

\* Without an edit the revisions hold what the workers wrote, one after the other.
LEMMA UneditedKept == Spec => []Unedited
<1>1. Init => Unedited
  BY DEF Init, Unedited, Working, Waiting
<1> QED
  BY <1>1, UneditedStep, Invariant, PTL DEF Spec

\* A completed receipt rests on the evidence, and on one line of revisions.
THEOREM EarnedIsProved == Spec => []CompletedWasEarned
<1>1. IInv /\ Unedited => CompletedWasEarned
  <2> SUFFICES ASSUME Chain, Evidence, Closing, Unedited, Closed, receipt.status = "completed"
               PROVE  CompletedWasEarned
    BY DEF IInv, CompletedWasEarned
  <2>1. receipt = [status |-> "completed", tail |-> 14, result |-> 3, integration |-> 4, rounds |-> 1]
    BY DEF Closing
  <2>2. Len(ledger) = 14 /\ Len(commits) = 4
    BY <2>1 DEF Closing
  <2>3. /\ checks[1] = "failed" /\ checks[2] = "passed" /\ checks[3] = "passed"
        /\ verdicts[1] = Asked /\ decided = 2 /\ verdicts[2] = Passed
    BY <2>2 DEF Evidence
  <2>4. outside = 0 => /\ commits[2].score = "defect"
                       /\ commits[3].score = "repaired" /\ commits[4].score = "repaired"
    BY <2>2 DEF Unedited, History
  <2> QED
    BY <2>1, <2>2, <2>3, <2>4 DEF CompletedWasEarned, Asked, Passed
<1> QED
  BY <1>1, Invariant, UneditedKept, PTL

\* The receipt, the ledger, the limit and the exit code agree.
THEOREM ReceiptCloses == Spec => []ReceiptClosesLedger
<1>1. IInv => ReceiptClosesLedger
  <2> SUFFICES ASSUME TypeOK, Chain, Evidence, Closing
               PROVE  ReceiptClosesLedger
    BY DEF IInv
  <2>1. \A i \in 1..Len(ledger):
            ledger[i].state = Completed[i] \/ (i = 7 /\ ledger[i].state = "budget_exhausted")
    BY DEF Chain
  <2>2. CASE /\ receipt = [status |-> "completed", tail |-> 14, result |-> 3, integration |-> 4, rounds |-> 1]
             /\ Len(ledger) = 14 /\ ledger[14].state = "completed"
    <3>1. ledger[7].state # "budget_exhausted"
      BY <2>2, CompletedStates DEF Chain
    <3>2. \A i \in 1..14: ledger[i].state = Completed[i]
      BY <2>1, <2>2, <3>1
    <3>3. {i \in 1..Len(ledger): ledger[i].state = "building"} = {4, 8}
      BY <2>2, <3>2, CompletedStates
    <3>4. Building = 2
      <4>1. IsFiniteSet({4}) /\ Cardinality({4}) = 1
        BY FS_Singleton
      <4>2. {4, 8} = {4} \cup {8} /\ 8 \notin {4}
        OBVIOUS
      <4>3. Cardinality({4} \cup {8}) = 2
        BY <4>1, <4>2, FS_AddElement
      <4> QED
        BY <3>3, <4>2, <4>3 DEF Building
    <3>5. limit >= 1
      BY <2>2, <3>1 DEF Evidence
    <3>6. receipt.tail = Len(ledger) /\ Last(ledger).state = receipt.status /\ receipt.rounds = 1
      BY <2>2 DEF Last
    <3> QED
      BY <3>4, <3>5, <3>6 DEF ReceiptClosesLedger, Closing, TypeOK
  <2>3. CASE /\ receipt = [status |-> "budget_exhausted", tail |-> 7, result |-> 2, integration |-> 0, rounds |-> 0]
             /\ Len(ledger) = 7 /\ ledger[7].state = "budget_exhausted"
    <3>1. {i \in 1..Len(ledger): ledger[i].state = "building"} = {4}
      BY <2>1, <2>3, CompletedStates
    <3>2. Building = 1
      BY <3>1, FS_Singleton DEF Building
    <3>3. limit = 0
      BY <2>3 DEF Evidence
    <3>4. receipt.tail = Len(ledger) /\ Last(ledger).state = receipt.status /\ receipt.rounds = 0
      BY <2>3 DEF Last
    <3> QED
      BY <3>2, <3>3, <3>4 DEF ReceiptClosesLedger, Closing, TypeOK
  <2>4. CASE ~Closed
    BY <2>4 DEF ReceiptClosesLedger, Closing
  <2> QED
    BY <2>2, <2>3, <2>4 DEF Closing
<1> QED
  BY <1>1, Invariant, PTL
-----------------------------------------------------------------------------
(* The refinement.                                                         *)

built == IF owner = NoRun THEN 0 ELSE round[owner]
verdict == IF owner = NoRun \/ round[owner] = 0 THEN "none" ELSE verdicts[round[owner]].verdict
outcome == IF Closed THEN receipt.status ELSE "open"

\* The abstract state of a run at work.
LEMMA AtWork ==
    ASSUME TypeOK, Facts, NEW r \in Runs, Working(r)
    PROVE  /\ owner = r /\ owner # NoRun /\ built = round[r] /\ outcome = "open" /\ limit >= 0
           /\ verdict = IF round[r] = 0 THEN "none" ELSE verdicts[round[r]].verdict
<1>1. owner = r /\ owner # NoRun
  BY Alone, RunsAssumption DEF Facts
<1>2. outcome = "open"
  BY DEF Facts, Course, outcome, Closed
<1> QED
  BY <1>1, <1>2 DEF Facts, Owners, built, verdict

\* Steps that build nothing, judge nothing and close nothing.
LEMMA Stutters ==
    ASSUME TypeOK, Facts, [Next]_vars,
           UNCHANGED <<round, verdicts, receipt>>
    PROVE  UNCHANGED <<limit, built, verdict, outcome>>
<1> USE DEF output, workspace, world, evidence, process
<1>1. limit' = limit
  BY DEF Next, Proceed, vars, Start, MakeOutput, MakeWorkspace, Contract, Log, Write, Commit, Check, Review, Dispose,
         Integrate, FinalCheck, Receipt, Raise, Die, Edit
<1>2. owner' = owner \/ (owner = NoRun /\ owner' \in Runs)
  BY DEF Next, Proceed, vars, Start, MakeOutput, MakeWorkspace, Contract, Log, Write, Commit, Check, Review, Dispose,
         Integrate, FinalCheck, Receipt, Raise, Die, Edit, Owned
<1>3. outcome' = outcome
  BY DEF outcome, Closed
<1>4. built' = built /\ verdict' = verdict
  BY <1>2, RunsAssumption DEF built, verdict, Facts, Owners
<1> QED
  BY <1>1, <1>3, <1>4

\* A commit is a build that the verdict before it asked for, within the limit.
LEMMA BuildStep ==
    ASSUME TypeOK, Facts, NEW r \in Runs, Commit(r)
    PROVE  /\ outcome = "open" /\ limit >= 0
           /\ built = 0 \/ (verdict = "NEEDS_FIXES" /\ built <= limit)
           /\ built' = built + 1 /\ verdict' = "none" /\ UNCHANGED <<limit, outcome>>
<1>1. Working(r) /\ pc[r] = "commit" /\ round' = [round EXCEPT ![r] = @ + 1] /\ UNCHANGED <<limit, owner, verdicts, receipt>>
  BY DEF Commit, CommitAs, Working, Waiting, output, world, evidence
<1>2. (round[r] = 0 /\ Len(ledger) = 4) \/ (round[r] = 1 /\ Len(ledger) = 8)
  BY <1>1 DEF Facts, Course, Place
<1>3. round'[r] = round[r] + 1
  BY <1>1 DEF TypeOK
<1>4. verdicts[round[r] + 1] = NoVerdict
  <2>1. CASE round[r] = 0
    <3>1. Len(ledger) = 4 /\ round[r] + 1 = 1
      BY <1>2, <2>1
    <3>2. verdicts[1] = NoVerdict
      BY <3>1 DEF Facts, Evidence
    <3> QED
      BY <3>1, <3>2
  <2>2. CASE round[r] = 1
    <3>1. Len(ledger) = 8 /\ round[r] + 1 = 2
      BY <1>2, <2>2
    <3>2. verdicts[2] = NoVerdict
      BY <3>1 DEF Facts, Evidence
    <3> QED
      BY <3>1, <3>2
  <2> QED
    BY <1>2, <2>1, <2>2
<1>5. round[r] = 1 => verdicts[1] = Asked /\ limit >= 1
  <2>1. Len(ledger) = 8 => ledger[7].state # "budget_exhausted"
    BY CompletedStates DEF Facts, Chain
  <2>2. Len(ledger) = 8 => verdicts[1] = Asked /\ limit >= 1
    BY <2>1 DEF Facts, Evidence
  <2> QED
    BY <1>2, <2>2
<1>6. built' = round[r] + 1 /\ verdict' = "none"
  BY <1>1, <1>2, <1>3, <1>4, AtWork DEF built, verdict, NoVerdict
<1>7. outcome' = outcome
  BY <1>1 DEF outcome, Closed
<1> QED
  BY <1>1, <1>2, <1>5, <1>6, <1>7, AtWork DEF Asked

\* A review is the one verdict on the build before it.
LEMMA JudgeStep ==
    ASSUME TypeOK, Facts, NEW r \in Runs, Review(r)
    PROVE  /\ outcome = "open" /\ built > 0 /\ verdict = "none"
           /\ verdict' \in {"NEEDS_FIXES", "PASS"} /\ UNCHANGED <<limit, built, outcome>>
<1>1. Working(r) /\ pc[r] = "review" /\ UNCHANGED <<limit, owner, round, receipt>>
  BY DEF Review, Working, Waiting, workspace, world
<1>2. round[r] \in 1..2 /\ verdicts[round[r]] = NoVerdict
  BY <1>1 DEF Facts, Course, Place, Fresh
<1>3. verdicts'[round[r]].verdict \in {"NEEDS_FIXES", "PASS"}
  BY <1>2 DEF Review, TypeOK
<1>4. outcome' = outcome /\ built' = built /\ verdict' = verdicts'[round[r]].verdict
  BY <1>1, <1>2, AtWork DEF outcome, Closed, built, verdict
<1> QED
  BY <1>1, <1>2, <1>3, <1>4, AtWork DEF NoVerdict

\* A receipt closes the repair as the last verdict and the limit demand.
LEMMA CloseStep ==
    ASSUME TypeOK, Facts, Memories, NEW r \in Runs, Receipt(r)
    PROVE  /\ outcome = "open"
           /\ \/ verdict = "PASS" /\ outcome' = "completed"
              \/ verdict = "NEEDS_FIXES" /\ built = limit + 1 /\ outcome' = "budget_exhausted"
           /\ UNCHANGED <<limit, built, verdict>>
<1>1. Working(r) /\ pc[r] = "receipt" /\ UNCHANGED <<limit, owner, round, verdicts>>
  BY DEF Receipt, Working, Waiting, workspace, world, evidence
<1>2. UNCHANGED <<built, verdict>>
  BY <1>1 DEF built, verdict
<1>3. receipt'.status = Last(ledger).state /\ receipt'.tail = Len(ledger)
  BY Receipted, TypeParts DEF Facts
<1>4. Closed'
  BY <1>3, Lifecycle DEF Closed, NoReceipt, Facts, Course, Receipt
<1>5. CASE round[r] = 1
  <2>1. Len(ledger) = 7 /\ Last(ledger).state = "budget_exhausted"
    BY <1>1, <1>5 DEF Facts, Course, Place
  <2>2. verdicts[1] = Asked /\ limit = 0
    BY <2>1 DEF Facts, Evidence, Last
  <2> QED
    BY <1>1, <1>2, <1>3, <1>4, <1>5, <2>1, <2>2, AtWork DEF Asked, outcome
<1>6. CASE round[r] = 2
  <2>1. Len(ledger) = 14 /\ Last(ledger).state = "completed"
    BY <1>1, <1>6 DEF Facts, Course, Place
  <2>2. verdicts[2] = Passed
    BY <2>1 DEF Facts, Evidence
  <2> QED
    BY <1>1, <1>2, <1>3, <1>4, <1>6, <2>1, <2>2, AtWork DEF Passed, outcome
<1> QED
  BY <1>1, <1>5, <1>6 DEF Facts, Course, Place

\* Every behaviour of the runs is a bounded repair: nothing is built again
\* without a verdict that asks for it and a round to do it in.
THEOREM Refinement == Spec => KeepsBounds
<1>1. Init => Task!Init
  BY LimitsAssumption DEF Init, Task!Init, Closed
<1>2. IInv /\ [Next]_vars => [Task!Next]_(Task!vars)
  <2> SUFFICES ASSUME TypeOK, Facts, Memories, [Next]_vars
               PROVE  [Task!Next]_(Task!vars)
    BY DEF IInv, Facts
  <2>1. CASE \E r \in Runs: Commit(r)
    <3>1. Task!Build
      BY <2>1, BuildStep DEF Task!Build, built, verdict, outcome
    <3> QED
      BY <3>1 DEF Task!Next
  <2>2. CASE \E r \in Runs: Review(r)
    <3>1. Task!Judge
      BY <2>2, JudgeStep DEF Task!Judge, built, verdict, outcome
    <3> QED
      BY <3>1 DEF Task!Next
  <2>3. CASE \E r \in Runs: Receipt(r)
    <3>1. Task!Close
      BY <2>3, CloseStep DEF Task!Close, built, verdict, outcome
    <3> QED
      BY <3>1 DEF Task!Next
  <2>4. CASE UNCHANGED <<round, verdicts, receipt>>
    BY <2>4, Stutters DEF Task!vars, built, verdict, outcome
  <2> QED
    BY <2>1, <2>2, <2>3, <2>4 DEF Next, Proceed, vars, process, output, workspace, world, evidence, Start, MakeOutput,
       MakeWorkspace, Contract, Log, Write, Check, Dispose, Integrate, FinalCheck, Raise, Die, Edit
<1> QED
  BY <1>1, <1>2, Invariant, PTL DEF Spec, KeepsBounds, Task!Spec

-----------------------------------------------------------------------------
(* Runs come to their end.                                                 *)

\* How many statements a run has before it at most.  A repaired artifact goes
\* the way of the first one again.
Index ==
    [idle |-> 40, make |-> 39, workspace |-> 38, base |-> 37, draft |-> 36, authorized |-> 35,
     assigned |-> 34, dispose |-> 26, needs_fixes |-> 25, building |-> 24, write |-> 23,
     commit |-> 22, check |-> 21, mechanical_check |-> 20, critic_review |-> 19, review |-> 18,
     accepted_unit |-> 17, integrating |-> 16, integrate |-> 15, final_check |-> 14,
     final_review |-> 13, completed |-> 12, budget_exhausted |-> 2, receipt |-> 1,
     exited |-> 0, dead |-> 0]
Again(p, k) ==
    \/ p \in {"building", "write", "commit"} /\ k = 0
    \/ p \in {"check", "mechanical_check", "critic_review", "review"} /\ k = 1
Left(r) == Index[pc[r]] + IF Again(pc[r], round[r]) THEN 9 ELSE 0

\* Whatever the critic, the checks, git and the others do, every statement
\* brings its run closer to the end, and nobody is ever thrown back: a run takes
\* forty steps at most.
Approaches ==
    \A r \in Runs:
        /\ Left(r) \in 0..40 /\ Left(r)' <= Left(r)
        /\ Start(r) \/ Proceed(r) \/ Raise(r) \/ Die(r) => Left(r)' < Left(r)

\* The distance of a run at a point.
LEMMA LeftType ==
    ASSUME NEW p \in Points, NEW k \in 0..2
    PROVE  /\ Index[p] \in 0..40
           /\ Index[p] + (IF Again(p, k) THEN 9 ELSE 0) \in 0..40
  BY DEF Points, States, Follow, Index, Again

\* A step of run r brings r closer.
LEMMA Approach ==
    ASSUME IInv, NEW r \in Runs, Start(r) \/ Proceed(r) \/ Raise(r) \/ Die(r)
    PROVE  /\ Left(r)' < Left(r)
           /\ \A q \in Runs: q # r => Left(q)' = Left(q)
<1> USE DEF Goto, Exit
<1> DEFINE p == pc[r]
           k == round[r]
<1>0. pc \in [Runs -> Points] /\ round \in [Runs -> 0..2] /\ p \in Points /\ k \in 0..2
  BY DEF IInv, TypeOK
<1>1. PICK point: pc' = [pc EXCEPT ![r] = point]
  BY DEF Start, Proceed, MakeOutput, MakeWorkspace, Contract, Log, Write, Commit, Check, RunCheck, Review,
     Dispose, Integrate, FinalCheck, Receipt, Raise, Die
<1>2. pc'[r] = point /\ \A q \in Runs: q # r => pc'[q] = pc[q]
  BY <1>0, <1>1
<1>3. round' = round \/ (Commit(r) /\ round' = [round EXCEPT ![r] = @ + 1])
  BY DEF Start, Proceed, MakeOutput, MakeWorkspace, Contract, Log, Write, Commit, Check, Review,
     Dispose, Integrate, FinalCheck, Receipt, Raise, Die
<1>4. \A q \in Runs: q # r => round'[q] = round[q]
  BY <1>0, <1>3
<1>5. \A q \in Runs: q # r => Left(q)' = Left(q)
  BY <1>2, <1>4 DEF Left
<1>6. Working(r) => Place(p, k, Len(ledger))
  BY DEF IInv, Course
<1>7. Left(r) = Index[p] + (IF Again(p, k) THEN 9 ELSE 0) /\ Left(r) \in 0..40
  BY <1>0, LeftType DEF Left
<1>8. Left(r)' = Index[point] + (IF Again(point, round'[r]) THEN 9 ELSE 0)
  BY <1>2 DEF Left
<1>9. CASE point \in {"exited", "dead"}
  <2>1. p \notin {"exited", "dead"}
    BY <1>1, <1>2, <1>9, Lifecycle DEF Start, Proceed, MakeOutput, MakeWorkspace, Contract, Log, Write, Commit, Check,
       Review, Dispose, Integrate, FinalCheck, Receipt, Raise, Die, Running
  <2>2. Left(r)' = 0
    BY <1>8, <1>9 DEF Index, Again
  <2>3. Left(r) > 0
    BY <1>0, <1>7, <2>1 DEF Points, States, Follow, Index
  <2> QED
    BY <1>5, <2>2, <2>3
<1>10. CASE point \notin {"exited", "dead"}
  <2>1. CASE Start(r) \/ MakeOutput(r) \/ MakeWorkspace(r) \/ Contract(r)
    <3>1. \/ p = "idle" /\ point \in {"make", "workspace"}
          \/ p = "make" /\ point = "workspace"
          \/ p = "workspace" /\ point = "base"
          \/ p = "base" /\ point = "draft"
      BY <1>0, <1>2, <1>10, <2>1 DEF Start, MakeOutput, MakeWorkspace, Contract
    <3> QED
      BY <1>5, <1>7, <1>8, <3>1 DEF Index, Again
  <2>2. CASE Write(r) \/ Integrate(r) \/ Dispose(r)
    <3>1. /\ round' = round
          /\ \/ p = "write" /\ point = "commit"
             \/ p = "integrate" /\ point = "final_check"
             \/ p = "dispose" /\ point \in {"needs_fixes", "budget_exhausted"}
      BY <1>0, <1>2, <2>2 DEF Write, Integrate, Dispose
    <3> QED
      BY <1>5, <1>7, <1>8, <3>1 DEF Index, Again
  <2>3. CASE Commit(r)
    <3>1. p = "commit" /\ point = "check" /\ round'[r] = k + 1
      BY <1>0, <1>2, <2>3 DEF Commit
    <3>2. k \in {0, 1}
      BY <1>6, <3>1 DEF Working, Waiting, Place
    <3> QED
      BY <1>5, <1>7, <1>8, <3>1, <3>2 DEF Index, Again
  <2>4. CASE Check(r) \/ Review(r) \/ FinalCheck(r)
    <3>1. /\ round' = round
          /\ \/ p = "check" /\ point = "mechanical_check"
             \/ p = "review" /\ point = IF k = 1 THEN "dispose" ELSE "accepted_unit"
             \/ p = "final_check" /\ point = "final_review"
      BY <1>0, <1>2, <1>10, <2>4 DEF Check, Review, FinalCheck, RunCheck
    <3>2. p = "review" => k \in {1, 2}
      BY <1>6 DEF Working, Waiting, Place
    <3> QED
      BY <1>5, <1>7, <1>8, <3>1, <3>2 DEF Index, Again
  <2>5. CASE Log(r)
    <3>1. round' = round /\ p \in States /\ point = Follow[p]
      BY <1>0, <1>2, <2>5 DEF Log
    <3>2. p = "assigned" => k = 0
      BY <1>6 DEF Working, Waiting, Place
    <3>3. p = "needs_fixes" => k = 1
      BY <1>6 DEF Working, Waiting, Place
    <3>4. p = "building" => k \in {0, 1}
      BY <1>6 DEF Working, Waiting, Place
    <3> QED
      BY <1>5, <1>7, <1>8, <3>1, <3>2, <3>3, <3>4, Lifecycle DEF Index, Again
  <2>6. CASE Receipt(r) \/ Raise(r) \/ Die(r)
    BY <1>0, <1>2, <1>10, <2>6 DEF Receipt, Raise, Die
  <2> QED
    BY <2>1, <2>2, <2>3, <2>4, <2>5, <2>6 DEF Proceed
<1> QED
  BY <1>9, <1>10

\* No run goes on for ever, and no run keeps another from its end.
THEOREM RunsAdvance == Spec => [][Approaches]_vars
<1>1. IInv /\ IInv' /\ [Next]_vars => [Approaches]_vars
  <2> SUFFICES ASSUME IInv, IInv', Next PROVE Approaches
    OBVIOUS
  <2>1. \A r \in Runs: Left(r) \in 0..40 /\ Left(r)' \in 0..40
    BY LeftType DEF IInv, TypeOK, Left
  <2>2. CASE Edit
    <3>1. \A r \in Runs: Left(r)' = Left(r)
      BY <2>2 DEF Edit, process, Left
    <3>2. \A r \in Runs: ~(Start(r) \/ Proceed(r) \/ Raise(r) \/ Die(r))
      <4>1. outside' = outside + 1 /\ outside \in Nat
        BY <2>2 DEF Edit, IInv, TypeOK
      <4> QED
        BY <4>1 DEF Start, Proceed, MakeOutput, MakeWorkspace, Contract, Log, Write, Commit, Check, Review,
           Dispose, Integrate, FinalCheck, Receipt, Raise, Die, world
    <3> HIDE DEF Left
    <3> QED
      BY <2>1, <3>1, <3>2 DEF Approaches
  <2>3. ASSUME NEW r \in Runs, Start(r) \/ Proceed(r) \/ Raise(r) \/ Die(r) PROVE Approaches
    <3>1. Left(r)' < Left(r) /\ \A q \in Runs: q # r => Left(q)' = Left(q)
      BY <2>3, Approach
    <3>2. \A q \in Runs: q # r => ~(Start(q) \/ Proceed(q) \/ Raise(q) \/ Die(q))
      <4> SUFFICES ASSUME NEW q \in Runs, q # r, Start(q) \/ Proceed(q) \/ Raise(q) \/ Die(q) PROVE FALSE
        OBVIOUS
      <4>1. Left(q)' < Left(q) /\ Left(q)' = Left(q) /\ Left(q) \in 0..40
        BY <2>1, <3>1, Approach
      <4> HIDE DEF Left
      <4> QED
        BY <4>1
    <3>3. ASSUME NEW q \in Runs
          PROVE  /\ Left(q)' <= Left(q)
                 /\ Start(q) \/ Proceed(q) \/ Raise(q) \/ Die(q) => Left(q)' < Left(q)
      <4>1. \/ Left(q)' < Left(q)
            \/ Left(q)' = Left(q) /\ ~(Start(q) \/ Proceed(q) \/ Raise(q) \/ Die(q))
        BY <3>1, <3>2 DEF Left
      <4> HIDE DEF Left
      <4>2. Left(q)' <= Left(q)
        BY <2>1, <4>1
      <4> QED
        BY <4>1, <4>2, Zenon
    <3> QED
      BY <2>1, <3>3 DEF Approaches
  <2> QED
    BY <2>2, <2>3 DEF Next
<1> QED
  BY <1>1, Invariant, PTL DEF Spec
=============================================================================
